---------------------------- MODULE SitiosProofs ----------------------------
(* Proofs about Planificador: every process is in one place at most, while  *)
(* no connection is lost and no unlock overtakes a handler that blocks.     *)
EXTENDS PlanificadorProofs

-----------------------------------------------------------------------------
(* The places.                                                              *)

\* p is the PID of a message to a CPU, of one from it, or what it executes.
EnCanal(a, p) == \E i \in 1..Len(a) : a[i].tipo = "PID" /\ a[i].pid = p
EnPedido(d, p) == \E i \in 1..Len(d) : d[i].pid = p
EnLaCPU(a, d, k, p) == EnCanal(a, p) \/ EnPedido(d, p) \/ (Corre(a, k) /\ k.pid = p)

\* Who has p in its hands: the long-term scheduler, the READY queues, the short-term
\* scheduler, an IO thread, a CPU or a message to it or from it, a handler that is about
\* to move it, the queue of a mutex (even before the CPU is told that p waits).
EsNuevo(p) == t.estado[p] = "NEW"
EsListo(p) == t.estado[p] = "READY" /\ ~(corto.pc = "ejecutar" /\ corto.p = p)
EsElegido(p) == corto.pc \in {"ejecutar", "enviar"} /\ corto.p = p
EnIO(p) == hiloIO[p] # "ninguno"
EnCPU(p, c) == manejador[c].pc # "avisar" /\ EnLaCPU(aCpu[c], deCpu[c], cpu[c], p)
EnManejador(p, c) == manejador[c].pc \in {"desalojado", "despertar"} /\ manejador[c].pid = p
EnCola(p, m) == Contains(cola[m], p)

\* A place has a kind and, if there are several of the kind, an owner.
EnSitio(p, s, z) ==
  \/ s = "nuevo" /\ z = Nadie /\ EsNuevo(p)
  \/ s = "ready" /\ z = Nadie /\ EsListo(p)
  \/ s = "corto" /\ z = Nadie /\ EsElegido(p)
  \/ s = "io" /\ z = Nadie /\ EnIO(p)
  \/ s = "cpu" /\ z \in CPUs /\ EnCPU(p, z)
  \/ s = "manejador" /\ z \in CPUs /\ EnManejador(p, z)
  \/ s = "cola" /\ z \in Mutexes /\ EnCola(p, z)

UnSitio(p) == \A s, z, s2, z2 : EnSitio(p, s, z) /\ EnSitio(p, s2, z2) => s = s2 /\ z = z2
Acabados == {"EXIT", "INEXISTENTE"}
Vivo(p) == \A s, z : EnSitio(p, s, z) => t.estado[p] \notin Acabados
CadaUnoEnSuSitio == \A p \in Procesos : UnSitio(p) /\ Vivo(p)

\* A CPU that has p in its hands, or is about to, is the one of its PCB.
FdDeQuienLoTiene ==
  /\ \A c \in CPUs, p \in Procesos : EnCPU(p, c) => t.fdCpu[p] = c
  /\ corto.pc = "enviar" => t.fdCpu[corto.p] = corto.c

ColasSinRepetir == \A m \in Mutexes : SinRepetir(cola[m])

\* A handler of MUTEX_LOCK that has not blocked its process yet, nor perhaps answered to
\* the CPU, finds it still in the queue, and finds one of its own.
EnLaLlamada(c) == manejador[c].pc \in {"avisar", "bloquear"}
Aviso(c) ==
  LET h == manejador[c] IN
  /\ h.arg \in Mutexes /\ EnCola(h.pid, h.arg)
  /\ h.pc = "avisar" => t.fdCpu[h.pid] = c
Avisos ==
  /\ \A c \in CPUs : EnLaLlamada(c) => Aviso(c)
  /\ \A c, d \in CPUs :
       EnLaLlamada(c) /\ EnLaLlamada(d) /\ manejador[c].pid = manejador[d].pid => c = d

Sitios ==
  /\ TurnoCPU /\ CoherenteEn({"NEW"}, t) /\ ColasSinRepetir
  /\ CadaUnoEnSuSitio /\ FdDeQuienLoTiene /\ Avisos

\* No connection is lost, and no unlock wakes up a process that its handler has not blocked.
Ordenado == SinDesconexiones /\ SinAdelantos
Lugares == Ordenado => Sitios

-----------------------------------------------------------------------------
(* Moves.                                                                   *)

\* Nobody enters a place, but P the place s of z.
SubeTabla(P, s, z) ==
  \A p \in Procesos :
    /\ EsNuevo(p)' => EsNuevo(p) \/ (p = P /\ s = "nuevo" /\ z = Nadie)
    /\ EsListo(p)' => EsListo(p) \/ (p = P /\ s = "ready" /\ z = Nadie)
SubeCorto(P, s, z) ==
  \A p \in Procesos : EsElegido(p)' => EsElegido(p) \/ (p = P /\ s = "corto" /\ z = Nadie)
SubeIO(P, s, z) == \A p \in Procesos : EnIO(p)' => EnIO(p) \/ (p = P /\ s = "io" /\ z = Nadie)
SubeCPU(P, s, z) ==
  \A p \in Procesos, c \in CPUs : EnCPU(p, c)' => EnCPU(p, c) \/ (p = P /\ s = "cpu" /\ z = c)
SubeManejador(P, s, z) ==
  \A p \in Procesos, c \in CPUs :
    EnManejador(p, c)' => EnManejador(p, c) \/ (p = P /\ s = "manejador" /\ z = c)
SubeCola(P, s, z) ==
  \A p \in Procesos, m \in Mutexes :
    EnCola(p, m)' => EnCola(p, m) \/ (p = P /\ s = "cola" /\ z = m)
Sube(P, s, z) ==
  /\ SubeTabla(P, s, z) /\ SubeCorto(P, s, z) /\ SubeIO(P, s, z)
  /\ SubeCPU(P, s, z) /\ SubeManejador(P, s, z) /\ SubeCola(P, s, z)

\* Who was in a place now is in the same one, or is P in its new one.
LEMMA SubeSitio ==
  ASSUME NEW P, NEW s, NEW z, Sube(P, s, z), NEW p \in Procesos, NEW s2, NEW z2,
         EnSitio(p, s2, z2)'
  PROVE  EnSitio(p, s2, z2) \/ (p = P /\ s2 = s /\ z2 = z)
<1>1. CASE s2 = "nuevo" /\ z2 = Nadie /\ EsNuevo(p)'
  BY <1>1 DEF Sube, SubeTabla, EnSitio
<1>2. CASE s2 = "ready" /\ z2 = Nadie /\ EsListo(p)'
  BY <1>2 DEF Sube, SubeTabla, EnSitio
<1>3. CASE s2 = "corto" /\ z2 = Nadie /\ EsElegido(p)'
  BY <1>3 DEF Sube, SubeCorto, EnSitio
<1>4. CASE s2 = "io" /\ z2 = Nadie /\ EnIO(p)'
  BY <1>4 DEF Sube, SubeIO, EnSitio
<1>5. CASE s2 = "cpu" /\ z2 \in CPUs /\ EnCPU(p, z2)'
  BY <1>5 DEF Sube, SubeCPU, EnSitio
<1>6. CASE s2 = "manejador" /\ z2 \in CPUs /\ EnManejador(p, z2)'
  BY <1>6 DEF Sube, SubeManejador, EnSitio
<1>7. CASE s2 = "cola" /\ z2 \in Mutexes /\ EnCola(p, z2)'
  BY <1>7 DEF Sube, SubeCola, EnSitio
<1> QED BY <1>1, <1>2, <1>3, <1>4, <1>5, <1>6, <1>7 DEF EnSitio

\* Nobody enters the hands of a CPU but the process that is sent to it.
Llegan ==
  \A p \in Procesos, c \in CPUs :
    EnCPU(p, c)' => EnCPU(p, c) \/ (cortoEnvia /\ p = corto.p /\ c = corto.c)
Mudanza == CadaUnoEnSuSitio' /\ Llegan

\* P leaves the place s0 of z0 for the place s of z, or stays in it, and the PCBs of the
\* others keep their states.
LEMMA Traslado ==
  ASSUME CadaUnoEnSuSitio, NEW P \in Procesos, NEW s, NEW z, Sube(P, s, z),
         s = "cpu" => cortoEnvia /\ P = corto.p /\ z = corto.c,
         NEW s0, NEW z0, EnSitio(P, s0, z0), (s0 = s /\ z0 = z) \/ ~EnSitio(P, s0, z0)',
         \A q \in Procesos \ {P} : t'.estado[q] = t.estado[q],
         t'.estado[P] \notin Acabados \/ ~EnSitio(P, s, z)'
  PROVE  Mudanza
<1>1. \A p \in Procesos : UnSitio(p) /\ Vivo(p)
  BY DEF CadaUnoEnSuSitio
<1>2. ASSUME NEW p \in Procesos, p # P
      PROVE  (UnSitio(p) /\ Vivo(p))'
  <2>1. \A s2, z2 : EnSitio(p, s2, z2)' => EnSitio(p, s2, z2)
    BY <1>2, SubeSitio
  <2> QED BY <1>1, <1>2, <2>1 DEF UnSitio, Vivo
<1>3. ASSUME NEW s2, NEW z2, EnSitio(P, s2, z2)'
      PROVE  s2 = s /\ z2 = z
  <2>1. EnSitio(P, s2, z2) \/ (s2 = s /\ z2 = z)
    BY <1>3, SubeSitio
  <2>2. EnSitio(P, s2, z2) => s2 = s0 /\ z2 = z0
    BY <1>1 DEF UnSitio
  <2> QED BY <1>3, <2>1, <2>2
<1>4. (UnSitio(P) /\ Vivo(P))'
  BY <1>3 DEF UnSitio, Vivo
<1>5. Llegan
  BY DEF Sube, SubeCPU, Llegan
<1> QED BY <1>2, <1>4, <1>5 DEF CadaUnoEnSuSitio, Mudanza

\* P was in no place.
LEMMA Entrada ==
  ASSUME CadaUnoEnSuSitio, NEW P \in Procesos, NEW s, NEW z, Sube(P, s, z),
         s # "cpu", t.estado[P] \in Acabados, t'.estado[P] \notin Acabados,
         \A q \in Procesos \ {P} : t'.estado[q] = t.estado[q]
  PROVE  Mudanza
<1>1. \A p \in Procesos : UnSitio(p) /\ Vivo(p)
  BY DEF CadaUnoEnSuSitio
<1>2. ASSUME NEW p \in Procesos, p # P
      PROVE  (UnSitio(p) /\ Vivo(p))'
  <2>1. \A s2, z2 : EnSitio(p, s2, z2)' => EnSitio(p, s2, z2)
    BY <1>2, SubeSitio
  <2> QED BY <1>1, <1>2, <2>1 DEF UnSitio, Vivo
<1>3. ASSUME NEW s2, NEW z2, EnSitio(P, s2, z2)'
      PROVE  s2 = s /\ z2 = z
  <2>1. ~EnSitio(P, s2, z2)
    BY <1>1 DEF Vivo
  <2> QED BY <1>3, <2>1, SubeSitio
<1>4. (UnSitio(P) /\ Vivo(P))'
  BY <1>3 DEF UnSitio, Vivo
<1>5. Llegan
  BY DEF Sube, SubeCPU, Llegan
<1> QED BY <1>2, <1>4, <1>5 DEF CadaUnoEnSuSitio, Mudanza

\* Nobody moves, and whoever changes of state does not end.
LEMMA SinTraslado ==
  ASSUME CadaUnoEnSuSitio, Sube(Nadie, "nada", Nadie),
         \A q \in Procesos : \/ t'.estado[q] = t.estado[q]
                             \/ t'.estado[q] \notin Acabados
  PROVE  Mudanza
<1>1. \A p \in Procesos : UnSitio(p) /\ Vivo(p)
  BY DEF CadaUnoEnSuSitio
<1>2. ASSUME NEW p \in Procesos
      PROVE  (UnSitio(p) /\ Vivo(p))'
  <2>1. \A s2, z2 : EnSitio(p, s2, z2)' => EnSitio(p, s2, z2)
    BY <1>2, SubeSitio, TablasAssumption
  <2> QED BY <1>1, <1>2, <2>1 DEF UnSitio, Vivo
<1>3. Llegan
  BY DEF Sube, SubeCPU, Llegan
<1> QED BY <1>2, <1>3 DEF CadaUnoEnSuSitio, Mudanza

\* No handler answers BLOQUEADO in this step.
SiguenAvisando == \A c \in CPUs : manejador[c].pc = "avisar" => manejador'[c].pc = "avisar"

\* What a step leaves alone lets nobody in.
LEMMA SubeMarco ==
  ASSUME NEW P, NEW s, NEW z
  PROVE  /\ t'.estado = t.estado /\ corto' = corto => SubeTabla(P, s, z)
         /\ corto' = corto => SubeCorto(P, s, z)
         /\ hiloIO' = hiloIO => SubeIO(P, s, z)
         /\ SiguenAvisando /\ aCpu' = aCpu /\ deCpu' = deCpu /\ cpu' = cpu => SubeCPU(P, s, z)
         /\ manejador' = manejador => SubeManejador(P, s, z)
         /\ cola' = cola => SubeCola(P, s, z)
<1>1. t'.estado = t.estado /\ corto' = corto => SubeTabla(P, s, z)
  BY DEF SubeTabla, EsNuevo, EsListo
<1>2. corto' = corto => SubeCorto(P, s, z)
  BY DEF SubeCorto, EsElegido
<1>3. hiloIO' = hiloIO => SubeIO(P, s, z)
  BY DEF SubeIO, EnIO
<1>4. SiguenAvisando /\ aCpu' = aCpu /\ deCpu' = deCpu /\ cpu' = cpu => SubeCPU(P, s, z)
  BY DEF SubeCPU, EnCPU, SiguenAvisando
<1>5. manejador' = manejador => SubeManejador(P, s, z)
  BY DEF SubeManejador, EnManejador
<1>6. cola' = cola => SubeCola(P, s, z)
  BY DEF SubeCola, EnCola
<1> QED BY <1>1, <1>2, <1>3, <1>4, <1>5, <1>6

-----------------------------------------------------------------------------
(* What a CPU has in its hands.                                             *)

\* The channel b brings nobody that a did not, and the answer that blocks is still in it.
Conserva(a, b) ==
  /\ \A p : EnCanal(b, p) => EnCanal(a, p)
  /\ HayBloqueado(a) => HayBloqueado(b)

\* Interrupts bring nobody.
LEMMA CanalExtendido ==
  ASSUME NEW a \in Seq(MensajesAlCPU), NEW b \in Seq(MensajesAlCPU), Extiende(a, b)
  PROVE  Conserva(a, b)
<1>1. Len(a) \in Nat /\ Len(b) \in Nat
  BY LenProperties
<1>2. \A i \in 1..Len(b) : (i \in 1..Len(a) /\ b[i] = a[i]) \/ b[i].tipo = "INTERRUPT"
  BY <1>1 DEF Extiende, Interrupciones
<1>3. \A p : EnCanal(b, p) => EnCanal(a, p)
  BY <1>2 DEF EnCanal
<1>4. HayBloqueado(a) => HayBloqueado(b)
  BY SocketInterrumpido
<1> QED BY <1>3, <1>4 DEF Conserva

\* One message more brings the process it names, if it is a PID.
LEMMA CanalAgregado ==
  ASSUME NEW a \in Seq(MensajesAlCPU), NEW m \in MensajesAlCPU
  PROVE  /\ \A p : EnCanal(Append(a, m), p) => EnCanal(a, p) \/ (m.tipo = "PID" /\ m.pid = p)
         /\ HayBloqueado(a) => HayBloqueado(Append(a, m))
         /\ m.tipo = "BLOQUEADO" => HayBloqueado(Append(a, m))
         /\ m.tipo # "PID" => Conserva(a, Append(a, m))
<1> DEFINE b == Append(a, m)
<1>1. Len(a) \in Nat /\ Len(b) = Len(a) + 1 /\ b[Len(a) + 1] = m /\ \A i \in 1..Len(a) : b[i] = a[i]
  BY AppendProperties, LenProperties
<1> HIDE DEF b
<1>2. \A i \in 1..Len(b) : (i \in 1..Len(a) /\ b[i] = a[i]) \/ b[i] = m
  BY <1>1
<1>3. \A i \in 1..Len(a) : i \in 1..Len(b)
  BY <1>1
<1>4. Len(b) \in 1..Len(b) /\ b[Len(b)] = m
  BY <1>1
<1>5. \A p : EnCanal(b, p) => EnCanal(a, p) \/ (m.tipo = "PID" /\ m.pid = p)
  BY <1>2 DEF EnCanal
<1>6. HayBloqueado(a) => HayBloqueado(b)
  BY <1>1, <1>3 DEF HayBloqueado
<1>7. m.tipo = "BLOQUEADO" => HayBloqueado(b)
  BY <1>4 DEF HayBloqueado
<1> QED BY <1>5, <1>6, <1>7 DEF Conserva, b

\* A message that is taken brings nobody any more.
LEMMA CanalRecibido ==
  ASSUME NEW a \in Seq(MensajesAlCPU), a # << >>
  PROVE  /\ \A p : EnCanal(Tail(a), p) => EnCanal(a, p)
         /\ Head(a).tipo # "BLOQUEADO" /\ HayBloqueado(a) => HayBloqueado(Tail(a))
         /\ Head(a).tipo = "PID" => EnCanal(a, Head(a).pid)
         /\ OrdenSocket(a) /\ Head(a).tipo \in Resp /\ HayBloqueado(a) => Head(a).tipo = "BLOQUEADO"
<1> DEFINE r == Tail(a)
<1>1. /\ Len(a) \in Nat \ {0} /\ Head(a) = a[1] /\ Len(r) = Len(a) - 1
      /\ \A i \in 1..Len(r) : r[i] = a[i + 1]
  BY HeadTailProperties, LenProperties, EmptySeq
<1> HIDE DEF r
<1>2. \A i \in 1..Len(r) : i + 1 \in 1..Len(a) /\ r[i] = a[i + 1]
  BY <1>1
<1>3. 1 \in 1..Len(a)
  BY <1>1
<1>4. \A i \in 1..Len(a) : i = 1 \/ (i - 1 \in 1..Len(r) /\ r[i - 1] = a[i])
  BY <1>1
<1>5. \A p : EnCanal(r, p) => EnCanal(a, p)
  BY <1>2 DEF EnCanal
<1>6. Head(a).tipo # "BLOQUEADO" /\ HayBloqueado(a) => HayBloqueado(r)
  BY <1>1, <1>4 DEF HayBloqueado
<1>7. Head(a).tipo = "PID" => EnCanal(a, Head(a).pid)
  BY <1>1, <1>3 DEF EnCanal
<1>8. OrdenSocket(a) /\ Head(a).tipo \in Resp /\ HayBloqueado(a) => Head(a).tipo = "BLOQUEADO"
  BY <1>1, <1>3 DEF OrdenSocket, HayBloqueado, Resp
<1> QED BY <1>5, <1>6, <1>7, <1>8 DEF r

\* A message taken from a CPU is about one process, and leaves the others.
LEMMA PedidoMenos ==
  ASSUME NEW d \in Seq(MensajesDelCPU), d # << >>
  PROVE  EnPedido(d, Head(d).pid) /\ \A p : EnPedido(Tail(d), p) => EnPedido(d, p)
<1> DEFINE r == Tail(d)
<1>1. /\ Len(d) \in Nat \ {0} /\ Head(d) = d[1] /\ Len(r) = Len(d) - 1
      /\ \A i \in 1..Len(r) : r[i] = d[i + 1]
  BY HeadTailProperties, LenProperties, EmptySeq
<1> HIDE DEF r
<1>2. \A i \in 1..Len(r) : i + 1 \in 1..Len(d) /\ r[i] = d[i + 1]
  BY <1>1
<1>3. 1 \in 1..Len(d)
  BY <1>1
<1> QED BY <1>1, <1>2, <1>3 DEF EnPedido, r

\* A message from a CPU adds the process it is about.
LEMMA PedidoMas ==
  ASSUME NEW d \in Seq(MensajesDelCPU), NEW m \in MensajesDelCPU
  PROVE  \A p : EnPedido(Append(d, m), p) => EnPedido(d, p) \/ p = m.pid
<1> DEFINE b == Append(d, m)
<1>1. Len(d) \in Nat /\ Len(b) = Len(d) + 1 /\ b[Len(d) + 1] = m /\ \A i \in 1..Len(d) : b[i] = d[i]
  BY AppendProperties, LenProperties
<1> HIDE DEF b
<1>2. \A i \in 1..Len(b) : (i \in 1..Len(d) /\ b[i] = d[i]) \/ b[i] = m
  BY <1>1
<1> QED BY <1>2 DEF EnPedido, b

\* Once a message that frees the CPU is attended, nobody is in its hands.
LEMMA NadieTrasLiberar ==
  ASSUME NEW libre, NEW elegida, NEW a \in Seq(MensajesAlCPU), NEW d \in Seq(MensajesDelCPU),
         NEW k, NEW h, Turno(libre, elegida, a, d, k, h), d # << >>, Head(d).tipo \in Liberan,
         k.modo = "respuesta" => k.sys \in ConRespuesta, NEW b, Conserva(a, b), NEW p
  PROVE  ~EnLaCPU(b, Tail(d), k, p)
<1>1. Len(d) \in Nat \ {0} /\ Head(d) = d[1] /\ Len(Tail(d)) = Len(d) - 1
  BY HeadTailProperties, LenProperties, EmptySeq
<1>2. Len(d) = 1
  <2>1. 1 \in 1..Len(d) /\ d[1].tipo \in Liberan
    BY <1>1
  <2>2. \A i \in 1..Len(d) : d[i].tipo \in Liberan => i = Len(d)
    BY DEF Turno, OrdenPedidos
  <2> QED BY <2>1, <2>2
<1>3. ~EnPedido(Tail(d), p)
  <2> DEFINE r == Tail(d)
  <2>1. Len(r) = 0
    BY <1>1, <1>2
  <2> HIDE DEF r
  <2>2. ~EnPedido(r, p)
    BY <2>1 DEF EnPedido
  <2> QED BY <2>2 DEF r
<1>4. ~EnCanal(b, p)
  <2>1. EnCanal(b, p) => HayPid(a)
    BY DEF Conserva, EnCanal, HayPid
  <2> QED BY <2>1 DEF Turno, Quieto
<1>5. ~Corre(b, k)
  <2>1. k.modo # "ejecuta"
    BY DEF Turno, Quieto
  <2>2. k.modo # "respuesta"
    <3>1. ASSUME k.modo = "respuesta"
          PROVE  FALSE
      <4>1. d = << Msj(k.sys, k.pid, k.arg) >>
        BY <3>1 DEF Turno
      <4>2. Head(d).tipo = k.sys
        BY <4>1 DEF Msj
      <4> QED BY <3>1, <4>2 DEF ConRespuesta, Liberan
    <3> QED BY <3>1
  <2> QED BY <2>1, <2>2 DEF Corre
<1> QED BY <1>3, <1>4, <1>5 DEF EnLaCPU

\* Once the answer that blocks is sent, neither.
LEMMA NadieTrasAvisar ==
  ASSUME NEW libre, NEW elegida, NEW a \in Seq(MensajesAlCPU), NEW d \in Seq(MensajesDelCPU),
         NEW k, NEW h, Turno(libre, elegida, a, d, k, h), h.pc = "avisar",
         NEW b, \A q : EnCanal(b, q) => EnCanal(a, q),
         HayBloqueado(b) \/ k.modo \in {"desconectada", "caida"}, NEW p
  PROVE  ~EnLaCPU(b, d, k, p)
<1>1. d = << >>
  BY DEF Turno
<1>2. ~EnPedido(d, p)
  <2>1. Len(d) = 0
    BY <1>1
  <2> QED BY <2>1 DEF EnPedido
<1>3. ~EnCanal(b, p)
  <2>1. EnCanal(b, p) => HayPid(a)
    BY DEF EnCanal, HayPid
  <2> QED BY <2>1 DEF Turno, Quieto, Atendiendo
<1> QED BY <1>2, <1>3 DEF EnLaCPU, Corre


\* A step of the module of a CPU brings nobody to it, and changes nothing elsewhere.
LEMMA ModuloConserva ==
  ASSUME Bien, TurnoCPU, NEW c \in CPUs, ModuloCPU(c) \/ caer(c), manejador' = manejador,
         NEW p, EnCPU(p, c)'
  PROVE  EnCPU(p, c)
<1> DEFINE e == cpu[c]
           d == deCpu[c]
           a == aCpu[c]
<1>0. /\ Turno(Contains(cpusLibres, c), corto.c = c, a, d, e, manejador[c])
      /\ e \in EstadoCPU /\ cpu \in [CPUs -> EstadoCPU] /\ deCpu \in [CPUs -> Seq(MensajesDelCPU)]
      /\ a \in Seq(MensajesAlCPU) /\ d \in Seq(MensajesDelCPU) /\ FormaCPU /\ e.pend \in SUBSET MensajesAlCPU
      /\ e.modo \in {"ejecuta", "respuesta", "ack"} => e.pid \in Procesos
      /\ e.modo = "respuesta" => e.sys \in ConRespuesta
  BY DEF TurnoCPU, TurnoDe, Bien, TypeOK, EstadoCPU, Formas, FormaCPU
<1>1. EnLaCPU(aCpu'[c], deCpu'[c], cpu'[c], p) /\ manejador[c].pc # "avisar"
  BY DEF EnCPU
<1>2. ASSUME NEW k2, cpu' = [cpu EXCEPT ![c] = k2]
      PROVE  cpu'[c] = k2
  BY <1>0, <1>2
<1>3. /\ CPUEn("espera").modo = "espera" /\ CPUEn("caida").modo = "caida"
      /\ \A q : [CPUEn("ejecuta") EXCEPT !.pid = q].modo = "ejecuta" /\ [CPUEn("ejecuta") EXCEPT !.pid = q].pid = q
  BY DEF CPUEn
<1>4. /\ OrdenSocket(a)
      /\ e.modo = "ejecuta" => ~HayBloqueado(a)
      /\ HayBloqueado(a) /\ e.modo = "respuesta" => e.sys = "MUTEX_LOCK"
  <2>1. HayBloqueado(a) => HayResp(a)
    BY DEF HayBloqueado, HayResp, Resp
  <2> HIDE DEF a, d, e
  <2> QED BY <1>0, <2>1 DEF Turno
\* What it takes from the channel, what it sends and what it executes.
<1>5. ASSUME Recibe(c)
      PROVE  /\ a # << >> /\ aCpu'[c] = Tail(a)
             /\ \A q : EnCanal(aCpu'[c], q) => EnCanal(a, q)
             /\ Head(a).tipo # "BLOQUEADO" /\ HayBloqueado(a) => HayBloqueado(aCpu'[c])
             /\ Head(a).tipo = "PID" => EnCanal(a, Head(a).pid)
             /\ Head(a).tipo \in Resp /\ HayBloqueado(a) => Head(a).tipo = "BLOQUEADO"
  <2>1. a # << >> /\ aCpu'[c] = Tail(a)
    BY <1>5, RecibeTipo
  <2> HIDE DEF a
  <2>2. /\ \A q : EnCanal(Tail(a), q) => EnCanal(a, q)
        /\ Head(a).tipo # "BLOQUEADO" /\ HayBloqueado(a) => HayBloqueado(Tail(a))
        /\ Head(a).tipo = "PID" => EnCanal(a, Head(a).pid)
        /\ Head(a).tipo \in Resp /\ HayBloqueado(a) => Head(a).tipo = "BLOQUEADO"
    BY <1>0, <1>4, <2>1, CanalRecibido
  <2> QED BY <2>1, <2>2
<1>6. ASSUME NEW tipo \in ConRespuesta \cup Bloqueantes \cup {"DONE", "SEG_FAULT", "INTERRUPCION_ATENDIDA"},
             NEW arg \in Args, deCpu' = Pedido(c, tipo, arg), e.pid \in Procesos
      PROVE  \A q : EnPedido(deCpu'[c], q) => EnPedido(d, q) \/ q = e.pid
  <2>1. Msj(tipo, e.pid, arg) \in MensajesDelCPU /\ Msj(tipo, e.pid, arg).pid = e.pid
    BY <1>6 DEF Msj, MensajesDelCPU
  <2>2. deCpu'[c] = Append(d, Msj(tipo, e.pid, arg))
    BY <1>0, <1>6 DEF Pedido
  <2> DEFINE m == Msj(tipo, e.pid, arg)
  <2> HIDE DEF m, d, e
  <2>3. m \in MensajesDelCPU /\ m.pid = e.pid /\ deCpu'[c] = Append(d, m)
    BY <2>1, <2>2 DEF m
  <2> QED BY <1>0, <2>3, PedidoMas
\* The calls of a program.
<1>7. ASSUME e.modo = "ejecuta", aCpu' = aCpu,
             NEW tipo \in ConRespuesta \cup Bloqueantes \cup {"DONE", "SEG_FAULT"}, NEW arg \in Args,
             deCpu' = Pedido(c, tipo, arg), NEW k2, cpu' = [cpu EXCEPT ![c] = k2],
             k2.modo \in {"espera", "ack"} \/ k2.pid = e.pid
      PROVE  EnCPU(p, c)
  <2>1. e.pid \in Procesos /\ Corre(a, e)
    BY <1>0, <1>4, <1>7 DEF Corre
  <2>2. EnPedido(deCpu'[c], p) => EnPedido(d, p) \/ p = e.pid
    BY <1>6, <1>7, <2>1
  <2>3. Corre(aCpu'[c], cpu'[c]) => cpu'[c].pid = e.pid
    BY <1>2, <1>7 DEF Corre
  <2> QED BY <1>1, <1>7, <2>1, <2>2, <2>3 DEF EnLaCPU, EnCPU
<1>8. CASE esperarPid(c)
  <2>1. Recibe(c) /\ e.modo = "espera" /\ deCpu' = deCpu
    BY <1>8 DEF esperarPid
  <2>2. CASE Head(a).tipo = "PID"
    <3>1. cpu'[c] = [CPUEn("ejecuta") EXCEPT !.pid = Head(a).pid]
      BY <1>0, <1>8, <2>2 DEF esperarPid
    <3>2. cpu'[c].pid = Head(a).pid
      BY <1>3, <3>1
    <3> QED BY <1>1, <1>5, <2>1, <2>2, <3>2 DEF EnLaCPU, EnCPU
  <2>3. CASE Head(a).tipo # "PID"
    <3>1. cpu' = cpu
      BY <1>8, <2>3 DEF esperarPid
    <3>2. ~Corre(aCpu'[c], cpu'[c])
      BY <2>1, <3>1 DEF Corre
    <3> QED BY <1>1, <1>5, <2>1, <3>2 DEF EnLaCPU, EnCPU
  <2> QED BY <2>2, <2>3
<1>9. CASE syscallConRespuesta(c)
  <2>1. PICK s \in ConRespuesta, arg \in Args :
          /\ deCpu' = Pedido(c, s, arg)
          /\ cpu' = [cpu EXCEPT ![c].modo = "respuesta", ![c].sys = s, ![c].arg = arg]
    BY <1>9 DEF syscallConRespuesta, ArgsDe, Args
  <2>2. e.modo = "ejecuta" /\ aCpu' = aCpu
    BY <1>9 DEF syscallConRespuesta
  <2> DEFINE k2 == [e EXCEPT !.modo = "respuesta", !.sys = s, !.arg = arg]
  <2>3. cpu' = [cpu EXCEPT ![c] = k2] /\ k2.pid = e.pid
    BY <1>0, <2>1 DEF EstadoCPU
  <2> HIDE DEF k2
  <2> QED BY <1>7, <2>1, <2>2, <2>3
<1>10. CASE syscallBloqueante(c) \/ syscallExit(c) \/ manejarSegFault(c)
  <2>0. PICK s \in Bloqueantes \cup {"DONE", "SEG_FAULT"} : \E k2 :
          /\ deCpu' = Pedido(c, s, Nadie)
          /\ cpu' = [cpu EXCEPT ![c] = k2] /\ k2.modo \in {"espera", "ack"}
    <3>1. CASE syscallBloqueante(c) \/ syscallExit(c)
      BY <1>3, <3>1 DEF syscallBloqueante, syscallExit
    <3>2. CASE manejarSegFault(c)
      <4> DEFINE k2 == [e EXCEPT !.modo = "ack"]
      <4>1. cpu' = [cpu EXCEPT ![c] = k2] /\ k2.modo = "ack" /\ deCpu' = Pedido(c, "SEG_FAULT", Nadie)
        BY <1>0, <3>2 DEF manejarSegFault, EstadoCPU
      <4> HIDE DEF k2
      <4> QED BY <4>1
    <3> QED BY <1>10, <3>1, <3>2
  <2>1. PICK k2 : deCpu' = Pedido(c, s, Nadie) /\ cpu' = [cpu EXCEPT ![c] = k2] /\ k2.modo \in {"espera", "ack"}
    BY <2>0
  <2>2. e.modo = "ejecuta" /\ aCpu' = aCpu /\ Nadie \in Args
    BY <1>10 DEF syscallBloqueante, syscallExit, manejarSegFault, Args
  <2> QED BY <1>7, <2>1, <2>2
<1>11. CASE confirmarSegFault(c) \/ recibirBloqueado(c) \/ respuestaInesperada(c)
  <2>1. /\ Recibe(c) /\ deCpu' = deCpu
        /\ cpu' = [cpu EXCEPT ![c] = CPUEn("espera")] \/ cpu' = [cpu EXCEPT ![c] = CPUEn("caida")]
    BY <1>11 DEF confirmarSegFault, recibirBloqueado, respuestaInesperada
  <2>2. cpu'[c].modo \in {"espera", "caida"}
    BY <1>2, <1>3, <2>1
  <2> QED BY <1>1, <1>5, <2>1, <2>2 DEF EnLaCPU, EnCPU, Corre
<1>12. CASE guardarInterrupcion(c)
  <2> DEFINE k2 == [e EXCEPT !.pend = {Head(a)}]
  <2>1. Recibe(c) /\ deCpu' = deCpu /\ e.modo = "respuesta" /\ Head(a).tipo = "INTERRUPT"
    BY <1>12 DEF guardarInterrupcion
  <2>2. cpu' = [cpu EXCEPT ![c] = k2] /\ k2.pid = e.pid
    BY <1>0, <1>12 DEF guardarInterrupcion, EstadoCPU
  <2> HIDE DEF k2
  <2>3. cpu'[c].pid = e.pid
    BY <1>2, <2>2
  <2>4. Corre(aCpu'[c], cpu'[c]) => Corre(a, e)
    BY <1>5, <2>1 DEF Corre
  <2> QED BY <1>1, <1>5, <2>1, <2>3, <2>4 DEF EnLaCPU, EnCPU
<1>13. CASE atenderInterrupcion(c)
  <2>1. Recibe(c) /\ e.modo = "ejecuta" /\ e.pid \in Procesos /\ Corre(a, e) /\ Head(a) \in MensajesAlCPU
    BY <1>0, <1>4, <1>13, RecibeTipo DEF atenderInterrupcion, Corre
  <2>2. EnPedido(deCpu'[c], p) => EnPedido(d, p) \/ p = e.pid
    <3>1. CASE deCpu' = deCpu
      BY <3>1
    <3>2. CASE deCpu' = Pedido(c, "INTERRUPCION_ATENDIDA", Head(a).arg) /\ Head(a).tipo = "INTERRUPT"
      <4>1. Head(a).arg \in Args
        BY <2>1, <3>2 DEF MensajesAlCPU, Args
      <4> QED BY <1>6, <2>1, <3>2, <4>1
    <3> QED BY <1>13, <3>1, <3>2 DEF atenderInterrupcion
  <2>3. Corre(aCpu'[c], cpu'[c]) => cpu'[c].pid = e.pid
    <3>1. \/ cpu' = cpu
          \/ cpu' = [cpu EXCEPT ![c] = CPUEn("espera")]
          \/ cpu' = [cpu EXCEPT ![c] = CPUEn("caida")]
      BY <1>13 DEF atenderInterrupcion
    <3> QED BY <1>2, <1>3, <3>1 DEF Corre
  <2> QED BY <1>1, <1>5, <2>1, <2>2, <2>3 DEF EnLaCPU, EnCPU
<1>14. CASE recibirRespuesta(c)
  <2>1. /\ Recibe(c) /\ e.modo = "respuesta" /\ e.pid \in Procesos /\ DejaSyscall(c) /\ e.sys \in ConRespuesta
        /\ Head(a).tipo = "OK" \/ e.sys \in {"MEM_ALLOC", "INIT_PROC"}
    BY <1>0, <1>14 DEF recibirRespuesta, AceptaCualquiera
  <2>2. Corre(a, e)
    <3>1. ASSUME HayBloqueado(a)
          PROVE  FALSE
      <4>1. Head(a).tipo = "OK"
        BY <1>4, <2>1, <3>1
      <4> QED BY <1>5, <2>1, <3>1, <4>1 DEF Resp
    <3> QED BY <2>1, <3>1 DEF Corre
  <2>3. EnPedido(deCpu'[c], p) => EnPedido(d, p) \/ p = e.pid
    <3>1. CASE deCpu' = deCpu
      BY <3>1
    <3>2. CASE deCpu' # deCpu
      <4>1. PICK i \in e.pend : deCpu' = Pedido(c, "INTERRUPCION_ATENDIDA", i.arg)
        BY <2>1, <3>2 DEF DejaSyscall
      <4>2. i \in MensajesAlCPU /\ i.tipo = "INTERRUPT"
        BY <1>0 DEF FormaCPU
      <4>3. i.arg \in Args
        BY <4>2 DEF MensajesAlCPU, Args
      <4> QED BY <1>6, <2>1, <4>1, <4>3
    <3> QED BY <3>1, <3>2
  <2>4. Corre(aCpu'[c], cpu'[c]) => cpu'[c].pid = e.pid
    <3>1. \/ cpu' = [cpu EXCEPT ![c] = [CPUEn("ejecuta") EXCEPT !.pid = e.pid]]
          \/ cpu' = [cpu EXCEPT ![c] = CPUEn("espera")]
      BY <2>1 DEF DejaSyscall
    <3> QED BY <1>2, <1>3, <3>1 DEF Corre
  <2> QED BY <1>1, <1>5, <2>1, <2>2, <2>3, <2>4 DEF EnLaCPU, EnCPU
<1>15. CASE caer(c)
  <2>1. aCpu' = aCpu /\ deCpu' = deCpu /\ cpu' = [cpu EXCEPT ![c] = CPUEn("caida")]
    BY <1>15 DEF caer
  <2>2. cpu'[c].modo = "caida"
    BY <1>2, <1>3, <2>1
  <2> QED BY <1>1, <2>1, <2>2 DEF EnLaCPU, EnCPU, Corre
<1> QED BY <1>8, <1>9, <1>10, <1>11, <1>12, <1>13, <1>14, <1>15 DEF ModuloCPU


-----------------------------------------------------------------------------
(* The steps of the threads: who is moved, from where and where to.         *)

\* Nobody is new in the channels to the CPUs.
Conservan(canal, nuevo) == \A c \in CPUs : Conserva(canal[c], nuevo[c])

\* What is sent to a CPU, other than a PID, moves no process.
LEMMA CanalesConservan ==
  ASSUME NEW canal \in Canales
  PROVE  /\ Conservan(canal, canal)
         /\ \A nuevo \in Canales : SoloInterrumpe(canal, nuevo) => Conservan(canal, nuevo)
         /\ \A c : \A m \in MensajesAlCPU : m.tipo # "PID" => Conservan(canal, Enviado(canal, c, m))
<1>1. Conservan(canal, canal)
  BY DEF Conservan, Conserva
<1>2. ASSUME NEW nuevo \in Canales, SoloInterrumpe(canal, nuevo), NEW c \in CPUs
      PROVE  Conserva(canal[c], nuevo[c])
  <2>1. canal[c] \in Seq(MensajesAlCPU) /\ nuevo[c] \in Seq(MensajesAlCPU) /\ Extiende(canal[c], nuevo[c])
    BY <1>2 DEF SoloInterrumpe, Extiende, Canales
  <2> QED BY <2>1, CanalExtendido
<1>3. ASSUME NEW c, NEW m \in MensajesAlCPU, m.tipo # "PID", NEW d \in CPUs
      PROVE  Conserva(canal[d], Enviado(canal, c, m)[d])
  <2>1. Enviado(canal, c, m)[d] = canal[d] \/ Enviado(canal, c, m)[d] = Append(canal[d], m)
    BY <1>3, EnviadoTipo
  <2>2. Conserva(canal[d], canal[d])
    BY DEF Conserva
  <2>3. canal[d] \in Seq(MensajesAlCPU)
    BY DEF Canales
  <2>4. Conserva(canal[d], Append(canal[d], m))
    BY <1>3, <2>3, CanalAgregado
  <2> QED BY <2>1, <2>2, <2>4
<1> QED BY <1>1, <1>2, <1>3 DEF Conservan

\* The answer to a call is no PID.
LEMMA RespuestaConserva ==
  ASSUME NEW canal \in Canales, NEW c, NEW tipo \in {"OK", "ERROR", "BLOQUEADO"}
  PROVE  Respuesta(tipo) \in MensajesAlCPU /\ Conservan(canal, Enviado(canal, c, Respuesta(tipo)))
<1> DEFINE m == Respuesta(tipo)
<1>1. m \in MensajesAlCPU /\ m.tipo # "PID"
  BY DEF Respuesta, Msj, MensajesAlCPU
<1> HIDE DEF m
<1>2. Conservan(canal, Enviado(canal, c, m))
  BY <1>1, CanalesConservan
<1> QED BY <1>1, <1>2 DEF m

\* A handler takes messages, and the CPUs go on as they were, or begin to wait.
LEMMA CPUsConservan ==
  ASSUME SiguenAvisando, Conservan(aCpu, aCpu'), \A c \in CPUs : cpu'[c] = cpu[c] \/ cpu'[c].modo = "espera",
         \A c \in CPUs : \A p : EnPedido(deCpu'[c], p) => EnPedido(deCpu[c], p)
  PROVE  /\ \A c \in CPUs : \A p : EnCPU(p, c)' => EnCPU(p, c)
         /\ \A P, s, z : SubeCPU(P, s, z)
<1>1. ASSUME NEW c \in CPUs, NEW p, EnCPU(p, c)'
      PROVE  EnCPU(p, c)
  <2>1. EnLaCPU(aCpu'[c], deCpu'[c], cpu'[c], p)
    BY <1>1 DEF EnCPU
  <2>2. Corre(aCpu'[c], cpu'[c]) => Corre(aCpu[c], cpu[c]) /\ cpu'[c].pid = cpu[c].pid
    BY DEF Corre, Conservan, Conserva
  <2>3. EnCanal(aCpu'[c], p) => EnCanal(aCpu[c], p)
    BY DEF Conservan, Conserva
  <2>4. manejador[c].pc # "avisar"
    BY <1>1 DEF EnCPU, SiguenAvisando
  <2> QED BY <2>1, <2>2, <2>3, <2>4 DEF EnLaCPU, EnCPU
<1> QED BY <1>1 DEF SubeCPU

\* The message at the head of a connection, and who sent it.
LEMMA AtiendeSitio ==
  ASSUME Bien, NEW c \in CPUs, NEW tipo, Atiende(c, tipo)
  PROVE  /\ Head(deCpu[c]).pid \in Procesos /\ EnSitio(Head(deCpu[c]).pid, "cpu", c)
         /\ \A x \in CPUs : \A p : EnPedido(deCpu'[x], p) => EnPedido(deCpu[x], p)
<1>1. /\ deCpu[c] # << >> /\ Head(deCpu[c]).pid \in Procesos /\ deCpu'[c] = Tail(deCpu[c])
      /\ \A x \in CPUs \ {c} : deCpu'[x] = deCpu[x]
  BY AtiendeTipo
<1>2. deCpu[c] \in Seq(MensajesDelCPU)
  BY DEF Bien, TypeOK
<1>3. EnPedido(deCpu[c], Head(deCpu[c]).pid) /\ \A p : EnPedido(Tail(deCpu[c]), p) => EnPedido(deCpu[c], p)
  BY <1>1, <1>2, PedidoMenos
<1>4. manejador[c].pc # "avisar"
  BY DEF Atiende
<1> QED BY <1>1, <1>3, <1>4 DEF EnSitio, EnCPU, EnLaCPU

\* P becomes READY and leaves the place it was in.
LEMMA PasaAListo ==
  ASSUME Bien, SiguenAvisando, CadaUnoEnSuSitio, NEW P \in Procesos, NEW s0, NEW z0, EnSitio(P, s0, z0),
         PasarAReady(aCpu, P), corto' = corto, deCpu' = deCpu, cpu' = cpu, cola' = cola,
         SubeIO(P, "ready", Nadie), SubeManejador(P, "ready", Nadie),
         s0 = "nuevo" \/ ~EnSitio(P, s0, z0)'
  PROVE  Mudanza
<1>1. /\ t'.estado = [t.estado EXCEPT ![P] = IF @ = "EXIT" THEN @ ELSE "READY"]
      /\ aCpu' \in Canales /\ SoloInterrumpe(aCpu, aCpu') /\ aCpu \in Canales
      /\ t.estado \in [Procesos -> Estados]
  BY PasarAReadyTipo DEF Bien, TypeOK, Canales, Tabla
<1>2. t.estado[P] \notin Acabados
  BY DEF CadaUnoEnSuSitio, Vivo
<1>3. t'.estado[P] = "READY" /\ \A q \in Procesos \ {P} : t'.estado[q] = t.estado[q]
  BY <1>1, <1>2 DEF Acabados
<1>4. SubeTabla(P, "ready", Nadie)
  BY <1>3 DEF SubeTabla, EsNuevo, EsListo
<1>5. SubeCPU(P, "ready", Nadie)
  BY <1>1, CanalesConservan, CPUsConservan
<1>6. Sube(P, "ready", Nadie)
  BY <1>4, <1>5, SubeMarco DEF Sube
<1>7. ~EnSitio(P, s0, z0)'
  BY <1>3 DEF EnSitio, EsNuevo
<1>8. t'.estado[P] \notin Acabados
  BY <1>3 DEF Acabados
<1> QED BY <1>3, <1>6, <1>7, <1>8, Traslado

\* A message is attended and a call answered, and nobody moves.
LEMMA QuedaEnCPU ==
  ASSUME Bien, SiguenAvisando, CadaUnoEnSuSitio, NEW c \in CPUs, NEW tipo, Atiende(c, tipo),
         Conservan(aCpu, aCpu'), cpu' = cpu, corto' = corto, hiloIO' = hiloIO, cola' = cola,
         t'.estado = t.estado, SubeManejador(Nadie, "nada", Nadie)
  PROVE  Mudanza
<1>1. SubeCPU(Nadie, "nada", Nadie)
  BY AtiendeSitio, CPUsConservan
<1>2. Sube(Nadie, "nada", Nadie)
  BY <1>1, SubeMarco DEF Sube
<1> QED BY <1>2, SinTraslado



\* The short-term scheduler takes a process from READY, puts it in EXEC, and sends it.
LEMMA SitiosCorto ==
  ASSUME Bien, SiguenAvisando, CoherenteEn({"NEW"}, t), CadaUnoEnSuSitio, Corto
  PROVE  Mudanza
<1>0. /\ t \in Tabla /\ corto \in EstadoCorto /\ FormaCorto /\ aCpu \in Canales
      /\ deCpu \in [CPUs -> Seq(MensajesDelCPU)] /\ Nadie \notin Procesos
  BY TablasAssumption DEF Bien, TypeOK, EstadoCorto, Formas, Canales
<1>1. ASSUME t' = t, corto'.pc \in {"flag", "tomar"}, corto.pc # "ejecutar",
             aCpu' = aCpu, deCpu' = deCpu, cpu' = cpu, hiloIO' = hiloIO, manejador' = manejador, cola' = cola
      PROVE  Mudanza
  <2>1. SubeTabla(Nadie, "nada", Nadie) /\ SubeCorto(Nadie, "nada", Nadie)
    BY <1>1 DEF SubeTabla, SubeCorto, EsNuevo, EsListo, EsElegido
  <2>2. Sube(Nadie, "nada", Nadie)
    BY <1>1, <2>1, SubeMarco DEF Sube
  <2> QED BY <1>1, <2>2, SinTraslado
<1>2. CASE cortoEsperaCompactacion
  <2>1. corto'.pc = "tomar" /\ corto.pc = "flag"
    BY <1>0, <1>2 DEF cortoEsperaCompactacion, EstadoCorto
  <2> QED BY <1>1, <1>2, <2>1 DEF cortoEsperaCompactacion, enKS, enMutex, enCPU
<1>3. CASE cortoDevuelve
  BY <1>1, <1>3 DEF cortoDevuelve, CortoEnReposo, enKS, enMutex, enCPU
<1>4. CASE cortoSelecciona
  <2>1. PICK P \in seleccionarProceso(t) : corto'.pc = "ejecutar" /\ corto'.p = P
    BY <1>4 DEF cortoSelecciona
  <2>2. P \in Procesos /\ t.estado[P] = "READY"
    <3>1. PICK k \in Colas : t.ready[k] # << >> /\ P = t.ready[k][1] /\ P \in Procesos
      BY <1>0, seleccionarProcesoTipo
    <3>2. Contains(t.ready[k], P)
      <4>1. t.ready[k] \in Seq(Procesos)
        BY <1>0 DEF Tabla
      <4>2. 1 \in 1..Len(t.ready[k])
        BY <3>1, <4>1, EmptySeq, LenProperties
      <4> QED BY <3>1, <4>2 DEF Contains
    <3> QED BY <3>1, <3>2 DEF CoherenteEn, EnSuCola
  <2>3. t' = t /\ corto.pc = "tomar" /\ aCpu' = aCpu /\ deCpu' = deCpu /\ cpu' = cpu /\ hiloIO' = hiloIO
        /\ manejador' = manejador /\ cola' = cola
    BY <1>4 DEF cortoSelecciona, enMutex, enCPU
  <2>4. SubeTabla(P, "corto", Nadie) /\ SubeCorto(P, "corto", Nadie)
    BY <2>1, <2>3 DEF SubeTabla, SubeCorto, EsNuevo, EsListo, EsElegido
  <2>5. Sube(P, "corto", Nadie)
    BY <2>3, <2>4, SubeMarco DEF Sube
  <2>6. EnSitio(P, "ready", Nadie) /\ ~EnSitio(P, "ready", Nadie)'
    BY <2>1, <2>2, <2>3 DEF EnSitio, EsListo
  <2>7. t'.estado[P] \notin Acabados
    BY <2>2, <2>3 DEF Acabados
  <2> QED BY <2>2, <2>3, <2>5, <2>6, <2>7, Traslado
<1>5. CASE cortoEjecuta
  <2>1. PICK P \in Procesos, c \in CPUs : corto.p = P /\ corto.c = c
    BY <1>0, <1>5 DEF cortoEjecuta, FormaCorto
  <2>2. /\ corto.pc = "ejecutar" /\ corto'.pc = "enviar" /\ corto'.p = P
        /\ aCpu' = aCpu /\ deCpu' = deCpu /\ cpu' = cpu /\ hiloIO' = hiloIO
        /\ manejador' = manejador /\ cola' = cola
    BY <1>0, <1>5, <2>1 DEF cortoEjecuta, EstadoCorto, enMutex, enCPU
  <2>3. EnSitio(P, "corto", Nadie)
    BY <2>1, <2>2 DEF EnSitio, EsElegido
  <2>4. t.estado[P] \notin Acabados
    BY <2>3 DEF CadaUnoEnSuSitio, Vivo
  <2>5. t'.estado = [t.estado EXCEPT ![P] = IF @ = "EXIT" THEN @ ELSE "EXEC"]
    <3>1. t' = EnExec(t, P, c)
      BY <1>5, <2>1 DEF cortoEjecuta, Despachado, EnExec
    <3>2. EnExec(t, P, c).estado = [t.estado EXCEPT ![P] = IF @ = "EXIT" THEN @ ELSE "EXEC"]
      BY <1>0, DespachadoTipo
    <3> QED BY <3>1, <3>2
  <2>6. t'.estado[P] = "EXEC" /\ \A q \in Procesos \ {P} : t'.estado[q] = t.estado[q]
    BY <1>0, <2>4, <2>5 DEF Acabados, Tabla
  <2>7. SubeTabla(P, "corto", Nadie) /\ SubeCorto(P, "corto", Nadie)
    BY <2>1, <2>2, <2>6 DEF SubeTabla, SubeCorto, EsNuevo, EsListo, EsElegido
  <2>8. Sube(P, "corto", Nadie)
    BY <2>2, <2>7, SubeMarco DEF Sube
  <2>9. t'.estado[P] \notin Acabados
    BY <2>6 DEF Acabados
  <2> QED BY <2>3, <2>6, <2>8, <2>9, Traslado
<1>6. CASE cortoEnvia
  <2>1. PICK P \in Procesos, c \in CPUs : corto.p = P /\ corto.c = c
    BY <1>0, <1>6 DEF cortoEnvia, FormaCorto
  <2>2. /\ corto.pc = "enviar" /\ corto'.pc = "flag" /\ t' = t
        /\ aCpu' = Enviado(aCpu, c, PidEnviado(P)) /\ deCpu' = deCpu /\ cpu' = cpu /\ hiloIO' = hiloIO
        /\ manejador' = manejador /\ cola' = cola
    BY <1>0, <1>6, <2>1 DEF cortoEnvia, CortoEnReposo, enKS, enMutex, enCPU
  <2>3. PidEnviado(P) \in MensajesAlCPU /\ PidEnviado(P).pid = P
    BY DEF PidEnviado, Msj, MensajesAlCPU
  <2>4. SubeCPU(P, "cpu", c)
    <3>1. ASSUME NEW p \in Procesos, NEW x \in CPUs, EnCPU(p, x)', ~EnCPU(p, x)
          PROVE  p = P /\ x = c
      <4> DEFINE a == aCpu[x]
                 m == PidEnviado(P)
      <4>1. a \in Seq(MensajesAlCPU) /\ m \in MensajesAlCPU /\ m.pid = P
        BY <1>0, <2>3 DEF Canales
      <4>2. aCpu'[x] = a \/ (x = c /\ aCpu'[x] = Append(a, m))
        BY <1>0, <2>2, <2>3, EnviadoTipo
      <4>3. EnLaCPU(aCpu'[x], deCpu[x], cpu[x], p) /\ ~EnLaCPU(a, deCpu[x], cpu[x], p)
        BY <2>2, <3>1 DEF EnCPU
      <4> HIDE DEF a, m
      <4>4. x = c /\ aCpu'[x] = Append(a, m)
        BY <4>2, <4>3
      <4>5. EnCanal(Append(a, m), p) => EnCanal(a, p) \/ p = P
        BY <4>1, CanalAgregado
      <4>6. HayBloqueado(a) => HayBloqueado(Append(a, m))
        BY <4>1, CanalAgregado
      <4>7. Corre(Append(a, m), cpu[x]) => Corre(a, cpu[x])
        BY <4>6 DEF Corre
      <4> QED BY <4>3, <4>4, <4>5, <4>7 DEF EnLaCPU
    <3> QED BY <3>1 DEF SubeCPU
  <2>5. SubeTabla(P, "cpu", c) /\ SubeCorto(P, "cpu", c)
    BY <2>2 DEF SubeTabla, SubeCorto, EsNuevo, EsListo, EsElegido
  <2>6. Sube(P, "cpu", c)
    BY <2>2, <2>4, <2>5, SubeMarco DEF Sube
  <2>7. EnSitio(P, "corto", Nadie) /\ ~EnSitio(P, "corto", Nadie)'
    BY <2>1, <2>2 DEF EnSitio, EsElegido
  <2>8. t'.estado[P] \notin Acabados
    BY <2>2, <2>7 DEF CadaUnoEnSuSitio, Vivo
  <2> QED BY <1>6, <2>1, <2>2, <2>6, <2>7, <2>8, Traslado
<1> QED BY <1>2, <1>3, <1>4, <1>5, <1>6 DEF Corto


\* The PCB of a process that is dispatched names its CPU.
LEMMA DespachadoFd ==
  ASSUME NEW tab \in Tabla, NEW p \in Procesos, NEW c \in CPUs
  PROVE  EnExec(tab, p, c).fdCpu = [tab.fdCpu EXCEPT ![p] = c]
<1> DEFINE v == [tab EXCEPT !.fdCpu[p] = c]
           nuevo == "EXEC"
<1>1. v \in Tabla /\ v.fdCpu = [tab.fdCpu EXCEPT ![p] = c]
  BY DEF Tabla
<1>2. nuevo \in ConLista \cup {"READY"}
  BY DEF ConLista
<1> HIDE DEF v, nuevo
<1>3. MismosPCB(v, actualizarEstado(v, p, nuevo))
  BY <1>1, <1>2, actualizarEstadoTipo
<1>4. actualizarEstado(v, p, nuevo).fdCpu = v.fdCpu
  BY <1>3 DEF MismosPCB
<1> QED BY <1>1, <1>4 DEF EnExec, v, nuevo


\* The process of a message after which the CPU is free is no longer in its hands.
LEMMA LiberadaSinNadie ==
  ASSUME Bien, TurnoCPU, NEW c \in CPUs, NEW tipo \in Liberan, Atiende(c, tipo), cpu' = cpu,
         Conservan(aCpu, aCpu'), NEW p
  PROVE  ~EnSitio(p, "cpu", c)'
<1> DEFINE a == aCpu[c]
           b == aCpu'[c]
           d == deCpu[c]
           k == cpu[c]
           libre == Contains(cpusLibres, c)
           elegida == corto.c = c
<1>1. /\ Turno(libre, elegida, a, d, k, manejador[c]) /\ a \in Seq(MensajesAlCPU)
      /\ d \in Seq(MensajesDelCPU) /\ (k.modo = "respuesta" => k.sys \in ConRespuesta)
      /\ Conserva(a, b)
  BY DEF TurnoCPU, TurnoDe, Bien, TypeOK, Formas, FormaCPU, Conservan
<1>2. d # << >> /\ Head(d).tipo \in Liberan /\ deCpu'[c] = Tail(d)
  BY AtiendeTipo
<1>3. ~EnLaCPU(b, Tail(d), k, p)
  <2> HIDE DEF libre, elegida, a, b, d, k
  <2> QED BY <1>1, <1>2, NadieTrasLiberar
<1> QED BY <1>2, <1>3 DEF EnSitio, EnCPU

\* A process that ends, is put to sleep or was interrupted leaves its CPU.
LEMMA SitiosLibera ==
  ASSUME Bien, SiguenAvisando, TurnoCPU, CadaUnoEnSuSitio, NEW c \in CPUs,
         atenderDone(c) \/ atenderSegFault(c) \/ atenderInterrupcionAtendida(c) \/ atenderSleep(c)
  PROVE  Mudanza
<1>0. /\ t \in Tabla /\ aCpu \in Canales /\ hiloIO \in [Procesos -> {"ninguno", "bloquear", "enIO"}]
      /\ Conservan(aCpu, aCpu)
  BY CanalesConservan DEF Bien, TypeOK, Canales
<1>1. PICK P : P = Head(deCpu[c]).pid
  OBVIOUS
<1>2. ASSUME NEW tipo \in Liberan, Atiende(c, tipo), cpu' = cpu, Conservan(aCpu, aCpu')
      PROVE  /\ P \in Procesos /\ EnSitio(P, "cpu", c) /\ ~EnSitio(P, "cpu", c)'
             /\ \A s, z : SubeCPU(P, s, z)
             /\ t.estado[P] \notin Acabados /\ manejador[c].pc = "libre"
  <2>1. P \in Procesos /\ EnSitio(P, "cpu", c)
    BY <1>1, <1>2, AtiendeSitio
  <2>2. ~EnSitio(P, "cpu", c)'
    BY <1>2, LiberadaSinNadie
  <2>3. \A s, z : SubeCPU(P, s, z)
    BY <1>2, AtiendeSitio, CPUsConservan
  <2>4. manejador[c].pc = "libre"
    BY <1>2, AtiendeTipo
  <2> QED BY <2>1, <2>2, <2>3, <2>4 DEF CadaUnoEnSuSitio, Vivo
<1>3. CASE atenderDone(c) \/ atenderSegFault(c)
  <2>1. PICK tipo \in Liberan : Atiende(c, tipo)
    BY <1>3 DEF atenderDone, atenderSegFault, Liberan
  <2>2. /\ t' = finalizarProceso(P) /\ cpu' = cpu /\ corto' = corto /\ hiloIO' = hiloIO
        /\ manejador' = manejador /\ cola' = cola
    BY <1>1, <1>3 DEF atenderDone, atenderSegFault, enMutex
  <2>3. Conservan(aCpu, aCpu')
    <3>1. aCpu' = aCpu \/ aCpu' = Enviado(aCpu, c, Respuesta("OK"))
      BY <1>3 DEF atenderDone, atenderSegFault, Responde
    <3>2. Conservan(aCpu, Enviado(aCpu, c, Respuesta("OK")))
      BY <1>0, RespuestaConserva
    <3> QED BY <1>0, <3>1, <3>2
  <2>4. /\ P \in Procesos /\ EnSitio(P, "cpu", c) /\ ~EnSitio(P, "cpu", c)' /\ SubeCPU(P, "nada", Nadie)
    BY <1>2, <2>1, <2>2, <2>3
  <2>5. t'.estado = t.estado \/ t'.estado = [t.estado EXCEPT ![P] = "EXIT"]
    BY <2>2, <2>4, finalizarProcesoTipo
  <2>6. SubeTabla(P, "nada", Nadie) /\ \A q \in Procesos \ {P} : t'.estado[q] = t.estado[q]
    BY <1>0, <2>2, <2>5 DEF SubeTabla, EsNuevo, EsListo, Tabla
  <2>7. Sube(P, "nada", Nadie)
    BY <2>2, <2>4, <2>6, SubeMarco DEF Sube
  <2>8. ~EnSitio(P, "nada", Nadie)'
    BY DEF EnSitio
  <2> QED BY <2>4, <2>6, <2>7, <2>8, Traslado
<1>4. CASE atenderSleep(c)
  <2>1. "SLEEP" \in Liberan /\ Atiende(c, "SLEEP")
    BY <1>4 DEF atenderSleep, Liberan
  <2>2. /\ t' = t /\ cpu' = cpu /\ corto' = corto /\ hiloIO' = [hiloIO EXCEPT ![P] = "bloquear"]
        /\ manejador' = manejador /\ cola' = cola /\ aCpu' = aCpu
    BY <1>1, <1>4 DEF atenderSleep, enMutex
  <2>3. Conservan(aCpu, aCpu')
    BY <1>0, <2>2
  <2>4. /\ P \in Procesos /\ EnSitio(P, "cpu", c) /\ ~EnSitio(P, "cpu", c)' /\ SubeCPU(P, "io", Nadie)
        /\ t'.estado[P] \notin Acabados
    BY <1>2, <2>1, <2>2, <2>3
  <2>5. SubeIO(P, "io", Nadie)
    BY <1>0, <2>2, <2>4 DEF SubeIO, EnIO
  <2>6. Sube(P, "io", Nadie)
    BY <2>2, <2>4, <2>5, SubeMarco DEF Sube
  <2> QED BY <2>2, <2>4, <2>6, Traslado
<1>5. CASE atenderInterrupcionAtendida(c)
  <2>1. "INTERRUPCION_ATENDIDA" \in Liberan /\ Atiende(c, "INTERRUPCION_ATENDIDA")
    BY <1>5 DEF atenderInterrupcionAtendida, Liberan
  <2>2. /\ t' = t /\ cpu' = cpu /\ corto' = corto /\ hiloIO' = hiloIO /\ cola' = cola /\ aCpu' = aCpu
        /\ manejador' = manejador \/ \E arg : Sigue(c, "desalojado", P, arg)
    BY <1>1, <1>5 DEF atenderInterrupcionAtendida, enMutex
  <2>3. Conservan(aCpu, aCpu')
    BY <1>0, <2>2
  <2>4. /\ P \in Procesos /\ EnSitio(P, "cpu", c) /\ ~EnSitio(P, "cpu", c)' /\ SubeCPU(P, "manejador", c)
        /\ t'.estado[P] \notin Acabados
    BY <1>2, <2>1, <2>2, <2>3
  <2>5. SubeManejador(P, "manejador", c)
    <3>1. CASE manejador' = manejador
      BY <3>1, SubeMarco
    <3>2. CASE \E arg : Sigue(c, "desalojado", P, arg)
      <4>1. manejador'[c].pid = P /\ \A x \in CPUs \ {c} : manejador'[x] = manejador[x]
        BY <3>2 DEF Sigue, Bien, TypeOK
      <4> QED BY <4>1 DEF SubeManejador, EnManejador
    <3> QED BY <2>2, <3>1, <3>2
  <2>6. Sube(P, "manejador", c)
    BY <2>2, <2>4, <2>5, SubeMarco DEF Sube
  <2> QED BY <2>2, <2>4, <2>6, Traslado
<1> QED BY <1>3, <1>4, <1>5


\* An interrupted process, or one that is handed a mutex, goes back to READY.
LEMMA SitiosVuelve ==
  ASSUME Bien, SiguenAvisando, CadaUnoEnSuSitio, NEW c \in CPUs,
         volverAReady(c) \/ volverAlFrente(c) \/ despertarSiguiente(c)
  PROVE  Mudanza
<1>0. /\ t \in Tabla /\ aCpu \in Canales /\ FormaManejador /\ Conservan(aCpu, aCpu)
  BY CanalesConservan DEF Bien, TypeOK, Canales, Formas
<1>1. PICK P \in Procesos : P = manejador[c].pid
  BY <1>0 DEF volverAReady, volverAlFrente, despertarSiguiente, FormaManejador
<1>2. /\ EnSitio(P, "manejador", c)
      /\ Termina(c) /\ corto' = corto /\ deCpu' = deCpu /\ cpu' = cpu /\ cola' = cola /\ hiloIO' = hiloIO
  BY <1>1 DEF volverAReady, volverAlFrente, despertarSiguiente, EnSitio, EnManejador, enMutex, enCPU
<1>3. manejador'[c].pc = "libre" /\ \A x \in CPUs \ {c} : manejador'[x] = manejador[x]
  BY <1>2, TerminaTipo
<1>4. /\ \A s, z : SubeManejador(P, s, z)
      /\ ~EnSitio(P, "manejador", c)'
  BY <1>3 DEF SubeManejador, EnSitio, EnManejador
<1>5. CASE volverAReady(c) \/ despertarSiguiente(c)
  <2>1. PasarAReady(aCpu, P)
    BY <1>1, <1>5 DEF volverAReady, despertarSiguiente
  <2>2. SubeIO(P, "ready", Nadie)
    BY <1>2, SubeMarco
  <2> QED BY <1>2, <1>4, <2>1, <2>2, PasaAListo
<1>6. CASE volverAlFrente(c)
  <2>1. t' = alFrenteDeReady(t, P) /\ aCpu' = aCpu
    BY <1>1, <1>6 DEF volverAlFrente
  <2>2. t'.estado = [t.estado EXCEPT ![P] = "READY"]
    <3>1. alFrenteDeReady(t, P).estado = [t.estado EXCEPT ![P] = "READY"]
      BY <1>0, alFrenteTipo
    <3> QED BY <2>1, <3>1
  <2>3. t'.estado[P] = "READY" /\ \A q \in Procesos \ {P} : t'.estado[q] = t.estado[q]
    BY <1>0, <2>2 DEF Tabla
  <2>4. SubeTabla(P, "ready", Nadie)
    BY <1>2, <2>3 DEF SubeTabla, EsNuevo, EsListo
  <2>5. Sube(P, "ready", Nadie)
    BY <1>2, <1>4, <2>1, <2>4, SubeMarco DEF Sube
  <2>6. t'.estado[P] \notin Acabados
    BY <2>3 DEF Acabados
  <2> QED BY <1>2, <1>4, <2>3, <2>5, <2>6, Traslado
<1> QED BY <1>5, <1>6

\* A call that is answered, a compaction, a connection: nobody moves.
LEMMA SitiosQuietos ==
  ASSUME Bien, SiguenAvisando, CadaUnoEnSuSitio, NEW c \in CPUs,
         \/ mutex_create(c) \/ mutex_lock_no_existe(c) \/ mutex_lock_libre(c) \/ mutex_unlock_ajeno(c)
         \/ km_mem_alloc(c) \/ manejar_solicitud_desalojo(c) \/ esperarConfirmaciones(c)
         \/ finCompactacion(c) \/ conectar(c)
  PROVE  Mudanza
<1>0. /\ t \in Tabla /\ aCpu \in Canales /\ Conservan(aCpu, aCpu)
      /\ manejador \in [CPUs -> EstadoManejador] /\ cpu \in [CPUs -> EstadoCPU]
  BY CanalesConservan DEF Bien, TypeOK, Canales, EstadoManejador, EstadoCPU
<1>1. ASSUME NEW x, NEW tipo \in {"OK", "ERROR"}, Responde(x, tipo)
      PROVE  Conservan(aCpu, aCpu')
  <2>1. Conservan(aCpu, Enviado(aCpu, x, Respuesta(tipo)))
    BY <1>0, RespuestaConserva
  <2> QED BY <1>1, <2>1 DEF Responde
<1>2. CASE \/ mutex_create(c) \/ mutex_lock_no_existe(c) \/ mutex_lock_libre(c) \/ mutex_unlock_ajeno(c)
           \/ km_mem_alloc(c)
  <2>1. /\ t' = t /\ cpu' = cpu /\ corto' = corto /\ hiloIO' = hiloIO /\ cola' = cola /\ manejador' = manejador
        /\ \E tipo : Atiende(c, tipo)
        /\ \E x : \E r \in {"OK", "ERROR"} : Responde(x, r)
    <3>1. CASE mutex_create(c) \/ mutex_unlock_ajeno(c) \/ km_mem_alloc(c)
      BY <3>1 DEF mutex_create, mutex_unlock_ajeno, km_mem_alloc, enKS, enMutex
    <3>2. CASE mutex_lock_no_existe(c) \/ mutex_lock_libre(c)
      BY <3>2 DEF mutex_lock_no_existe, mutex_lock_libre, enKS, enMutex
    <3> QED BY <1>2, <3>1, <3>2
  <2>2. Conservan(aCpu, aCpu')
    BY <1>1, <2>1
  <2>3. SubeManejador(Nadie, "nada", Nadie)
    BY <2>1, SubeMarco
  <2> QED BY <2>1, <2>2, <2>3, QuedaEnCPU
<1>3. CASE manejar_solicitud_desalojo(c)
  <2>1. PICK ps, p, arg :
          /\ Atiende(c, "MEM_ALLOC") /\ aCpu' = Interrumpidas(aCpu, t, ps, 2)
          /\ Sigue(c, "confirmaciones", p, arg)
          /\ t' = t /\ cpu' = cpu /\ corto' = corto /\ hiloIO' = hiloIO /\ cola' = cola
    BY <1>3 DEF manejar_solicitud_desalojo, enKS, enMutex
  <2>2. Conservan(aCpu, aCpu')
    <3>1. 2 \in Motivos
      BY DEF Motivos
    <3>2. aCpu' \in Canales /\ SoloInterrumpe(aCpu, aCpu')
      BY <1>0, <2>1, <3>1, InterrumpidasTipo
    <3> QED BY <1>0, <3>2, CanalesConservan
  <2>3. SubeManejador(Nadie, "nada", Nadie)
    <3>1. manejador'[c].pc = "confirmaciones" /\ \A x \in CPUs \ {c} : manejador'[x] = manejador[x]
      BY <1>0, <2>1 DEF Sigue
    <3> QED BY <3>1 DEF SubeManejador, EnManejador
  <2> QED BY <2>1, <2>2, <2>3, QuedaEnCPU
<1>4. CASE esperarConfirmaciones(c) \/ finCompactacion(c) \/ conectar(c)
  <2>1. /\ t' = t /\ corto' = corto /\ hiloIO' = hiloIO /\ cola' = cola /\ deCpu' = deCpu
        /\ manejador'[c].pc \in {"compactando", "libre"}
        /\ \A x \in CPUs \ {c} : manejador'[x] = manejador[x]
        /\ \A x \in CPUs : cpu'[x] = cpu[x] \/ cpu'[x].modo = "espera"
        /\ Conservan(aCpu, aCpu')
    <3>1. CASE esperarConfirmaciones(c)
      BY <1>0, <3>1 DEF esperarConfirmaciones, Sigue, enKS, enMutex, enCPU
    <3>2. CASE finCompactacion(c)
      <4>1. Conservan(aCpu, aCpu')
        BY <1>1, <3>2 DEF finCompactacion
      <4> QED BY <1>0, <3>2, <4>1 DEF finCompactacion, Termina, ManejadorLibre, enKS, enMutex, enCPU
    <3>3. CASE conectar(c)
      BY <1>0, <3>3 DEF conectar, ManejadorLibre, CPUEn, enMutex, enCPU
    <3> QED BY <1>4, <3>1, <3>2, <3>3
  <2>2. SubeCPU(Nadie, "nada", Nadie)
    BY <2>1, CPUsConservan
  <2>3. SubeManejador(Nadie, "nada", Nadie)
    BY <2>1 DEF SubeManejador, EnManejador
  <2>4. Sube(Nadie, "nada", Nadie)
    BY <2>1, <2>2, <2>3, SubeMarco DEF Sube
  <2> QED BY <2>1, <2>4, SinTraslado
<1> QED BY <1>2, <1>3, <1>4


\* The queue of a mutex: who finds it taken joins it, and leaves it when it is handed over.
LEMMA SitiosMutex ==
  ASSUME Bien, SiguenAvisando, ColasSinRepetir, CadaUnoEnSuSitio, NEW c \in CPUs,
         mutex_lock_ocupado(c) \/ bloquearPorMutex(c) \/ mutex_unlock(c)
  PROVE  Mudanza
<1>0. /\ t \in Tabla /\ aCpu \in Canales /\ FormaManejador /\ Conservan(aCpu, aCpu)
      /\ manejador \in [CPUs -> EstadoManejador] /\ cola \in [Mutexes -> Seq(Procesos)] /\ 1 \in Motivos
  <2>1. TypeOK /\ FormaManejador /\ 1 \in Motivos
    BY DEF Bien, Formas, Motivos
  <2>2. t \in Tabla /\ aCpu \in Canales /\ cola \in [Mutexes -> Seq(Procesos)]
    BY <2>1 DEF TypeOK, Canales
  <2>3. manejador \in [CPUs -> EstadoManejador]
    BY <2>1 DEF TypeOK, EstadoManejador
  <2> QED BY <2>1, <2>2, <2>3, CanalesConservan
<1>1. CASE bloquearPorMutex(c)
  <2>1. PICK p \in Procesos : p = manejador[c].pid
    BY <1>0, <1>1 DEF bloquearPorMutex, FormaManejador
  <2>2. /\ t' = actualizarEstado(t, p, "BLOCK") /\ corto' = corto /\ hiloIO' = hiloIO /\ cola' = cola
        /\ deCpu' = deCpu /\ cpu' = cpu /\ aCpu' = aCpu /\ Termina(c)
    BY <1>1, <2>1 DEF bloquearPorMutex, enMutex, enCPU
  <2>3. t'.estado = [t.estado EXCEPT ![p] = IF @ = "EXIT" THEN @ ELSE "BLOCK"]
    <3> DEFINE nuevo == "BLOCK"
               u == actualizarEstado(t, p, nuevo)
    <3>1. nuevo \in ConLista \cup {"READY"}
      BY DEF ConLista
    <3> HIDE DEF nuevo
    <3>2. u.estado = [t.estado EXCEPT ![p] = IF @ = "EXIT" THEN @ ELSE nuevo]
      BY <1>0, <3>1, actualizarEstadoTipo
    <3>3. t' = u
      BY <2>2 DEF nuevo
    <3> HIDE DEF u
    <3> QED BY <3>2, <3>3 DEF nuevo
  <2>4. \A q \in Procesos : t'.estado[q] = t.estado[q] \/ t'.estado[q] = "BLOCK"
    BY <1>0, <2>3 DEF Tabla
  <2>5. SubeTabla(Nadie, "nada", Nadie)
    BY <2>2, <2>4 DEF SubeTabla, EsNuevo, EsListo
  <2>6. manejador'[c].pc = "libre" /\ \A x \in CPUs \ {c} : manejador'[x] = manejador[x]
    BY <2>2, TerminaTipo
  <2>7. SubeManejador(Nadie, "nada", Nadie)
    BY <2>6 DEF SubeManejador, EnManejador
  <2>8. Sube(Nadie, "nada", Nadie)
    BY <2>2, <2>5, <2>7, SubeMarco DEF Sube
  <2> QED BY <2>4, <2>8, SinTraslado DEF Acabados
<1>2. CASE mutex_lock_ocupado(c)
  <2>1. PICK P \in Procesos, m \in Mutexes : P = Head(deCpu[c]).pid /\ m = Head(deCpu[c]).arg
    BY <1>2, LockOcupadoEfecto
  <2>2. /\ t'.estado = t.estado /\ cola' = [cola EXCEPT ![m] = Append(cola[m], P)] /\ t.fdCpu[P] \in CPUs \cup {Nadie}
    BY <1>0, <1>2, <2>1, LockOcupadoEfecto DEF Tabla
  <2>3. /\ corto' = corto /\ hiloIO' = hiloIO /\ cpu' = cpu /\ Atiende(c, "MUTEX_LOCK")
        /\ Sigue(c, "avisar", P, m)
    BY <1>2, <2>1 DEF mutex_lock_ocupado
  <2>4. Conservan(aCpu, aCpu')
    <3> DEFINE duenio == tomador[m]
               nueva == t.prioridad[P]
               ps == desalojadosPorPrioridad(t, duenio, nueva)
    <3>1. aCpu' = IF Hereda(P, duenio) THEN Interrumpidas(aCpu, t', ps, 1) ELSE aCpu
      BY <1>2, <2>1 DEF mutex_lock_ocupado
    <3>2. t' \in Tabla
      BY <1>2, LockOcupadoEfecto
    <3> HIDE DEF ps, nueva, duenio
    <3>3. CASE Hereda(P, duenio)
      <4>1. aCpu' = Interrumpidas(aCpu, t', ps, 1)
        BY <3>1, <3>3
      <4>2. aCpu' \in Canales /\ SoloInterrumpe(aCpu, aCpu')
        BY <1>0, <3>2, <4>1, InterrumpidasTipo
      <4> QED BY <1>0, <4>2, CanalesConservan
    <3>4. CASE ~Hereda(P, duenio)
      BY <1>0, <3>1, <3>4
    <3> QED BY <3>3, <3>4
  <2>7. EnSitio(P, "cpu", c) /\ SubeCPU(P, "cola", m) /\ t'.estado[P] \notin Acabados
    <3>1. EnSitio(P, "cpu", c) /\ \A x \in CPUs : \A p : EnPedido(deCpu'[x], p) => EnPedido(deCpu[x], p)
      BY <2>1, <2>3, AtiendeSitio
    <3>2. SubeCPU(P, "cola", m)
      BY <2>3, <2>4, <3>1, CPUsConservan
    <3>3. t.estado[P] \notin Acabados
      BY <3>1 DEF CadaUnoEnSuSitio, Vivo
    <3> QED BY <2>2, <3>1, <3>2, <3>3
  <2>8. SubeCola(P, "cola", m)
    <3>1. cola[m] \in Seq(Procesos)
      BY <1>0
    <3>2. \A x : Contains(Append(cola[m], P), x) => Contains(cola[m], x) \/ x = P
      BY <3>1, ContieneAppend
    <3>3. \A n \in Mutexes : cola'[n] = IF n = m THEN Append(cola[m], P) ELSE cola[n]
      BY <1>0, <2>2
    <3> QED BY <3>2, <3>3 DEF SubeCola, EnCola
  <2>9. SubeManejador(P, "cola", m)
    <3>1. manejador'[c].pc = "avisar" /\ \A x \in CPUs \ {c} : manejador'[x] = manejador[x]
      BY <1>0, <2>3 DEF Sigue
    <3> QED BY <3>1 DEF SubeManejador, EnManejador
  <2>10. SubeTabla(P, "cola", m)
    BY <2>2, <2>3, SubeMarco
  <2>11. Sube(P, "cola", m)
    BY <2>3, <2>7, <2>8, <2>9, <2>10, SubeMarco DEF Sube
  <2>12. ~EnSitio(P, "cpu", c)'
    <3>1. manejador'[c].pc = "avisar"
      BY <1>0, <2>3 DEF Sigue
    <3> QED BY <3>1 DEF EnSitio, EnCPU
  <2> QED BY <2>2, <2>7, <2>11, <2>12, Traslado
<1>3. CASE mutex_unlock(c)
  <2>1. PICK m \in Mutexes : m = Head(deCpu[c]).arg
    BY <1>3, UnlockEfecto
  <2>2. /\ t'.estado = t.estado /\ cpu' = cpu /\ corto' = corto /\ hiloIO' = hiloIO
        /\ Atiende(c, "MUTEX_UNLOCK")
        /\ \/ cola' = cola /\ manejador' = manejador
           \/ /\ cola[m] # << >> /\ Head(cola[m]) \in Procesos
              /\ cola' = [cola EXCEPT ![m] = Tail(cola[m])]
              /\ Sigue(c, "despertar", Head(cola[m]), m)
    BY <1>3, <2>1, UnlockEfecto DEF mutex_unlock
  <2>3. Conservan(aCpu, aCpu')
    <3> DEFINE con == Enviado(aCpu, c, Respuesta("OK"))
    <3>1. con \in Canales /\ Conservan(aCpu, con)
      <4>1. Respuesta("OK") \in MensajesAlCPU
        BY DEF Respuesta, Msj, MensajesAlCPU
      <4>2. con \in Canales
        BY <1>0, <4>1, EnviadoTipo
      <4> QED BY <1>0, <4>2, RespuestaConserva
    <3>2. PICK ps : aCpu' = Interrumpidas(con, t', ps, 1)
      BY <1>3 DEF mutex_unlock
    <3>3. t' \in Tabla
      BY <1>3, UnlockEfecto
    <3> HIDE DEF con
    <3>4. aCpu' \in Canales /\ SoloInterrumpe(con, aCpu')
      BY <1>0, <3>1, <3>2, <3>3, InterrumpidasTipo
    <3>5. Conservan(con, aCpu')
      BY <3>1, <3>4, CanalesConservan
    <3> QED BY <3>1, <3>5 DEF Conservan, Conserva
  <2>4. CASE cola' = cola /\ manejador' = manejador
    <3>1. SubeManejador(Nadie, "nada", Nadie)
      BY <2>4, SubeMarco
    <3> QED BY <2>2, <2>3, <2>4, <3>1, QuedaEnCPU
  <2>5. CASE /\ cola[m] # << >> /\ Head(cola[m]) \in Procesos
             /\ cola' = [cola EXCEPT ![m] = Tail(cola[m])]
             /\ Sigue(c, "despertar", Head(cola[m]), m)
    <3>1. PICK P \in Procesos : P = Head(cola[m])
      BY <2>5
    <3>2. Contains(cola[m], P) /\ \A x : Contains(Tail(cola[m]), x) <=> Contains(cola[m], x) /\ x # P
      <4> DEFINE s == cola[m]
      <4>1. s \in Seq(Procesos) /\ s # << >> /\ SinRepetir(s) /\ P = Head(s)
        BY <1>0, <2>5, <3>1 DEF ColasSinRepetir
      <4> HIDE DEF s
      <4>2. Contains(s, P) /\ \A x : Contains(Tail(s), x) <=> Contains(s, x) /\ x # P
        BY <4>1, ContieneTail DEF SinRepetir
      <4> QED BY <4>2 DEF s
    <3>3. cola'[m] = Tail(cola[m]) /\ \A n \in Mutexes \ {m} : cola'[n] = cola[n]
      BY <1>0, <2>5
    <3>4. EnSitio(P, "cola", m) /\ ~EnSitio(P, "cola", m)'
      BY <3>2, <3>3 DEF EnSitio, EnCola
    <3>5. SubeCola(P, "manejador", c)
      BY <3>2, <3>3 DEF SubeCola, EnCola
    <3>6. SubeManejador(P, "manejador", c)
      <4>1. manejador'[c].pid = P /\ \A x \in CPUs \ {c} : manejador'[x] = manejador[x]
        BY <1>0, <2>5, <3>1 DEF Sigue
      <4> QED BY <4>1 DEF SubeManejador, EnManejador
    <3>7. SubeCPU(P, "manejador", c)
      BY <2>2, <2>3, AtiendeSitio, CPUsConservan
    <3>8. SubeTabla(P, "manejador", c)
      BY <2>2, SubeMarco
    <3>9. Sube(P, "manejador", c)
      BY <2>2, <3>5, <3>6, <3>7, <3>8, SubeMarco DEF Sube
    <3>10. t'.estado[P] \notin Acabados
      BY <2>2, <3>4 DEF CadaUnoEnSuSitio, Vivo
    <3> QED BY <2>2, <3>4, <3>9, <3>10, Traslado
  <2> QED BY <2>2, <2>4, <2>5
<1> QED BY <1>1, <1>2, <1>3


\* The answer BLOQUEADO finds its process in the queue, and it moves nobody.
LEMMA SitiosAvisa ==
  ASSUME Bien, TurnoCPU, FdDeLocks, CadaUnoEnSuSitio, NEW c \in CPUs, avisarBloqueado(c)
  PROVE  Mudanza
<1>0. /\ aCpu \in Canales /\ aCpu[c] \in Seq(MensajesAlCPU) /\ deCpu[c] \in Seq(MensajesDelCPU)
      /\ manejador \in [CPUs -> EstadoManejador]
  <2>1. TypeOK
    BY DEF Bien
  <2> QED BY <2>1 DEF TypeOK, Canales, EstadoManejador
<1>1. /\ manejador[c].pc = "avisar" /\ t' = t /\ corto' = corto /\ hiloIO' = hiloIO /\ cola' = cola
      /\ deCpu' = deCpu /\ cpu' = cpu /\ aCpu' = Enviado(aCpu, c, Respuesta("BLOQUEADO"))
  <2>1. /\ manejador[c].pc = "avisar" /\ t' = t /\ corto' = corto /\ hiloIO' = hiloIO /\ cola' = cola
        /\ deCpu' = deCpu /\ cpu' = cpu
        /\ aCpu' = Enviado(aCpu, t.fdCpu[manejador[c].pid], Respuesta("BLOQUEADO"))
    BY DEF avisarBloqueado, Responde, enKS, enMutex, enCPU
  <2> QED BY <2>1 DEF FdDeLocks
<1>2. manejador'[c].pc = "bloquear" /\ \A x \in CPUs \ {c} : manejador'[x] = manejador[x]
  BY <1>0 DEF avisarBloqueado, Sigue
<1>3. Conservan(aCpu, aCpu')
  <2>1. Conservan(aCpu, Enviado(aCpu, c, Respuesta("BLOQUEADO")))
    BY <1>0, RespuestaConserva
  <2> QED BY <1>1, <2>1
<1>4. ASSUME NEW p
      PROVE  ~EnCPU(p, c)'
  <2> DEFINE a == aCpu[c]
             b == aCpu'[c]
             d == deCpu[c]
             k == cpu[c]
             h == manejador[c]
             libre == Contains(cpusLibres, c)
             elegida == corto.c = c
             r == Respuesta("BLOQUEADO")
  <2>1. Turno(libre, elegida, a, d, k, h) /\ \A q : EnCanal(b, q) => EnCanal(a, q)
    BY <1>3 DEF TurnoCPU, TurnoDe, Conservan, Conserva
  <2>2. r \in MensajesAlCPU /\ r.tipo = "BLOQUEADO"
    BY DEF Respuesta, Msj, MensajesAlCPU
  <2>3. b = Append(a, r) \/ k.modo \in {"desconectada", "caida"}
    BY <1>0, <1>1, <2>2, EnviadoExacto
  <2>4. HayBloqueado(b) \/ k.modo \in {"desconectada", "caida"}
    <3>1. HayBloqueado(Append(a, r))
      <4> HIDE DEF a, r
      <4> QED BY <1>0, <2>2, CanalAgregado DEF a
    <3> HIDE DEF a, b, r, k
    <3> QED BY <2>3, <3>1
  <2>5. ~EnLaCPU(b, d, k, p)
    <3>1. a \in Seq(MensajesAlCPU) /\ d \in Seq(MensajesDelCPU) /\ h.pc = "avisar"
      BY <1>0, <1>1
    <3> HIDE DEF a, b, d, k, h, libre, elegida
    <3> QED BY <2>1, <2>4, <3>1, NadieTrasAvisar
  <2> QED BY <1>1, <2>5 DEF EnCPU
<1>5. SubeCPU(Nadie, "nada", Nadie)
  <2>1. ASSUME NEW x \in CPUs, x # c, NEW p, EnCPU(p, x)'
        PROVE  EnCPU(p, x)
    <3>1. EnLaCPU(aCpu'[x], deCpu[x], cpu[x], p) /\ manejador[x].pc # "avisar"
      BY <1>1, <1>2, <2>1 DEF EnCPU
    <3>2. Conserva(aCpu[x], aCpu'[x])
      BY <1>3 DEF Conservan
    <3> QED BY <3>1, <3>2 DEF EnCPU, EnLaCPU, Conserva, Corre
  <2> QED BY <1>4, <2>1 DEF SubeCPU
<1>6. SubeManejador(Nadie, "nada", Nadie)
  BY <1>2 DEF SubeManejador, EnManejador
<1>7. Sube(Nadie, "nada", Nadie)
  BY <1>1, <1>5, <1>6, SubeMarco DEF Sube
<1> QED BY <1>1, <1>7, SinTraslado

\* The long-term scheduler, the timers and the threads of the IO.
LEMMA SitiosHilos ==
  ASSUME Bien, SiguenAvisando, CoherenteEn({"NEW"}, t), CadaUnoEnSuSitio,
         \/ planificadorLargoPlazo
         \/ \E p \in Procesos : HiloIO(p)
         \/ \E p \in Procesos, c \in CPUs : Timer(p, c)
  PROVE  Mudanza
<1>0. /\ t \in Tabla /\ aCpu \in Canales /\ Conservan(aCpu, aCpu)
      /\ hiloIO \in [Procesos -> {"ninguno", "bloquear", "enIO"}]
  BY CanalesConservan DEF Bien, TypeOK, Canales
<1>1. CASE planificadorLargoPlazo
  <2>1. PICK P \in Procesos : P = Head(t.listas["NEW"]) /\ t.estado[P] = "NEW"
    <3> DEFINE s == t.listas["NEW"]
    <3>1. s \in Seq(Procesos) /\ s # << >>
      BY <1>0, <1>1 DEF planificadorLargoPlazo, Tabla, ConLista
    <3>2. \A q \in Procesos : Contains(s, q) => t.estado[q] = "NEW"
      BY DEF CoherenteEn, EnSuLista
    <3> HIDE DEF s
    <3>3. Head(s) \in Procesos /\ Contains(s, Head(s))
      <4>1. 1 \in 1..Len(s) /\ Head(s) = s[1]
        BY <3>1, EmptySeq, LenProperties
      <4> QED BY <3>1, <4>1 DEF Contains
    <3> QED BY <3>2, <3>3 DEF s
  <2>2. /\ PasarAReady(aCpu, P) /\ corto' = corto /\ deCpu' = deCpu /\ cpu' = cpu /\ cola' = cola
        /\ hiloIO' = hiloIO /\ manejador' = manejador
    BY <1>1, <2>1 DEF planificadorLargoPlazo, enMutex, enCPU
  <2>3. EnSitio(P, "nuevo", Nadie)
    BY <2>1 DEF EnSitio, EsNuevo
  <2>4. SubeIO(P, "ready", Nadie) /\ SubeManejador(P, "ready", Nadie)
    BY <2>2, SubeMarco
  <2> QED BY <2>2, <2>3, <2>4, PasaAListo
<1>2. ASSUME NEW P \in Procesos, hiloDesbloquea(P)
      PROVE  Mudanza
  <2>1. /\ PasarAReady(aCpu, P) /\ corto' = corto /\ deCpu' = deCpu /\ cpu' = cpu /\ cola' = cola
        /\ hiloIO' = [hiloIO EXCEPT ![P] = "ninguno"] /\ manejador' = manejador /\ hiloIO[P] = "enIO"
    BY <1>2 DEF hiloDesbloquea, enMutex, enCPU
  <2>2. EnSitio(P, "io", Nadie) /\ ~EnSitio(P, "io", Nadie)' /\ SubeIO(P, "ready", Nadie)
    BY <1>0, <2>1 DEF EnSitio, EnIO, SubeIO
  <2>3. SubeManejador(P, "ready", Nadie)
    BY <2>1, SubeMarco
  <2> QED BY <2>1, <2>2, <2>3, PasaAListo
<1>3. ASSUME NEW P \in Procesos, hiloBloquea(P)
      PROVE  Mudanza
  <2>1. /\ corto' = corto /\ aCpu' = aCpu /\ deCpu' = deCpu /\ cpu' = cpu /\ cola' = cola
        /\ manejador' = manejador /\ hiloIO[P] = "bloquear"
        /\ \E v : hiloIO' = [hiloIO EXCEPT ![P] = v]
        /\ t' = t \/ t' = actualizarEstado(t, P, "BLOCK")
    BY <1>3 DEF hiloBloquea, enMutex, enCPU
  <2>2. EnSitio(P, "io", Nadie) /\ SubeIO(P, "io", Nadie)
    BY <1>0, <2>1 DEF EnSitio, EnIO, SubeIO
  <2>3. t.estado[P] \notin Acabados
    BY <2>2 DEF CadaUnoEnSuSitio, Vivo
  <2>4. t'.estado = t.estado \/ t'.estado = [t.estado EXCEPT ![P] = IF @ = "EXIT" THEN @ ELSE "BLOCK"]
    <3> DEFINE nuevo == "BLOCK"
               u == actualizarEstado(t, P, nuevo)
    <3>1. nuevo \in ConLista \cup {"READY"}
      BY DEF ConLista
    <3>2. t' = t \/ t' = u
      BY <2>1
    <3> HIDE DEF nuevo
    <3>3. u.estado = [t.estado EXCEPT ![P] = IF @ = "EXIT" THEN @ ELSE nuevo]
      BY <1>0, <3>1, actualizarEstadoTipo
    <3> HIDE DEF u
    <3> QED BY <3>2, <3>3 DEF nuevo
  <2>5. /\ \A q \in Procesos \ {P} : t'.estado[q] = t.estado[q]
        /\ t'.estado[P] = t.estado[P] \/ t'.estado[P] = "BLOCK"
    BY <1>0, <2>4 DEF Tabla
  <2>6. SubeTabla(P, "io", Nadie)
    BY <2>1, <2>5 DEF SubeTabla, EsNuevo, EsListo
  <2>7. Sube(P, "io", Nadie)
    BY <2>1, <2>2, <2>6, SubeMarco DEF Sube
  <2>8. t'.estado[P] \notin Acabados
    BY <2>3, <2>5 DEF Acabados
  <2> QED BY <2>2, <2>5, <2>7, <2>8, Traslado
<1>4. ASSUME NEW p \in Procesos, NEW c \in CPUs, Timer(p, c)
      PROVE  Mudanza
  <2>1. /\ t' = t /\ corto' = corto /\ deCpu' = deCpu /\ cpu' = cpu /\ cola' = cola /\ hiloIO' = hiloIO
        /\ manejador' = manejador /\ (aCpu' = aCpu \/ aCpu' = Enviado(aCpu, c, Interrupcion(p, 0)))
    BY <1>4 DEF Timer, venceQuantum, interrumpeQuantum, enKS, enMutex, enCPU
  <2>2. Conservan(aCpu, Enviado(aCpu, c, Interrupcion(p, 0)))
    <3> DEFINE m == Interrupcion(p, 0)
    <3>1. m \in MensajesAlCPU /\ m.tipo # "PID"
      BY DEF Interrupcion, Msj, MensajesAlCPU, Motivos
    <3> HIDE DEF m
    <3>2. Conservan(aCpu, Enviado(aCpu, c, m))
      BY <1>0, <3>1, CanalesConservan
    <3> QED BY <3>2 DEF m
  <2>3. SubeCPU(Nadie, "nada", Nadie)
    <3>1. Conservan(aCpu, aCpu')
      BY <1>0, <2>1, <2>2
    <3> QED BY <2>1, <3>1, CPUsConservan
  <2>4. Sube(Nadie, "nada", Nadie)
    BY <2>1, <2>3, SubeMarco DEF Sube
  <2> QED BY <2>1, <2>4, SinTraslado
<1> QED BY <1>1, <1>2, <1>3, <1>4 DEF HiloIO

\* A process that is created was nowhere.
LEMMA SitiosCrear ==
  ASSUME Bien, SiguenAvisando, CadaUnoEnSuSitio, NEW c \in CPUs, crear_proceso(c)
  PROVE  Mudanza
<1>0. t \in Tabla /\ aCpu \in Canales
  BY DEF Bien, TypeOK, Canales
<1>1. PICK P \in Procesos : t.estado[P] = "INEXISTENTE" /\ t'.estado = [t.estado EXCEPT ![P] = "NEW"]
  BY CrearEfecto
<1>2. /\ Atiende(c, "INIT_PROC") /\ aCpu' = Enviado(aCpu, c, Respuesta("OK"))
      /\ corto' = corto /\ cpu' = cpu /\ cola' = cola /\ hiloIO' = hiloIO /\ manejador' = manejador
  BY DEF crear_proceso, Responde, enMutex
<1>3. SubeCPU(P, "nuevo", Nadie)
  <2>1. Conservan(aCpu, Enviado(aCpu, c, Respuesta("OK")))
    BY <1>0, RespuestaConserva
  <2>2. Conservan(aCpu, aCpu')
    BY <1>2, <2>1
  <2> QED BY <1>2, <2>2, AtiendeSitio, CPUsConservan
<1>4. t'.estado[P] = "NEW" /\ \A q \in Procesos \ {P} : t'.estado[q] = t.estado[q]
  BY <1>0, <1>1 DEF Tabla
<1>5. SubeTabla(P, "nuevo", Nadie)
  BY <1>2, <1>4 DEF SubeTabla, EsNuevo, EsListo
<1>6. Sube(P, "nuevo", Nadie)
  BY <1>2, <1>3, <1>5, SubeMarco DEF Sube
<1>7. t.estado[P] \in Acabados /\ t'.estado[P] \notin Acabados
  BY <1>1, <1>4 DEF Acabados
<1> QED BY <1>4, <1>6, <1>7, Entrada

\* A step of the module of a CPU is about that CPU.
LEMMA ModuloSolo ==
  ASSUME Bien, NEW c \in CPUs, ModuloCPU(c) \/ caer(c)
  PROVE  /\ t' = t /\ corto' = corto /\ cola' = cola /\ hiloIO' = hiloIO /\ manejador' = manejador
         /\ \A x \in CPUs \ {c} : aCpu'[x] = aCpu[x] /\ deCpu'[x] = deCpu[x] /\ cpu'[x] = cpu[x]
<1>0. /\ cpu \in [CPUs -> EstadoCPU] /\ deCpu \in [CPUs -> Seq(MensajesDelCPU)]
      /\ aCpu \in [CPUs -> Seq(MensajesAlCPU)]
  BY DEF Bien, TypeOK, EstadoCPU
<1>1. t' = t /\ corto' = corto /\ cola' = cola /\ hiloIO' = hiloIO /\ manejador' = manejador
  <2>1. CASE esperarPid(c) \/ syscallConRespuesta(c) \/ syscallBloqueante(c) \/ syscallExit(c)
             \/ manejarSegFault(c) \/ confirmarSegFault(c)
    BY <2>1 DEF esperarPid, syscallConRespuesta, syscallBloqueante, syscallExit, manejarSegFault,
                confirmarSegFault, enKS, enMutex
  <2>2. CASE atenderInterrupcion(c) \/ guardarInterrupcion(c) \/ recibirRespuesta(c)
             \/ recibirBloqueado(c) \/ respuestaInesperada(c) \/ caer(c)
    BY <2>2 DEF atenderInterrupcion, guardarInterrupcion, recibirRespuesta, recibirBloqueado,
                respuestaInesperada, caer, enKS, enMutex
  <2> QED BY <2>1, <2>2 DEF ModuloCPU
<1>2. ASSUME NEW x \in CPUs \ {c}
      PROVE  aCpu'[x] = aCpu[x]
  <2>1. aCpu' = aCpu \/ Recibe(c)
    BY DEF ModuloCPU, esperarPid, syscallConRespuesta, syscallBloqueante, syscallExit, manejarSegFault,
           confirmarSegFault, atenderInterrupcion, guardarInterrupcion, recibirRespuesta,
           recibirBloqueado, respuestaInesperada, caer
  <2> QED BY <2>1, RecibeTipo
<1>3. ASSUME NEW x \in CPUs \ {c}
      PROVE  deCpu'[x] = deCpu[x]
  <2>1. deCpu' = deCpu \/ \E tipo, arg : deCpu' = Pedido(c, tipo, arg)
    BY DEF ModuloCPU, esperarPid, syscallConRespuesta, syscallBloqueante, syscallExit, manejarSegFault,
           confirmarSegFault, atenderInterrupcion, guardarInterrupcion, recibirRespuesta, DejaSyscall,
           recibirBloqueado, respuestaInesperada, caer
  <2> QED BY <1>0, <2>1 DEF Pedido
<1>4. ASSUME NEW x \in CPUs \ {c}
      PROVE  cpu'[x] = cpu[x]
  <2>1. cpu' = cpu \/ \E k2 : cpu' = [cpu EXCEPT ![c] = k2]
    BY DEF ModuloCPU, esperarPid, syscallConRespuesta, syscallBloqueante, syscallExit, manejarSegFault,
           confirmarSegFault, atenderInterrupcion, guardarInterrupcion, recibirRespuesta, DejaSyscall,
           recibirBloqueado, respuestaInesperada, caer
  <2> QED BY <1>0, <2>1
<1> QED BY <1>1, <1>2, <1>3, <1>4

\* The module of a CPU moves nobody.
LEMMA SitiosModulo ==
  ASSUME Bien, TurnoCPU, CadaUnoEnSuSitio, NEW c \in CPUs, ModuloCPU(c) \/ caer(c)
  PROVE  Mudanza
<1>1. /\ t' = t /\ corto' = corto /\ cola' = cola /\ hiloIO' = hiloIO /\ manejador' = manejador
      /\ \A x \in CPUs \ {c} : aCpu'[x] = aCpu[x] /\ deCpu'[x] = deCpu[x] /\ cpu'[x] = cpu[x]
  BY ModuloSolo
<1>2. SubeCPU(Nadie, "nada", Nadie)
  BY <1>1, ModuloConserva DEF SubeCPU, EnCPU, SiguenAvisando
<1>3. Sube(Nadie, "nada", Nadie)
  BY <1>1, <1>2, SubeMarco DEF Sube
<1> QED BY <1>1, <1>3, SinTraslado

-----------------------------------------------------------------------------
(* One place for each process.                                              *)

\* The message that the handler of c attends.
Oye(c, tipo) == deCpu[c] # << >> /\ Head(deCpu[c]).tipo = tipo

\* What the handler of c goes on with.
ManejadorDe(c) ==
  LET h == manejador[c]
      m == Head(deCpu[c])
      r == manejador'[c]
  IN
  \/ r = h \/ (r = ManejadorLibre /\ h.pc # "avisar") \/ (desconectar(c) /\ r.pc = "terminado")
  \/ /\ atenderInterrupcionAtendida(c) /\ Oye(c, "INTERRUPCION_ATENDIDA")
     /\ r.pc = "desalojado" /\ r.pid = m.pid /\ r.arg = m.arg
  \/ /\ mutex_lock_ocupado(c) /\ Oye(c, "MUTEX_LOCK")
     /\ r.pc = "avisar" /\ r.pid = m.pid /\ r.arg = m.arg
  \/ avisarBloqueado(c) /\ h.pc = "avisar" /\ r.pc = "bloquear" /\ r.pid = h.pid /\ r.arg = h.arg
  \/ mutex_unlock(c) /\ Oye(c, "MUTEX_UNLOCK") /\ r.pc = "despertar" /\ r.pid = Head(cola[m.arg])
  \/ manejar_solicitud_desalojo(c) /\ Oye(c, "MEM_ALLOC") /\ r.pc = "confirmaciones"
  \/ h.pc = "confirmaciones" /\ r.pc = "compactando"

\* The state of a handler changes in its own steps and with its connection.
LEMMA MarcoDelManejador ==
  ASSUME Bien, [Next]_vars, NEW c \in CPUs
  PROVE  ManejadorDe(c)
<1>0. manejador \in [CPUs -> EstadoManejador]
  BY DEF Bien, TypeOK, EstadoManejador
<1>1. CASE \/ UNCHANGED vars \/ planificadorLargoPlazo \/ Corto
           \/ \E p \in Procesos, x \in CPUs : Timer(p, x)
           \/ \E p \in Procesos : HiloIO(p)
  <2>1. manejador' = manejador
    BY <1>1 DEF vars, enCPU, planificadorLargoPlazo, Timer, venceQuantum, interrumpeQuantum, HiloIO,
       hiloBloquea, hiloDesbloquea, Corto, cortoEsperaCompactacion, cortoSelecciona, cortoDevuelve,
       cortoEjecuta, cortoEnvia
  <2> QED BY <2>1 DEF ManejadorDe
<1>2. ASSUME NEW x \in CPUs, ModuloCPU(x) \/ caer(x)
      PROVE  ManejadorDe(c)
  <2>1. manejador' = manejador
    BY <1>2, ModuloSolo
  <2> QED BY <2>1 DEF ManejadorDe
<1>3. ASSUME NEW x \in CPUs, NEW h, manejador' = [manejador EXCEPT ![x] = h]
      PROVE  x # c => manejador'[c] = manejador[c]
  BY <1>0, <1>3
<1>4. ASSUME NEW x \in CPUs, Manejador(x)
      PROVE  ManejadorDe(c)
  <2>1. CASE manejador' = manejador
    BY <2>1 DEF ManejadorDe
  <2>2. CASE manejador' = [manejador EXCEPT ![x] = ManejadorLibre] /\ manejador[x].pc # "avisar"
    <3>1. manejador'[c] = manejador[c] \/ (manejador'[c] = ManejadorLibre /\ manejador[c].pc # "avisar")
      BY <1>0, <2>2
    <3> QED BY <3>1 DEF ManejadorDe
  <2>3. CASE desconectar(x)
    <3>1. manejador'[c] = manejador[c] \/ (c = x /\ manejador'[c].pc = "terminado")
      BY <1>0, <2>3 DEF desconectar, EstadoManejador
    <3> QED BY <2>3, <3>1 DEF ManejadorDe
  <2>4. CASE /\ atenderInterrupcionAtendida(x) /\ Oye(x, "INTERRUPCION_ATENDIDA")
             /\ Sigue(x, "desalojado", Head(deCpu[x]).pid, Head(deCpu[x]).arg)
    <3> DEFINE r == [pc |-> "desalojado", pid |-> Head(deCpu[x]).pid, arg |-> Head(deCpu[x]).arg]
    <3>1. manejador' = [manejador EXCEPT ![x] = r]
      BY <2>4 DEF Sigue
    <3> HIDE DEF r
    <3>2. manejador'[c] = manejador[c] \/ (c = x /\ manejador'[c] = r)
      BY <1>0, <3>1
    <3> QED BY <2>4, <3>2 DEF ManejadorDe, r
  <2>5. CASE mutex_lock_ocupado(x)
    <3> DEFINE r == [pc |-> "avisar", pid |-> Head(deCpu[x]).pid, arg |-> Head(deCpu[x]).arg]
    <3>1. manejador' = [manejador EXCEPT ![x] = r] /\ Oye(x, "MUTEX_LOCK")
      BY <2>5 DEF mutex_lock_ocupado, Sigue, Atiende, Oye
    <3> HIDE DEF r
    <3>2. manejador'[c] = manejador[c] \/ (c = x /\ manejador'[c] = r)
      BY <1>0, <3>1
    <3> QED BY <2>5, <3>1, <3>2 DEF ManejadorDe, r
  <2>6. CASE mutex_unlock(x)
    <3> DEFINE r == [pc |-> "despertar", pid |-> Head(cola[Head(deCpu[x]).arg]), arg |-> Head(deCpu[x]).arg]
    <3>1. (manejador' = manejador \/ manejador' = [manejador EXCEPT ![x] = r]) /\ Oye(x, "MUTEX_UNLOCK")
      BY <2>6 DEF mutex_unlock, Sigue, Atiende, Oye
    <3> HIDE DEF r
    <3>2. manejador'[c] = manejador[c] \/ (c = x /\ manejador'[c] = r)
      BY <1>0, <3>1
    <3> QED BY <2>6, <3>1, <3>2 DEF ManejadorDe, r
  <2>7. CASE manejar_solicitud_desalojo(x)
    <3>1. PICK r : r.pc = "confirmaciones" /\ manejador' = [manejador EXCEPT ![x] = r] /\ Oye(x, "MEM_ALLOC")
      <4> DEFINE n == Cardinality({i \in DOMAIN t.listas["EXEC"] :
                        t.listas["EXEC"][i] \in {q \in Procesos \ {Head(deCpu[x]).pid} : t.fdCpu[q] # Nadie}})
                 r == [pc |-> "confirmaciones", pid |-> Head(deCpu[x]).pid, arg |-> n]
      <4>1. manejador' = [manejador EXCEPT ![x] = r] /\ Oye(x, "MEM_ALLOC")
        BY <2>7 DEF manejar_solicitud_desalojo, Sigue, Atiende, Oye
      <4>2. r.pc = "confirmaciones"
        OBVIOUS
      <4> HIDE DEF r
      <4> QED BY <4>1, <4>2
    <3>2. manejador'[c] = manejador[c] \/ (c = x /\ manejador'[c] = r)
      BY <1>0, <3>1
    <3> QED BY <2>7, <3>1, <3>2 DEF ManejadorDe
  <2>8. CASE esperarConfirmaciones(x)
    <3> DEFINE r == [pc |-> "compactando", pid |-> manejador[x].pid, arg |-> 0]
    <3>1. manejador' = [manejador EXCEPT ![x] = r] /\ manejador[x].pc = "confirmaciones"
      BY <2>8 DEF esperarConfirmaciones, Sigue
    <3> HIDE DEF r
    <3>2. manejador'[c] = manejador[c] \/ (c = x /\ manejador'[c] = r)
      BY <1>0, <3>1
    <3> QED BY <3>1, <3>2 DEF ManejadorDe, r
  <2>9. CASE atenderDone(x) \/ atenderSegFault(x) \/ mutex_create(x) \/ mutex_lock_no_existe(x)
             \/ mutex_lock_libre(x) \/ mutex_unlock_ajeno(x) \/ atenderSleep(x)
             \/ crear_proceso(x) \/ km_mem_alloc(x)
    BY <2>1, <2>9 DEF atenderDone, atenderSegFault, mutex_create, mutex_lock_no_existe, mutex_lock_libre,
         mutex_unlock_ajeno, atenderSleep, crear_proceso, km_mem_alloc
  <2>10. CASE conectar(x) \/ volverAReady(x) \/ volverAlFrente(x) \/ bloquearPorMutex(x)
              \/ despertarSiguiente(x) \/ finCompactacion(x)
    BY <2>2, <2>10 DEF conectar, volverAReady, volverAlFrente, bloquearPorMutex, despertarSiguiente,
       finCompactacion, Termina
  <2>11. CASE atenderInterrupcionAtendida(x)
    BY <2>1, <2>4, <2>11 DEF atenderInterrupcionAtendida, Atiende, Oye
  <2>12. CASE avisarBloqueado(x)
    <3> DEFINE r == [pc |-> "bloquear", pid |-> manejador[x].pid, arg |-> manejador[x].arg]
    <3>1. manejador' = [manejador EXCEPT ![x] = r] /\ manejador[x].pc = "avisar"
      BY <2>12 DEF avisarBloqueado, Sigue
    <3> HIDE DEF r
    <3>2. manejador'[c] = manejador[c] \/ (c = x /\ manejador'[c] = r)
      BY <1>0, <3>1
    <3> QED BY <2>12, <3>1, <3>2 DEF ManejadorDe, r
  <2> QED BY <1>4, <2>3, <2>5, <2>6, <2>7, <2>8, <2>9, <2>10, <2>11, <2>12 DEF Manejador
<1> QED BY <1>1, <1>2, <1>4 DEF Next

\* Only the handler itself goes on from where it is about to answer BLOQUEADO.
LEMMA QuienAvisa ==
  ASSUME Bien, [Next]_vars, \A c \in CPUs : ~desconectar(c), \A c \in CPUs : ~avisarBloqueado(c)
  PROVE  SiguenAvisando
<1> SUFFICES ASSUME NEW c \in CPUs, manejador[c].pc = "avisar"
             PROVE  manejador'[c].pc = "avisar"
  BY DEF SiguenAvisando
<1>1. ManejadorDe(c) /\ \A tipo : ~Atiende(c, tipo)
  BY MarcoDelManejador DEF Atiende
<1> QED BY <1>1 DEF ManejadorDe, atenderInterrupcionAtendida, mutex_lock_ocupado, mutex_unlock,
       manejar_solicitud_desalojo

\* Every step that loses no connection moves a process at most, to a place of its own.
LEMMA PasoMudanza ==
  ASSUME Bien, TurnoCPU, FdDeLocks, CoherenteEn({"NEW"}, t), ColasSinRepetir, CadaUnoEnSuSitio,
         [Next]_vars, \A c \in CPUs : ~desconectar(c)
  PROVE  Mudanza
<1>0. SiguenAvisando \/ \E c \in CPUs : avisarBloqueado(c)
  BY QuienAvisa
<1>6. CASE \E c \in CPUs : avisarBloqueado(c)
  BY <1>6, SitiosAvisa
<1>7. CASE UNCHANGED vars /\ SiguenAvisando
  <2>1. /\ t' = t /\ corto' = corto /\ hiloIO' = hiloIO /\ aCpu' = aCpu /\ deCpu' = deCpu
        /\ cpu' = cpu /\ manejador' = manejador /\ cola' = cola
    BY <1>7 DEF vars, enKS, enMutex, enCPU
  <2>2. Sube(Nadie, "nada", Nadie)
    BY <1>7, <2>1, SubeMarco DEF Sube
  <2> QED BY <2>1, <2>2, SinTraslado
<1>2. CASE Corto /\ SiguenAvisando
  BY <1>2, SitiosCorto
<1>3. CASE /\ SiguenAvisando
           /\ \/ planificadorLargoPlazo
              \/ \E p \in Procesos : HiloIO(p)
              \/ \E p \in Procesos, c \in CPUs : Timer(p, c)
  BY <1>3, SitiosHilos
<1>4. ASSUME NEW c \in CPUs, Manejador(c), SiguenAvisando, ~avisarBloqueado(c)
      PROVE  Mudanza
  <2>1. CASE atenderDone(c) \/ atenderSegFault(c) \/ atenderInterrupcionAtendida(c) \/ atenderSleep(c)
    BY <1>4, <2>1, SitiosLibera
  <2>2. CASE volverAReady(c) \/ volverAlFrente(c) \/ despertarSiguiente(c)
    BY <1>4, <2>2, SitiosVuelve
  <2>3. CASE \/ mutex_create(c) \/ mutex_lock_no_existe(c) \/ mutex_lock_libre(c)
             \/ mutex_unlock_ajeno(c) \/ km_mem_alloc(c) \/ manejar_solicitud_desalojo(c)
             \/ esperarConfirmaciones(c) \/ finCompactacion(c) \/ conectar(c)
    BY <1>4, <2>3, SitiosQuietos
  <2>4. CASE mutex_lock_ocupado(c) \/ bloquearPorMutex(c) \/ mutex_unlock(c)
    BY <1>4, <2>4, SitiosMutex
  <2>5. CASE crear_proceso(c)
    BY <1>4, <2>5, SitiosCrear
  <2> QED BY <1>4, <2>1, <2>2, <2>3, <2>4, <2>5 DEF Manejador
<1>5. ASSUME NEW c \in CPUs, ModuloCPU(c) \/ caer(c)
      PROVE  Mudanza
  BY <1>5, SitiosModulo
<1> QED BY <1>0, <1>2, <1>3, <1>4, <1>5, <1>6, <1>7 DEF Next

\* The PCBs name another CPU only when a process is dispatched and when it is evicted.
CambiaFd ==
  \/ t'.fdCpu = t.fdCpu
  \/ cortoEjecuta /\ t'.fdCpu = [t.fdCpu EXCEPT ![corto.p] = corto.c]
  \/ \E c \in CPUs : /\ volverAlFrente(c)
                     /\ t'.fdCpu = [t.fdCpu EXCEPT ![manejador[c].pid] = Nadie]

\* A dispatch stores in the PCB the socket of the CPU chosen.
LEMMA EjecutaFd ==
  ASSUME Bien, cortoEjecuta
  PROVE  /\ corto.p \in Procesos /\ corto.c \in CPUs
         /\ t'.fdCpu = [t.fdCpu EXCEPT ![corto.p] = corto.c]
<1>1. t \in Tabla /\ corto.p \in Procesos /\ corto.c \in CPUs
  BY DEF Bien, TypeOK, Formas, FormaCorto, cortoEjecuta
<1>2. t' = EnExec(t, corto.p, corto.c)
  BY DEF cortoEjecuta, Despachado, EnExec
<1>3. EnExec(t, corto.p, corto.c).fdCpu = [t.fdCpu EXCEPT ![corto.p] = corto.c]
  BY <1>1, DespachadoFd
<1> QED BY <1>1, <1>2, <1>3

\* No step names another CPU but those.
LEMMA PasoFd ==
  ASSUME Bien, [Next]_vars, \A c \in CPUs : ~desconectar(c)
  PROVE  CambiaFd
<1>0. t \in Tabla /\ FormaCorto /\ FormaManejador
  BY DEF Bien, TypeOK, Formas
<1>1. CASE Nada \/ cortoSelecciona
  BY <1>1 DEF Nada, cortoSelecciona, CambiaFd
<1>2. CASE cortoEjecuta
  BY <1>2, EjecutaFd DEF CambiaFd
<1>3. ASSUME NEW p \in Procesos, NEW nuevo \in EstadosNuevos, Mueve(p, nuevo)
      PROVE  CambiaFd
  <2> DEFINE u == actualizarEstado(t, p, nuevo)
  <2>1. u.fdCpu = t.fdCpu
    BY <1>0, actualizarEstadoTipo DEF EstadosNuevos, MismosPCB
  <2>2. t' = u
    BY <1>3 DEF Mueve
  <2> HIDE DEF u
  <2> QED BY <2>1, <2>2 DEF CambiaFd
<1>4. ASSUME NEW p \in Procesos, NEW nueva \in Int, CambiaPrioridad(p, nueva)
      PROVE  CambiaFd
  <2> DEFINE u == cambiarPrioridad(t, p, nueva)
  <2>1. u.fdCpu = t.fdCpu
    BY <1>0, cambiarPrioridadTipo
  <2>2. t' = u
    BY <1>4 DEF CambiaPrioridad
  <2> HIDE DEF u
  <2> QED BY <2>1, <2>2 DEF CambiaFd
<1>5. ASSUME NEW p \in Procesos, Crea(p)
      PROVE  CambiaFd
  <2> DEFINE s == Append(t.listas["NEW"], p)
  <2>1. t' = [t EXCEPT !.estado[p] = "NEW", !.listas["NEW"] = s]
    BY <1>5 DEF Crea
  <2> HIDE DEF s
  <2>2. t'.fdCpu = t.fdCpu
    BY <1>0, <2>1 DEF Tabla
  <2> QED BY <2>2 DEF CambiaFd
<1>6. ASSUME NEW c \in CPUs, volverAlFrente(c)
      PROVE  CambiaFd
  <2>1. manejador[c].pid \in Procesos
    BY <1>0, <1>6 DEF volverAlFrente, FormaManejador
  <2>2. t' = alFrenteDeReady(t, manejador[c].pid)
    BY <1>6 DEF volverAlFrente
  <2>3. alFrenteDeReady(t, manejador[c].pid).fdCpu = [t.fdCpu EXCEPT ![manejador[c].pid] = Nadie]
    BY <1>0, <2>1, alFrenteTipo
  <2> QED BY <1>6, <2>2, <2>3 DEF CambiaFd
<1>7. CambiaLaTabla
  BY CambioDeTabla
<1> QED BY <1>1, <1>2, <1>3, <1>4, <1>5, <1>6, <1>7 DEF CambiaLaTabla

\* The queues change when a mutex is locked behind another, and when one is handed over.
LEMMA MarcoDeColas ==
  ASSUME [Next]_vars
  PROVE  /\ cola' = cola \/ \E c \in CPUs : mutex_lock_ocupado(c) \/ mutex_unlock(c)
         /\ adelantado' = adelantado \/ \E c \in CPUs : mutex_unlock(c)
<1>1. CASE \/ UNCHANGED vars \/ planificadorLargoPlazo \/ Corto
           \/ \E p \in Procesos, x \in CPUs : Timer(p, x)
           \/ \E p \in Procesos : HiloIO(p)
  BY <1>1 DEF vars, enMutex, planificadorLargoPlazo, Timer, venceQuantum, interrumpeQuantum, HiloIO,
     hiloBloquea, hiloDesbloquea, Corto, cortoEsperaCompactacion, cortoSelecciona, cortoDevuelve,
     cortoEjecuta, cortoEnvia
<1>2. CASE \E c \in CPUs : ModuloCPU(c) \/ caer(c)
  BY <1>2 DEF ModuloCPU, caer, esperarPid, syscallConRespuesta, syscallBloqueante, enMutex,
     syscallExit, manejarSegFault, confirmarSegFault, atenderInterrupcion, guardarInterrupcion,
     recibirRespuesta, recibirBloqueado, respuestaInesperada
<1>3. CASE \E c \in CPUs : Manejador(c)
  BY <1>3 DEF Manejador, conectar, desconectar, atenderDone, atenderSegFault, enMutex,
     atenderInterrupcionAtendida, volverAReady, volverAlFrente, mutex_create,
     mutex_lock_no_existe, mutex_lock_libre, mutex_lock_ocupado, avisarBloqueado, bloquearPorMutex,
     mutex_unlock_ajeno, despertarSiguiente, atenderSleep, crear_proceso,
     km_mem_alloc, manejar_solicitud_desalojo, esperarConfirmaciones, finCompactacion
<1> QED BY <1>1, <1>2, <1>3 DEF Next

\* An order that holds after a step held before it: what breaks it is never mended.
LEMMA OrdenQueda ==
  ASSUME Bien, [Next]_vars, Ordenado'
  PROVE  /\ Ordenado /\ \A c \in CPUs : ~desconectar(c)
         /\ \A c \in CPUs : mutex_unlock(c) => cola' = cola \/ ~SinBloquear(Head(cola[Head(deCpu[c]).arg]))
<1>1. SinDesconexiones /\ \A c \in CPUs : ~desconectar(c)
  BY DesconectadoQueda DEF Ordenado
<1>2. ASSUME NEW c \in CPUs, mutex_unlock(c)
      PROVE  ~adelantado /\ (cola' = cola \/ ~SinBloquear(Head(cola[Head(deCpu[c]).arg])))
  <2>1. ~adelantado' /\ adelantado \in BOOLEAN
    BY DEF Ordenado, SinAdelantos, Bien, TypeOK
  <2> QED BY <1>2, <2>1 DEF mutex_unlock
<1>3. ~adelantado
  BY <1>2, MarcoDeColas DEF Ordenado, SinAdelantos
<1> QED BY <1>1, <1>2, <1>3 DEF Ordenado, SinAdelantos

\* Who is in the queue of a mutex, and nowhere else, keeps the CPU of its PCB.
LEMMA EncoladoMismaCPU ==
  ASSUME Bien, CadaUnoEnSuSitio, [Next]_vars, \A c \in CPUs : ~desconectar(c),
         NEW p \in Procesos, NEW m \in Mutexes, EnCola(p, m)
  PROVE  t'.fdCpu[p] = t.fdCpu[p]
<1>0. t.fdCpu \in [Procesos -> CPUs \cup {Nadie}] /\ FormaManejador /\ FormaCorto
  BY DEF Bien, TypeOK, Tabla, Formas
<1>1. CambiaFd
  BY PasoFd
<1>2. \A s, z : EnSitio(p, s, z) => s = "cola"
  <2>1. EnSitio(p, "cola", m)
    BY DEF EnSitio
  <2> QED BY <2>1 DEF CadaUnoEnSuSitio, UnSitio
<1>3. cortoEjecuta => p # corto.p
  <2>1. cortoEjecuta => EnSitio(corto.p, "corto", Nadie)
    BY DEF cortoEjecuta, EnSitio, EsElegido
  <2> QED BY <1>2, <2>1
<1>4. \A c \in CPUs : volverAlFrente(c) => p # manejador[c].pid
  <2>1. \A c \in CPUs : volverAlFrente(c) => EnSitio(manejador[c].pid, "manejador", c)
    BY DEF volverAlFrente, EnSitio, EnManejador
  <2> QED BY <1>2, <2>1
<1> QED BY <1>0, <1>1, <1>3, <1>4 DEF CambiaFd

\* A handler that has queued its process finds it in the queue until it has blocked it.
LEMMA PasoAvisos ==
  ASSUME Bien, CadaUnoEnSuSitio, FdDeQuienLoTiene, ColasSinRepetir, Avisos, [Next]_vars, Ordenado'
  PROVE  Avisos'
<1>0. /\ manejador \in [CPUs -> EstadoManejador] /\ cola \in [Mutexes -> Seq(Procesos)] /\ FormaManejador
      /\ t.fdCpu \in [Procesos -> CPUs \cup {Nadie}]
  <2>1. TypeOK /\ FormaManejador
    BY DEF Bien, Formas
  <2>2. manejador \in [CPUs -> EstadoManejador]
    BY <2>1 DEF TypeOK, EstadoManejador
  <2> QED BY <2>1, <2>2 DEF TypeOK, Tabla
<1>1. \A c \in CPUs : ~desconectar(c)
  BY OrdenQueda
\* Where a handler in the call comes from.
<1>2. ASSUME NEW c \in CPUs, EnLaLlamada(c)', ~mutex_lock_ocupado(c)
      PROVE  /\ EnLaLlamada(c) /\ manejador'[c].pid = manejador[c].pid /\ manejador'[c].arg = manejador[c].arg
             /\ manejador'[c].pc = "avisar" => manejador[c].pc = "avisar"
  <2>1. ManejadorDe(c)
    BY MarcoDelManejador
  <2> QED BY <1>2, <2>1 DEF ManejadorDe, EnLaLlamada, ManejadorLibre
<1>3. ASSUME NEW c \in CPUs, mutex_lock_ocupado(c)
      PROVE  /\ EnSitio(manejador'[c].pid, "cpu", c) /\ manejador'[c].pid \in Procesos
             /\ Aviso(c)'
             /\ \A m \in Mutexes : \A p : Contains(cola[m], p) => Contains(cola'[m], p)
             /\ \A x \in CPUs : x # c => manejador'[x] = manejador[x]
  <2>1. PICK P \in Procesos, m \in Mutexes : P = Head(deCpu[c]).pid /\ m = Head(deCpu[c]).arg
    BY <1>3, LockOcupadoEfecto
  <2>2. cola' = [cola EXCEPT ![m] = Append(cola[m], P)] /\ t'.fdCpu = t.fdCpu
    BY <1>3, <2>1, LockOcupadoEfecto
  <2>3. Sigue(c, "avisar", P, m) /\ Atiende(c, "MUTEX_LOCK")
    BY <1>3, <2>1 DEF mutex_lock_ocupado
  <2>4. /\ manejador'[c].pid = P /\ manejador'[c].arg = m
        /\ \A x \in CPUs : x # c => manejador'[x] = manejador[x]
    BY <1>0, <2>3 DEF Sigue
  <2>5. EnSitio(P, "cpu", c)
    BY <2>1, <2>3, AtiendeSitio
  <2>6. t.fdCpu[P] = c
    BY <2>5 DEF EnSitio, FdDeQuienLoTiene
  <2>7. \A n \in Mutexes : cola'[n] = IF n = m THEN Append(cola[m], P) ELSE cola[n]
    BY <1>0, <2>2
  <2>8. \A x : Contains(Append(cola[m], P), x) <=> Contains(cola[m], x) \/ x = P
    BY <1>0, ContieneAppend
  <2>9. (\A n \in Mutexes : \A p : Contains(cola[n], p) => Contains(cola'[n], p)) /\ Contains(cola'[m], P)
    BY <2>7, <2>8
  <2>10. Aviso(c)'
    BY <2>2, <2>4, <2>6, <2>9 DEF Aviso, EnCola
  <2> QED BY <2>4, <2>5, <2>9, <2>10
\* Who is in the call is in the hands of no CPU.
<1>4. ASSUME NEW c \in CPUs, EnLaLlamada(c)
      PROVE  /\ manejador[c].pid \in Procesos /\ manejador[c].arg \in Mutexes
             /\ EnCola(manejador[c].pid, manejador[c].arg)
             /\ \A x : ~EnSitio(manejador[c].pid, "cpu", x)
  <2>1. manejador[c].pid \in Procesos /\ Aviso(c)
    BY <1>0, <1>4 DEF FormaManejador, EnLaLlamada, Avisos
  <2>2. EnSitio(manejador[c].pid, "cola", manejador[c].arg)
    BY <2>1 DEF Aviso, EnSitio
  <2> QED BY <2>1, <2>2 DEF Aviso, CadaUnoEnSuSitio, UnSitio
<1>5. ASSUME NEW c \in CPUs, EnLaLlamada(c)
      PROVE  Contains(cola'[manejador[c].arg], manejador[c].pid)
  <2>5. PICK p \in Procesos, m \in Mutexes : p = manejador[c].pid /\ m = manejador[c].arg
    BY <1>4, <1>5
  <2>0. Contains(cola[m], p) /\ SinBloquear(p)
    BY <1>4, <1>5, <2>5 DEF EnLaLlamada, SinBloquear, EnCola
  <2>1. CASE \E x \in CPUs : mutex_lock_ocupado(x)
    BY <1>3, <2>0, <2>1, <2>5
  <2>2. ASSUME NEW x \in CPUs, mutex_unlock(x)
        PROVE  Contains(cola'[m], p)
    <3>1. PICK n \in Mutexes : n = Head(deCpu[x]).arg
      BY <2>2, UnlockEfecto
    <3>2. cola' = cola \/ (cola[n] # << >> /\ cola' = [cola EXCEPT ![n] = Tail(cola[n])] /\ Head(cola[n]) # p)
      <4>1. cola' = cola \/ (cola[n] # << >> /\ cola' = [cola EXCEPT ![n] = Tail(cola[n])])
        BY <2>2, <3>1, UnlockEfecto
      <4>2. cola' = cola \/ ~SinBloquear(Head(cola[n]))
        BY <2>2, <3>1, OrdenQueda
      <4> QED BY <2>0, <4>1, <4>2
    <3>3. CASE cola' = cola
      BY <2>0, <3>3
    <3>4. CASE cola[n] # << >> /\ cola' = [cola EXCEPT ![n] = Tail(cola[n])] /\ Head(cola[n]) # p
      <4>1. \A q : Contains(Tail(cola[n]), q) <=> Contains(cola[n], q) /\ q # Head(cola[n])
        <5> DEFINE s == cola[n]
        <5>1. s \in Seq(Procesos) /\ s # << >> /\ SinRepetir(s)
          BY <1>0, <3>4 DEF ColasSinRepetir
        <5> HIDE DEF s
        <5>2. \A q : Contains(Tail(s), q) <=> Contains(s, q) /\ q # Head(s)
          BY <5>1, ContieneTail DEF SinRepetir
        <5> QED BY <5>2 DEF s
      <4> QED BY <1>0, <2>0, <3>4, <4>1
    <3> QED BY <3>2, <3>3, <3>4
  <2>3. CASE cola' = cola
    BY <2>0, <2>3, <2>5
  <2>4. Contains(cola'[m], p)
    BY <2>1, <2>2, <2>3, <2>5, MarcoDeColas
  <2> QED BY <2>4, <2>5
<1>6. ASSUME NEW c \in CPUs, EnLaLlamada(c)'
      PROVE  Aviso(c)'
  <2>1. CASE mutex_lock_ocupado(c)
    BY <1>3, <2>1
  <2>2. CASE ~mutex_lock_ocupado(c)
    <3>1. /\ EnLaLlamada(c) /\ manejador'[c].pid = manejador[c].pid /\ manejador'[c].arg = manejador[c].arg
          /\ manejador'[c].pc = "avisar" => manejador[c].pc = "avisar"
      BY <1>2, <1>6, <2>2
    <3>2. /\ manejador[c].pid \in Procesos /\ manejador[c].arg \in Mutexes
          /\ EnCola(manejador[c].pid, manejador[c].arg)
          /\ Contains(cola'[manejador[c].arg], manejador[c].pid)
      BY <1>4, <1>5, <3>1
    <3>3. t'.fdCpu[manejador[c].pid] = t.fdCpu[manejador[c].pid]
      BY <1>1, <3>2, EncoladoMismaCPU
    <3>4. manejador[c].pc = "avisar" => t.fdCpu[manejador[c].pid] = c
      BY <3>1 DEF Avisos, Aviso
    <3> QED BY <3>1, <3>2, <3>3, <3>4 DEF Aviso, EnCola
  <2> QED BY <2>1, <2>2
<1>7. ASSUME NEW c \in CPUs, NEW d \in CPUs, EnLaLlamada(c)', EnLaLlamada(d)',
             manejador'[c].pid = manejador'[d].pid
      PROVE  c = d
  <2>1. CASE ~mutex_lock_ocupado(c) /\ ~mutex_lock_ocupado(d)
    BY <1>2, <1>7, <2>1 DEF Avisos
  <2>2. ASSUME NEW x \in CPUs, NEW y \in CPUs, mutex_lock_ocupado(x), x # y, EnLaLlamada(y)',
               manejador'[x].pid = manejador'[y].pid
        PROVE  FALSE
    <3>1. EnSitio(manejador'[x].pid, "cpu", x) /\ manejador'[y] = manejador[y]
      BY <1>3, <2>2
    <3>2. EnLaLlamada(y)
      BY <2>2, <3>1 DEF EnLaLlamada
    <3> QED BY <1>4, <2>2, <3>1, <3>2
  <2> QED BY <1>7, <2>1, <2>2
<1> QED BY <1>6, <1>7 DEF Avisos

\* A process is queued once: it is not in the hands of its CPU and in a queue.
LEMMA PasoColas ==
  ASSUME Bien, CadaUnoEnSuSitio, ColasSinRepetir, [Next]_vars
  PROVE  ColasSinRepetir'
<1>0. cola \in [Mutexes -> Seq(Procesos)]
  BY DEF Bien, TypeOK
<1>1. ASSUME NEW c \in CPUs, mutex_lock_ocupado(c)
      PROVE  ColasSinRepetir'
  <2> DEFINE p == Head(deCpu[c]).pid
             m == Head(deCpu[c]).arg
             s == Append(cola[m], p)
  <2>1. p \in Procesos /\ m \in Mutexes /\ cola' = [cola EXCEPT ![m] = s]
    BY <1>1, LockOcupadoEfecto
  <2>2. EnSitio(p, "cpu", c)
    BY <1>1, AtiendeSitio DEF mutex_lock_ocupado
  <2> HIDE DEF p, m
  <2>3. ~Contains(cola[m], p)
    <3>1. Contains(cola[m], p) => EnSitio(p, "cola", m)
      BY <2>1 DEF EnSitio, EnCola
    <3> QED BY <2>1, <2>2, <3>1 DEF CadaUnoEnSuSitio, UnSitio
  <2>4. SinRepetir(s)
    <3>1. cola[m] \in Seq(Procesos) /\ \A i, j \in 1..Len(cola[m]) : cola[m][i] = cola[m][j] => i = j
      BY <1>0, <2>1 DEF ColasSinRepetir, SinRepetir
    <3>2. \A i, j \in 1..Len(s) : s[i] = s[j] => i = j
      BY <2>1, <2>3, <3>1, ContieneAppend
    <3> QED BY <3>2 DEF SinRepetir
  <2> HIDE DEF s
  <2> QED BY <1>0, <2>1, <2>4 DEF ColasSinRepetir
<1>2. ASSUME NEW c \in CPUs, mutex_unlock(c)
      PROVE  ColasSinRepetir'
  <2> DEFINE m == Head(deCpu[c]).arg
             s == Tail(cola[m])
  <2>1. m \in Mutexes /\ (cola' = cola \/ (cola[m] # << >> /\ cola' = [cola EXCEPT ![m] = s]))
    BY <1>2, UnlockEfecto
  <2> HIDE DEF m
  <2>2. ASSUME cola[m] # << >>
        PROVE  SinRepetir(s)
    <3>1. cola[m] \in Seq(Procesos) /\ \A i, j \in 1..Len(cola[m]) : cola[m][i] = cola[m][j] => i = j
      BY <1>0, <2>1 DEF ColasSinRepetir, SinRepetir
    <3>2. \A i, j \in 1..Len(s) : s[i] = s[j] => i = j
      BY <2>2, <3>1, ContieneTail
    <3> QED BY <3>2 DEF SinRepetir
  <2> HIDE DEF s
  <2> QED BY <1>0, <2>1, <2>2 DEF ColasSinRepetir
<1>3. ASSUME NEW c \in CPUs, mutex_lock_libre(c)
      PROVE  cola' = cola
  BY <1>3 DEF mutex_lock_libre
<1>4. CASE ~\E c \in CPUs : mutex_lock_libre(c) \/ mutex_lock_ocupado(c) \/ mutex_unlock(c)
  BY <1>4, MarcoPrioridad DEF ColasSinRepetir
<1> QED BY <1>1, <1>2, <1>3, <1>4 DEF ColasSinRepetir


\* Only the short-term scheduler changes its own state.
LEMMA CortoSolo ==
  ASSUME [Next]_vars
  PROVE  Corto \/ corto' = corto
<1>1. CASE \/ UNCHANGED vars \/ planificadorLargoPlazo
           \/ \E p \in Procesos, c \in CPUs : Timer(p, c)
           \/ \E p \in Procesos : HiloIO(p)
  BY <1>1 DEF vars, planificadorLargoPlazo, Timer, venceQuantum, interrumpeQuantum, HiloIO,
     hiloBloquea, hiloDesbloquea
<1>2. CASE \E c \in CPUs : ModuloCPU(c) \/ caer(c)
  BY <1>2 DEF ModuloCPU, caer, esperarPid, syscallConRespuesta, syscallBloqueante,
     syscallExit, manejarSegFault, confirmarSegFault, atenderInterrupcion, guardarInterrupcion,
     recibirRespuesta, recibirBloqueado, respuestaInesperada
<1>3. ASSUME NEW c \in CPUs, Manejador(c)
      PROVE  corto' = corto
  BY <1>3 DEF Manejador, conectar, desconectar, atenderDone, atenderSegFault,
     atenderInterrupcionAtendida, volverAReady, volverAlFrente, mutex_create,
     mutex_lock_no_existe, mutex_lock_libre, mutex_lock_ocupado, avisarBloqueado, bloquearPorMutex,
     mutex_unlock_ajeno, mutex_unlock, despertarSiguiente, atenderSleep, crear_proceso,
     km_mem_alloc, manejar_solicitud_desalojo, esperarConfirmaciones, finCompactacion
<1> QED BY <1>1, <1>2, <1>3 DEF Next

\* The PCB of a process keeps naming the CPU that has it.
LEMMA PasoFdDeQuien ==
  ASSUME Bien, CadaUnoEnSuSitio, FdDeQuienLoTiene, Mudanza, [Next]_vars, \A c \in CPUs : ~desconectar(c)
  PROVE  FdDeQuienLoTiene'
<1>0. t.fdCpu \in [Procesos -> CPUs \cup {Nadie}] /\ FormaManejador /\ FormaCorto
  BY DEF Bien, TypeOK, Tabla, Formas
<1>1. CambiaFd
  BY PasoFd
<1>2. ASSUME NEW x \in CPUs, volverAlFrente(x)
      PROVE  manejador[x].pid \in Procesos /\ EnSitio(manejador[x].pid, "manejador", x)
  BY <1>0, <1>2 DEF volverAlFrente, FormaManejador, EnSitio, EnManejador
<1>3. corto.pc \in {"ejecutar", "enviar"} => corto.p \in Procesos /\ EnSitio(corto.p, "corto", Nadie)
  BY <1>0 DEF FormaCorto, EnSitio, EsElegido
<1>4. ASSUME NEW c \in CPUs, NEW p \in Procesos, EnCPU(p, c)'
      PROVE  t'.fdCpu[p] = c
  <2>1. CASE EnCPU(p, c)
    <3>1. EnSitio(p, "cpu", c) /\ t.fdCpu[p] = c
      BY <2>1 DEF EnSitio, FdDeQuienLoTiene
    <3>2. CASE t'.fdCpu = t.fdCpu
      BY <3>1, <3>2
    <3>3. CASE cortoEjecuta
      <4>1. p # corto.p
        BY <1>3, <3>1, <3>3 DEF cortoEjecuta, CadaUnoEnSuSitio, UnSitio
      <4>2. t'.fdCpu = [t.fdCpu EXCEPT ![corto.p] = corto.c]
        BY <3>3, EjecutaFd
      <4> QED BY <1>0, <3>1, <4>1, <4>2
    <3>4. ASSUME NEW x \in CPUs, volverAlFrente(x),
                 t'.fdCpu = [t.fdCpu EXCEPT ![manejador[x].pid] = Nadie]
          PROVE  t'.fdCpu[p] = c
      <4>1. p # manejador[x].pid
        BY <1>2, <3>1, <3>4 DEF CadaUnoEnSuSitio, UnSitio
      <4> QED BY <1>0, <3>1, <3>4, <4>1
    <3> QED BY <1>1, <3>2, <3>3, <3>4 DEF CambiaFd
  <2>2. CASE cortoEnvia /\ p = corto.p /\ c = corto.c
    <3>1. t' = t /\ corto.pc = "enviar"
      BY <2>2 DEF cortoEnvia, enKS
    <3> QED BY <2>2, <3>1 DEF FdDeQuienLoTiene
  <2> QED BY <1>4, <2>1, <2>2 DEF Mudanza, Llegan
<1>5. ASSUME corto'.pc = "enviar"
      PROVE  t'.fdCpu[corto'.p] = corto'.c
  <2>1. CASE cortoEjecuta
    <3>1. t'.fdCpu = [t.fdCpu EXCEPT ![corto.p] = corto.c] /\ corto.p \in Procesos
      BY <2>1, EjecutaFd
    <3>2. corto'.p = corto.p /\ corto'.c = corto.c
      BY <2>1 DEF cortoEjecuta, Bien, TypeOK
    <3> QED BY <1>0, <3>1, <3>2
  <2>2. CASE cortoEsperaCompactacion \/ cortoSelecciona \/ cortoDevuelve \/ cortoEnvia
    <3>1. corto'.pc # "enviar"
      BY <2>2 DEF cortoEsperaCompactacion, cortoSelecciona, cortoDevuelve, cortoEnvia, CortoEnReposo,
         Bien, TypeOK
    <3> QED BY <1>5, <3>1
  <2>3. CASE corto' = corto
    <3>1. t.fdCpu[corto.p] = corto.c /\ EnSitio(corto.p, "corto", Nadie) /\ corto.p \in Procesos
      BY <1>3, <1>5, <2>3 DEF FdDeQuienLoTiene
    <3>2. CASE t'.fdCpu = t.fdCpu
      BY <2>3, <3>1, <3>2
    <3>3. ASSUME NEW x \in CPUs, volverAlFrente(x),
                 t'.fdCpu = [t.fdCpu EXCEPT ![manejador[x].pid] = Nadie]
          PROVE  t'.fdCpu[corto.p] = corto.c
      <4>1. corto.p # manejador[x].pid
        BY <1>2, <3>1, <3>3 DEF CadaUnoEnSuSitio, UnSitio
      <4> QED BY <1>0, <3>1, <3>3, <4>1
    <3> QED BY <1>1, <2>1, <2>3, <3>2, <3>3 DEF CambiaFd
  <2> QED BY <2>1, <2>2, <2>3, CortoSolo DEF Corto
<1> QED BY <1>4, <1>5 DEF FdDeQuienLoTiene

\* The calls to a mutex come from the CPU that the PCB names: mutex_lock answers to it.
LEMMA LocksDesdeSuCPU ==
  ASSUME Bien, TurnoCPU, FdDeQuienLoTiene, Avisos
  PROVE  FdDeLocks
<1>1. ASSUME NEW c \in CPUs, NEW i \in 1..Len(deCpu[c])
      PROVE  t.fdCpu[deCpu[c][i].pid] = c
  <2>1. deCpu[c] \in Seq(MensajesDelCPU)
    BY DEF Bien, TypeOK
  <2>2. deCpu[c][i].pid \in Procesos
    <3>1. deCpu[c][i] \in MensajesDelCPU
      BY <1>1, <2>1, ElementOfSeq
    <3> QED BY <3>1 DEF MensajesDelCPU
  <2>3. manejador[c].pc # "avisar"
    <3>1. manejador[c].pc = "avisar" => deCpu[c] = << >>
      BY DEF TurnoCPU, TurnoDe, Turno
    <3> QED BY <3>1
  <2>4. EnCPU(deCpu[c][i].pid, c)
    BY <2>3 DEF EnCPU, EnLaCPU, EnPedido
  <2> QED BY <2>2, <2>4 DEF FdDeQuienLoTiene
<1> QED BY <1>1 DEF FdDeLocks, Avisos, Aviso, EnLaLlamada


-----------------------------------------------------------------------------
(* The invariant.                                                           *)

\* Who is evicted is in the hands of its handler, so it is in no list of NEW or READY.
LEMMA DesalojadoFuera ==
  ASSUME Bien, CadaUnoEnSuSitio, NEW c \in CPUs, volverAlFrente(c)
  PROVE  t.estado[manejador[c].pid] \notin {"NEW", "READY"}
<1> DEFINE p == manejador[c].pid
<1>1. p \in Procesos /\ EnSitio(p, "manejador", c)
  BY DEF Bien, Formas, volverAlFrente, FormaManejador, EnSitio, EnManejador
<1> HIDE DEF p
<1>2. \A s, z : EnSitio(p, s, z) => s = "manejador"
  BY <1>1 DEF CadaUnoEnSuSitio, UnSitio
<1>3. ASSUME t.estado[p] = "NEW"
      PROVE  FALSE
  <2>1. EnSitio(p, "nuevo", Nadie)
    BY <1>3 DEF EnSitio, EsNuevo
  <2> QED BY <1>2, <2>1
<1>4. ASSUME t.estado[p] = "READY"
      PROVE  FALSE
  <2>1. EnSitio(p, "ready", Nadie) \/ EnSitio(p, "corto", Nadie)
    BY <1>4 DEF EnSitio, EsListo, EsElegido
  <2> QED BY <1>2, <2>1
<1> QED BY <1>3, <1>4 DEF p

\* Every step keeps the places.
LEMMA PasoLugares ==
  ASSUME Bien, Lugares, [Next]_vars
  PROVE  Lugares'
<1> SUFFICES ASSUME Ordenado'
             PROVE  Sitios'
  BY DEF Lugares
<1>1. Sitios /\ \A c \in CPUs : ~desconectar(c)
  BY OrdenQueda DEF Lugares
<1>2. Bien'
  BY PasoBien
<1>3. FdDeLocks
  BY <1>1, LocksDesdeSuCPU DEF Sitios
<1>4. TurnoCPU'
  BY <1>1, <1>2, <1>3, PasoTurno DEF Sitios
<1>5. Mudanza
  BY <1>1, <1>3, PasoMudanza DEF Sitios
<1>6. CadaUnoEnSuSitio'
  BY <1>5 DEF Mudanza
<1>7. ColasSinRepetir'
  BY <1>1, PasoColas DEF Sitios
<1>8. FdDeQuienLoTiene'
  BY <1>1, <1>5, PasoFdDeQuien DEF Sitios
<1>9. CoherenteEn({"NEW"}, t')
  <2>1. "EXEC" \notin {"NEW"} /\ {"NEW"} \cup {"READY"} = {"NEW", "READY"} /\ {"NEW"} \in SUBSET ConLista
    BY DEF ConLista
  <2> DEFINE L == {"NEW"}
  <2>2. \A c \in CPUs : volverAlFrente(c) => t.estado[manejador[c].pid] \notin L \cup {"READY"}
    BY <1>1, <2>1, DesalojadoFuera DEF Sitios
  <2>3. "EXEC" \notin L /\ L \in SUBSET ConLista /\ CoherenteEn(L, t)
    BY <1>1, <2>1 DEF Sitios
  <2>5. SinDesconexiones'
    BY DEF Ordenado
  <2> HIDE DEF L
  <2>4. CoherenteEn(L, t')
    BY <2>5, <2>2, <2>3, PasoCoherente
  <2> QED BY <2>4 DEF L
<1>10. Avisos'
  BY <1>1, PasoAvisos DEF Sitios
<1> QED BY <1>4, <1>6, <1>7, <1>8, <1>9, <1>10 DEF Sitios

\* The places hold initially: no CPU is connected, no thread has started.
LEMMA InitLugares ==
  ASSUME Init
  PROVE  Lugares
<1>1. TurnoCPU
  BY InitTurno
<1>2. CoherenteEn({"NEW"}, t)
  <2>1. {"NEW"} \in SUBSET ConLista
    BY DEF ConLista
  <2> QED BY <2>1, InitListas
<1>3. ASSUME NEW c \in CPUs, NEW p
      PROVE  ~EnCPU(p, c)
  <2>1. aCpu[c] = << >> /\ deCpu[c] = << >> /\ cpu[c].modo = "desconectada"
    BY DEF Init, CPUEn
  <2>2. Len(<< >>) = 0 /\ \A i \in 1..0 : FALSE
    OBVIOUS
  <2>3. ~EnCanal(aCpu[c], p) /\ ~EnPedido(deCpu[c], p)
    BY <2>1, <2>2 DEF EnCanal, EnPedido
  <2> QED BY <2>1, <2>3 DEF EnCPU, EnLaCPU, Corre
<1>4. ASSUME NEW m \in Mutexes
      PROVE  SinRepetir(cola[m]) /\ \A p : ~EnCola(p, m)
  <2>1. cola[m] = << >>
    BY DEF Init
  <2>2. Len(<< >>) = 0 /\ \A i \in 1..0 : FALSE
    OBVIOUS
  <2> QED BY <2>1, <2>2 DEF SinRepetir, EnCola, Contains
<1>5. ASSUME NEW p \in Procesos, NEW s, NEW z, EnSitio(p, s, z)
      PROVE  s = "nuevo" /\ z = Nadie /\ EsNuevo(p)
  <2>1. corto.pc = "flag" /\ ~EnIO(p) /\ ~EsElegido(p)
    BY DEF Init, CortoEnReposo, EnIO, EsElegido
  <2>2. t.estado = [q \in Procesos |-> IF q = Inicial THEN "NEW" ELSE "INEXISTENTE"]
    BY DEF Init
  <2>3. ~EsListo(p)
    BY <2>2 DEF EsListo
  <2>4. \A c \in CPUs : ~EnManejador(p, c)
    BY DEF Init, ManejadorLibre, EnManejador
  <2> QED BY <1>3, <1>4, <1>5, <2>1, <2>3, <2>4 DEF EnSitio
<1>6. CadaUnoEnSuSitio
  <2>1. ASSUME NEW p \in Procesos
        PROVE  UnSitio(p) /\ Vivo(p)
    <3>1. UnSitio(p)
      BY <1>5 DEF UnSitio
    <3>2. Vivo(p)
      BY <1>5 DEF Vivo, EsNuevo, Acabados
    <3> QED BY <3>1, <3>2
  <2> QED BY <2>1 DEF CadaUnoEnSuSitio
<1>7. FdDeQuienLoTiene
  BY <1>3 DEF FdDeQuienLoTiene, Init, CortoEnReposo
<1>8. Avisos
  BY DEF Avisos, EnLaLlamada, Init, ManejadorLibre
<1> QED BY <1>1, <1>2, <1>4, <1>6, <1>7, <1>8 DEF Lugares, Sitios, ColasSinRepetir


-----------------------------------------------------------------------------
(* What it shows.                                                           *)

\* One CPU at most is waiting for a PID in each way.
LEMMA DespachoDeLugares ==
  ASSUME Bien, TurnoCPU
  PROVE  DespachoSoloACPULibre
<1> SUFFICES ASSUME NEW c \in CPUs
             PROVE  Apariciones(cpusLibres, c) + (IF corto.c = c THEN 1 ELSE 0)
                      + Cardinality(EnViaje(c, "PID"))
                      + (IF \E p \in Procesos : Ejecuta(c, p) THEN 1 ELSE 0) <= 1
  BY DEF DespachoSoloACPULibre
<1> DEFINE libre == Contains(cpusLibres, c)
           elegida == corto.c = c
           a == aCpu[c]
           n == Apariciones(cpusLibres, c)
           m == Cardinality(EnViaje(c, "PID"))
           corre == \E p \in Procesos : Ejecuta(c, p)
<1>0. a \in Seq(MensajesAlCPU) /\ cpusLibres \in Seq(CPUs) /\ SinRepetir(cpusLibres)
  BY DEF Bien, TypeOK, TurnoCPU
<1>1. Turno(libre, elegida, a, deCpu[c], cpu[c], manejador[c])
  BY DEF TurnoCPU, TurnoDe
<1>2. n = IF libre THEN 1 ELSE 0
  BY <1>0, AparicionesUnaONinguna DEF Apariciones
<1>3. DOMAIN a = 1..Len(a)
  BY <1>0, LenProperties
<1>4. m = IF HayPid(a) THEN 1 ELSE 0
  <2> DEFINE I == EnViaje(c, "PID")
  <2>1. I = {i \in 1..Len(a) : a[i].tipo = "PID"}
    BY <1>3 DEF EnViaje
  <2>2. CASE HayPid(a)
    <3>1. PICK i \in 1..Len(a) : a[i].tipo = "PID"
      BY <2>2 DEF HayPid
    <3>2. \A j \in 1..Len(a) : a[j].tipo = "PID" => j = i
      BY <1>1, <3>1 DEF Turno, OrdenSocket
    <3>3. I = {i}
      BY <2>1, <3>1, <3>2
    <3> HIDE DEF I
    <3>4. Cardinality(I) = 1
      BY <3>3, FS_Singleton
    <3> QED BY <2>2, <3>4 DEF I
  <2>3. CASE ~HayPid(a)
    <3>1. I = {}
      BY <2>1, <2>3 DEF HayPid
    <3> HIDE DEF I
    <3>2. Cardinality(I) = 0
      BY <3>1, FS_EmptySet
    <3> QED BY <2>3, <3>2 DEF I
  <2> QED BY <2>2, <2>3
<1>5. corre => Corre(a, cpu[c])
  BY <1>3 DEF Ejecuta, EnViaje, Corre, HayBloqueado
<1>6. /\ libre \/ elegida \/ HayPid(a) => ~corre
      /\ ~(libre /\ elegida) /\ ~(libre /\ HayPid(a)) /\ ~(elegida /\ HayPid(a))
  <2> HIDE DEF corre, libre, elegida, a
  <2>1. /\ libre \/ elegida \/ HayPid(a) => ~Corre(a, cpu[c])
        /\ ~(libre /\ elegida) /\ ~(libre /\ HayPid(a)) /\ ~(elegida /\ HayPid(a))
    BY <1>1 DEF Turno
  <2> QED BY <1>5, <2>1
<1> DEFINE e == IF elegida THEN 1 ELSE 0
           r == IF corre THEN 1 ELSE 0
           pid == HayPid(a)
<1>7. /\ n \in 0..1 /\ e \in 0..1 /\ m \in 0..1 /\ r \in 0..1
      /\ (n = 0 \/ (e = 0 /\ m = 0 /\ r = 0)) /\ (e = 0 \/ (m = 0 /\ r = 0)) /\ (m = 0 \/ r = 0)
  <2> HIDE DEF corre, libre, elegida, a, n, m
  <2>1. n = IF libre THEN 1 ELSE 0
    BY <1>2
  <2>2. m = IF HayPid(a) THEN 1 ELSE 0
    BY <1>4
  <2> QED BY <1>6, <2>1, <2>2
<1> HIDE DEF n, e, m, r
<1>8. n + e + m + r <= 1
  BY <1>7
<1> QED BY <1>8 DEF n, e, m, r

\* Everything that is invariant: the types, one place for each process, and the tokens.
InvariantePlanificador ==
  /\ Bien /\ Lugares /\ TokensDeCPU
  /\ Ordenado => TokensDeReady

\* The inductive invariant of the scheduler holds initially.
LEMMA InitPlanificador ==
  ASSUME Init
  PROVE  InvariantePlanificador
<1>1. TokensDeCPU
  BY DEF Init, TokensDeCPU
<1>2. TokensDeReady
  <2>1. EnEspera = {}
    BY DEF Init, EnEspera
  <2> QED BY <2>1, FS_EmptySet DEF TokensDeReady, Init
<1> QED BY <1>1, <1>2, InitBien, InitLugares DEF InvariantePlanificador

\* And every step keeps it.
LEMMA PasoPlanificador ==
  ASSUME InvariantePlanificador, [Next]_vars
  PROVE  InvariantePlanificador'
<1>1. Bien'
  BY PasoBien DEF InvariantePlanificador
<1>2. Lugares'
  BY PasoLugares DEF InvariantePlanificador
<1>3. TokensDeCPU'
  BY PasoTokensDeCPU DEF InvariantePlanificador
<1>4. ASSUME Ordenado'
      PROVE  TokensDeReady'
  <2>1. Ordenado /\ SinDesconexiones'
    BY <1>4, OrdenQueda DEF InvariantePlanificador, Ordenado
  <2>2. CoherenteEn({"NEW"}, t) /\ {"NEW"} \in SUBSET ConLista
    BY <2>1 DEF InvariantePlanificador, Lugares, Sitios, ConLista
  <2> QED BY <2>1, <2>2, PasoTokensDeReady DEF InvariantePlanificador
<1> QED BY <1>1, <1>2, <1>3, <1>4 DEF InvariantePlanificador

\* The scheduler keeps every process in one place at most, and the PCBs, the free CPUs and
\* the semaphores agree with it, until a connection is lost or an unlock comes between the
\* queueing of a waiter and its BLOCK.
THEOREM LugaresSiempre == Spec => []InvariantePlanificador
<1>1. InvariantePlanificador /\ [Next]_vars => InvariantePlanificador'
  BY PasoPlanificador
<1> QED BY <1>1, InitPlanificador, PTL DEF Spec

\* No token of sem_hay_proceso_ready or sem_hay_cpu_libre is lost: each section that queues
\* a process or frees a CPU posts one, and the short-term scheduler takes one of each.  For
\* the READY queues this is shown until an unlock comes before the BLOCK of its waiter.
THEOREM TokensSuficientesSiempre ==
  Spec => [](TokensDeCPU /\ (SinAdelantos => TokensSuficientes))
<1>1. InvariantePlanificador => TokensDeCPU /\ (SinAdelantos => TokensSuficientes)
  <2>1. ASSUME InvariantePlanificador, SinDesconexiones, SinAdelantos
        PROVE  semReady >= Cardinality({p \in Procesos : t.estado[p] = "READY"
                                          /\ ~(corto.pc = "ejecutar" /\ corto.p = p)})
    <3> DEFINE S == {p \in Procesos : t.estado[p] = "READY" /\ ~(corto.pc = "ejecutar" /\ corto.p = p)}
    <3>1. S = EnEspera
      BY DEF EnEspera, Elegido
    <3>2. IsFiniteSet(EnEspera) /\ Cardinality(EnEspera) <= semReady /\ semReady \in Nat
      BY <2>1 DEF InvariantePlanificador, Ordenado, TokensDeReady, Bien, TypeOK
    <3>3. Cardinality(EnEspera) \in Nat
      BY <3>2, FS_CardinalityType
    <3> HIDE DEF S
    <3> QED BY <3>1, <3>2, <3>3 DEF S
  <2> QED BY <2>1 DEF TokensSuficientes, InvariantePlanificador, TokensDeCPU
<1> QED BY <1>1, LugaresSiempre, PTL

\* A PID goes only to a CPU that waits for one, while no connection is lost and no answer
\* BLOQUEADO can go to another CPU: each CPU is one of free, chosen by the short-term
\* scheduler, with a PID on its way, and executing.
THEOREM DespachoSoloACPULibreSiempre ==
  Spec => [](SinDesconexiones /\ SinAdelantos => DespachoSoloACPULibre)
<1>1. InvariantePlanificador => (SinDesconexiones /\ SinAdelantos => DespachoSoloACPULibre)
  BY DespachoDeLugares DEF InvariantePlanificador, Lugares, Sitios, Ordenado
<1> QED BY <1>1, LugaresSiempre, PTL


-----------------------------------------------------------------------------
(* What the modules of the CPUs say.                                        *)

\* An interrupt that the module of c has kept or is about to read.
EsVista(c, m) == m.tipo = "INTERRUPT" /\ (m \in cpu[c].pend \/ (aCpu[c] # << >> /\ m = Head(aCpu[c])))

\* A message of the module of c: a call of the program, its end, or the answer to an interrupt.
Dice(c, m) ==
  \/ m.tipo \in Syscalls \cup {"DONE", "SEG_FAULT"} /\ m.tipo # "INTERRUPCION_ATENDIDA"
  \/ m.tipo = "INTERRUPCION_ATENDIDA" /\ \E i : EsVista(c, i) /\ m.arg = i.arg

\* What a step of the module of c may send, keep and wait for, and why it may exit.
DicePermitido(c) ==
  deCpu'[c] = deCpu[c] \/ \E m \in MensajesDelCPU : deCpu'[c] = Append(deCpu[c], m) /\ Dice(c, m)
GuardaVistas(c) == \A i \in cpu'[c].pend : EsVista(c, i)
EsperaPermitido(c) ==
  cpu'[c].modo = "respuesta" =>
    cpu'[c].sys \in Syscalls \/ (cpu[c].modo = "respuesta" /\ cpu'[c].sys = cpu[c].sys)
CaePorMensaje(c) ==
  aCpu[c] # << >> /\ (\/ cpu[c].modo = "ejecuta" /\ Head(aCpu[c]).tipo # "INTERRUPT"
                      \/ cpu[c].modo = "respuesta" /\ cpu[c].sys \in DeMutex)
CaeBien(c) == cpu'[c].modo = "caida" => caer(c) \/ cpu[c].modo = "caida" \/ CaePorMensaje(c)
ModuloBien(c) == DicePermitido(c) /\ GuardaVistas(c) /\ EsperaPermitido(c) /\ CaeBien(c)

\* The module of a CPU sends what its program calls, and answers the interrupts it has seen.
LEMMA ModuloDice ==
  ASSUME Bien, NEW c \in CPUs, ModuloCPU(c) \/ caer(c)
  PROVE  ModuloBien(c)
<1> DEFINE e == cpu[c]
           d == deCpu[c]
           a == aCpu[c]
<1>0. /\ e \in EstadoCPU /\ cpu \in [CPUs -> EstadoCPU] /\ deCpu \in [CPUs -> Seq(MensajesDelCPU)]
      /\ a \in Seq(MensajesAlCPU) /\ d \in Seq(MensajesDelCPU) /\ e.pend \in SUBSET MensajesAlCPU
      /\ e.modo \in {"ejecuta", "respuesta", "ack"} => e.pid \in Procesos
      /\ e.modo = "respuesta" => e.sys \in ConRespuesta
      /\ \A i \in e.pend : i.tipo = "INTERRUPT"
  BY DEF Bien, TypeOK, EstadoCPU, Formas, FormaCPU
<1>1. \A i \in e.pend : EsVista(c, i)
  BY <1>0 DEF EsVista
<1>2. ASSUME NEW k2, cpu' = [cpu EXCEPT ![c] = k2]
      PROVE  cpu'[c] = k2
  BY <1>0, <1>2
<1>3. /\ CPUEn("espera").modo = "espera" /\ CPUEn("caida").modo = "caida"
      /\ CPUEn("espera").pend = {} /\ CPUEn("caida").pend = {}
      /\ \A q : [CPUEn("ejecuta") EXCEPT !.pid = q].modo = "ejecuta" /\ [CPUEn("ejecuta") EXCEPT !.pid = q].pend = {}
  BY DEF CPUEn
<1>4. ASSUME NEW tipo \in ConRespuesta \cup Bloqueantes \cup {"DONE", "SEG_FAULT", "INTERRUPCION_ATENDIDA"},
             NEW arg \in Args, deCpu' = Pedido(c, tipo, arg), e.pid \in Procesos,
             \/ tipo \in Syscalls \cup {"DONE", "SEG_FAULT"} /\ tipo # "INTERRUPCION_ATENDIDA"
             \/ tipo = "INTERRUPCION_ATENDIDA" /\ \E i : EsVista(c, i) /\ arg = i.arg
      PROVE  DicePermitido(c)
  <2> DEFINE m == Msj(tipo, e.pid, arg)
  <2>1. m \in MensajesDelCPU /\ m.tipo = tipo /\ m.arg = arg
    BY <1>4 DEF Msj, MensajesDelCPU
  <2>2. deCpu'[c] = Append(d, m)
    BY <1>0, <1>4 DEF Pedido
  <2> HIDE DEF m
  <2>3. Dice(c, m)
    BY <1>4, <2>1 DEF Dice
  <2> QED BY <2>1, <2>2, <2>3 DEF DicePermitido
<1>5. ASSUME cpu'[c].modo # "respuesta"
      PROVE  EsperaPermitido(c)
  BY <1>5 DEF EsperaPermitido
<1>6. ASSUME cpu'[c].modo \notin {"caida", "respuesta"}, cpu'[c].pend = {}
      PROVE  GuardaVistas(c) /\ EsperaPermitido(c) /\ CaeBien(c)
  BY <1>6 DEF GuardaVistas, EsperaPermitido, CaeBien
<1>7. ASSUME cpu'[c] = cpu[c]
      PROVE  GuardaVistas(c) /\ EsperaPermitido(c) /\ CaeBien(c)
  BY <1>1, <1>7 DEF GuardaVistas, EsperaPermitido, CaeBien
<1>8. ASSUME cpu' = [cpu EXCEPT ![c] = CPUEn("espera")]
      PROVE  GuardaVistas(c) /\ EsperaPermitido(c) /\ CaeBien(c)
  BY <1>2, <1>3, <1>6, <1>8
<1>9. ASSUME cpu' = [cpu EXCEPT ![c] = CPUEn("caida")], caer(c) \/ CaePorMensaje(c)
      PROVE  GuardaVistas(c) /\ EsperaPermitido(c) /\ CaeBien(c)
  BY <1>2, <1>3, <1>9 DEF GuardaVistas, EsperaPermitido, CaeBien
<1>10. ASSUME NEW q, cpu' = [cpu EXCEPT ![c] = [CPUEn("ejecuta") EXCEPT !.pid = q]]
       PROVE  GuardaVistas(c) /\ EsperaPermitido(c) /\ CaeBien(c)
  BY <1>2, <1>3, <1>6, <1>10
<1>11. deCpu' = deCpu => DicePermitido(c)
  BY DEF DicePermitido
<1>12. CASE esperarPid(c)
  BY <1>7, <1>10, <1>11, <1>12 DEF esperarPid, ModuloBien
<1>13. CASE syscallConRespuesta(c)
  <2>1. PICK s \in ConRespuesta, arg \in Args :
          /\ s \in Syscalls
          /\ deCpu' = Pedido(c, s, arg)
          /\ cpu' = [cpu EXCEPT ![c].modo = "respuesta", ![c].sys = s, ![c].arg = arg]
    BY <1>13 DEF syscallConRespuesta, ArgsDe, Args, Permitida
  <2>2. e.modo = "ejecuta"
    BY <1>13 DEF syscallConRespuesta
  <2> DEFINE k2 == [e EXCEPT !.modo = "respuesta", !.sys = s, !.arg = arg]
  <2>3. cpu' = [cpu EXCEPT ![c] = k2] /\ k2.modo = "respuesta" /\ k2.sys = s /\ k2.pend = e.pend
    BY <1>0, <2>1 DEF EstadoCPU
  <2> HIDE DEF k2
  <2>4. cpu'[c] = k2
    BY <1>2, <2>3
  <2>5. GuardaVistas(c) /\ EsperaPermitido(c) /\ CaeBien(c)
    BY <1>1, <2>1, <2>3, <2>4 DEF GuardaVistas, EsperaPermitido, CaeBien
  <2>6. DicePermitido(c)
    BY <1>0, <1>4, <2>1, <2>2 DEF ConRespuesta
  <2> QED BY <2>5, <2>6 DEF ModuloBien
<1>14. CASE syscallBloqueante(c)
  <2>1. PICK s \in Bloqueantes : s \in Syscalls /\ deCpu' = Pedido(c, s, Nadie)
    BY <1>14 DEF syscallBloqueante, Permitida
  <2>2. e.modo = "ejecuta" /\ Nadie \in Args /\ cpu' = [cpu EXCEPT ![c] = CPUEn("espera")]
    BY <1>14 DEF syscallBloqueante, Args
  <2>3. DicePermitido(c)
    BY <1>0, <1>4, <2>1, <2>2 DEF Bloqueantes
  <2> QED BY <1>8, <2>2, <2>3 DEF ModuloBien
<1>15. CASE syscallExit(c)
  <2>1. /\ e.modo = "ejecuta" /\ Nadie \in Args /\ cpu' = [cpu EXCEPT ![c] = CPUEn("espera")]
        /\ deCpu' = Pedido(c, "DONE", Nadie)
    BY <1>15 DEF syscallExit, Args
  <2>2. DicePermitido(c)
    BY <1>0, <1>4, <2>1
  <2> QED BY <1>8, <2>1, <2>2 DEF ModuloBien
<1>16. CASE manejarSegFault(c)
  <2> DEFINE k2 == [e EXCEPT !.modo = "ack"]
  <2>1. cpu' = [cpu EXCEPT ![c] = k2] /\ k2.modo = "ack" /\ k2.pend = e.pend
    BY <1>0, <1>16 DEF manejarSegFault, EstadoCPU
  <2> HIDE DEF k2
  <2>2. e.modo = "ejecuta" /\ Nadie \in Args /\ deCpu' = Pedido(c, "SEG_FAULT", Nadie)
    BY <1>16 DEF manejarSegFault, Args
  <2>3. DicePermitido(c)
    BY <1>0, <1>4, <2>2
  <2>4. cpu'[c] = k2
    BY <1>2, <2>1
  <2>5. GuardaVistas(c) /\ EsperaPermitido(c) /\ CaeBien(c)
    BY <1>1, <2>1, <2>4 DEF GuardaVistas, EsperaPermitido, CaeBien
  <2> QED BY <2>3, <2>5 DEF ModuloBien
<1>17. CASE confirmarSegFault(c) \/ recibirBloqueado(c)
  <2>1. deCpu' = deCpu /\ cpu' = [cpu EXCEPT ![c] = CPUEn("espera")]
    BY <1>17 DEF confirmarSegFault, recibirBloqueado
  <2> QED BY <1>8, <1>11, <2>1 DEF ModuloBien
<1>18. CASE atenderInterrupcion(c)
  <2>1. e.modo = "ejecuta" /\ a # << >> /\ Head(a) \in MensajesAlCPU
    BY <1>18, RecibeTipo DEF atenderInterrupcion
  <2>2. CASE /\ Head(a).tipo = "INTERRUPT" /\ deCpu' = Pedido(c, "INTERRUPCION_ATENDIDA", Head(a).arg)
             /\ cpu' = [cpu EXCEPT ![c] = CPUEn("espera")]
    <3> DEFINE m == Head(a)
    <3>1. EsVista(c, m)
      BY <2>1, <2>2 DEF EsVista
    <3>2. m.arg \in Args
      BY <2>1, <2>2 DEF MensajesAlCPU, Args
    <3>3. deCpu' = Pedido(c, "INTERRUPCION_ATENDIDA", m.arg)
      BY <2>2
    <3> HIDE DEF m
    <3>4. DicePermitido(c)
      BY <1>0, <1>4, <2>1, <3>1, <3>2, <3>3
    <3> QED BY <1>8, <2>2, <3>4 DEF ModuloBien
  <2>3. CASE deCpu' = deCpu /\ cpu' = cpu
    BY <1>7, <1>11, <2>3 DEF ModuloBien
  <2>4. CASE Head(a).tipo # "INTERRUPT" /\ deCpu' = deCpu /\ cpu' = [cpu EXCEPT ![c] = CPUEn("caida")]
    <3>1. CaePorMensaje(c)
      BY <2>1, <2>4 DEF CaePorMensaje
    <3> QED BY <1>9, <1>11, <2>4, <3>1 DEF ModuloBien
  <2> QED BY <1>18, <2>2, <2>3, <2>4 DEF atenderInterrupcion
<1>19. CASE guardarInterrupcion(c)
  <2> DEFINE k2 == [e EXCEPT !.pend = {Head(a)}]
  <2>1. /\ deCpu' = deCpu /\ e.modo = "respuesta" /\ a # << >> /\ Head(a).tipo = "INTERRUPT"
    BY <1>19, RecibeTipo DEF guardarInterrupcion
  <2>2. cpu' = [cpu EXCEPT ![c] = k2] /\ k2.modo = e.modo /\ k2.sys = e.sys /\ k2.pend = {Head(a)}
    BY <1>0, <1>19 DEF guardarInterrupcion, EstadoCPU
  <2> HIDE DEF k2
  <2>3. cpu'[c] = k2
    BY <1>2, <2>2
  <2>4. GuardaVistas(c) /\ EsperaPermitido(c) /\ CaeBien(c)
    BY <2>1, <2>2, <2>3 DEF GuardaVistas, EsperaPermitido, CaeBien, EsVista
  <2> QED BY <1>11, <2>1, <2>4 DEF ModuloBien
<1>20. CASE recibirRespuesta(c)
  <2>1. e.modo = "respuesta" /\ e.pid \in Procesos /\ DejaSyscall(c)
    BY <1>0, <1>20 DEF recibirRespuesta
  <2>2. DicePermitido(c)
    <3>1. CASE deCpu' # deCpu
      <4>1. PICK i \in e.pend : deCpu' = Pedido(c, "INTERRUPCION_ATENDIDA", i.arg)
        BY <2>1, <3>1 DEF DejaSyscall
      <4>2. i \in MensajesAlCPU /\ i.tipo = "INTERRUPT" /\ EsVista(c, i)
        BY <1>0, <1>1
      <4>3. i.arg \in Args
        BY <4>2 DEF MensajesAlCPU, Args
      <4> QED BY <1>4, <2>1, <4>1, <4>2, <4>3
    <3> QED BY <1>11, <3>1
  <2>3. GuardaVistas(c) /\ EsperaPermitido(c) /\ CaeBien(c)
    BY <1>8, <1>10, <2>1 DEF DejaSyscall
  <2> QED BY <2>2, <2>3 DEF ModuloBien
<1>21. CASE respuestaInesperada(c)
  <2>1. /\ e.modo = "respuesta" /\ e.sys \notin {"MEM_ALLOC", "INIT_PROC"} /\ a # << >> /\ deCpu' = deCpu
        /\ cpu' = [cpu EXCEPT ![c] = CPUEn("caida")]
    BY <1>21, RecibeTipo DEF respuestaInesperada, AceptaCualquiera
  <2>2. e.sys \in DeMutex
    BY <1>0, <2>1 DEF ConRespuesta, DeMutex
  <2>3. CaePorMensaje(c)
    BY <2>1, <2>2 DEF CaePorMensaje
  <2> QED BY <1>9, <1>11, <2>1, <2>3 DEF ModuloBien
<1>22. CASE caer(c)
  <2>1. deCpu' = deCpu /\ cpu' = [cpu EXCEPT ![c] = CPUEn("caida")]
    BY <1>22 DEF caer
  <2> QED BY <1>9, <1>11, <1>22, <2>1 DEF ModuloBien
<1> QED BY <1>12, <1>13, <1>14, <1>15, <1>16, <1>17, <1>18, <1>19, <1>20, <1>21, <1>22 DEF ModuloCPU


\* What the scheduler does with the two ends of the connection of c.
MarcoDe(c) ==
  /\ cpu'[c] = cpu[c] \/ (conectar(c) /\ cpu'[c] = CPUEn("espera"))
  /\ deCpu'[c] = deCpu[c] \/ (deCpu[c] # << >> /\ deCpu'[c] = Tail(deCpu[c]))

\* The state of a CPU module changes in its own steps and in its fall.
LEMMA MarcoDeCPU ==
  ASSUME Bien, [Next]_vars, NEW c \in CPUs
  PROVE  ModuloCPU(c) \/ caer(c) \/ MarcoDe(c)
<1>0. cpu \in [CPUs -> EstadoCPU]
  BY DEF Bien, TypeOK, EstadoCPU
<1>1. CASE \/ UNCHANGED vars \/ planificadorLargoPlazo \/ Corto
           \/ \E p \in Procesos, x \in CPUs : Timer(p, x)
           \/ \E p \in Procesos : HiloIO(p)
  <2>1. cpu' = cpu /\ deCpu' = deCpu
    BY <1>1 DEF vars, enCPU, planificadorLargoPlazo, Timer, venceQuantum, interrumpeQuantum, HiloIO,
       hiloBloquea, hiloDesbloquea, Corto, cortoEsperaCompactacion, cortoSelecciona, cortoDevuelve,
       cortoEjecuta, cortoEnvia
  <2> QED BY <2>1 DEF MarcoDe
<1>2. ASSUME NEW x \in CPUs, ModuloCPU(x) \/ caer(x)
      PROVE  ModuloCPU(c) \/ caer(c) \/ MarcoDe(c)
  <2>1. CASE x # c
    <3>1. cpu'[c] = cpu[c] /\ deCpu'[c] = deCpu[c]
      BY <1>2, <2>1, ModuloSolo
    <3> QED BY <3>1 DEF MarcoDe
  <2> QED BY <1>2, <2>1
<1>3. ASSUME NEW x \in CPUs, Manejador(x)
      PROVE  MarcoDe(c)
  <2>1. cpu'[c] = cpu[c] \/ (conectar(c) /\ cpu'[c] = CPUEn("espera"))
    <3>1. CASE conectar(x)
      <4>1. cpu' = [cpu EXCEPT ![x] = CPUEn("espera")]
        BY <3>1 DEF conectar
      <4> QED BY <1>0, <3>1, <4>1
    <3>2. CASE ~conectar(x)
      BY <1>3, <3>2 DEF Manejador, desconectar, atenderDone, atenderSegFault, enCPU,
         atenderInterrupcionAtendida, volverAReady, volverAlFrente, mutex_create,
         mutex_lock_no_existe, mutex_lock_libre, mutex_lock_ocupado, avisarBloqueado, bloquearPorMutex,
         mutex_unlock_ajeno, mutex_unlock, despertarSiguiente, atenderSleep, crear_proceso,
         km_mem_alloc, manejar_solicitud_desalojo, esperarConfirmaciones, finCompactacion
    <3> QED BY <3>1, <3>2
  <2>2. deCpu' = deCpu \/ \E tipo : Atiende(x, tipo)
    BY <1>3 DEF Manejador, conectar, desconectar, atenderDone, atenderSegFault, enCPU,
       atenderInterrupcionAtendida, volverAReady, volverAlFrente, mutex_create,
       mutex_lock_no_existe, mutex_lock_libre, mutex_lock_ocupado, avisarBloqueado, bloquearPorMutex,
       mutex_unlock_ajeno, mutex_unlock, despertarSiguiente, atenderSleep, crear_proceso,
       km_mem_alloc, manejar_solicitud_desalojo, esperarConfirmaciones, finCompactacion
  <2>3. deCpu'[c] = deCpu[c] \/ (deCpu[c] # << >> /\ deCpu'[c] = Tail(deCpu[c]))
    <3>1. ASSUME NEW tipo, Atiende(x, tipo)
          PROVE  deCpu'[c] = deCpu[c] \/ (deCpu[c] # << >> /\ deCpu'[c] = Tail(deCpu[c]))
      BY <3>1, AtiendeTipo
    <3> QED BY <2>2, <3>1
  <2> QED BY <2>1, <2>3 DEF MarcoDe
<1> QED BY <1>1, <1>2, <1>3 DEF Next

\* The calls that are pending are calls the programs make.
PedidosPermitidos ==
  \A c \in CPUs :
    /\ \A i \in 1..Len(deCpu[c]) :
         deCpu[c][i].tipo \in Syscalls \cup {"DONE", "SEG_FAULT", "INTERRUPCION_ATENDIDA"}
    /\ cpu[c].modo = "respuesta" => cpu[c].sys \in Syscalls
    /\ manejador[c].pc \in {"avisar", "bloquear"} => "MUTEX_LOCK" \in Syscalls
    /\ manejador[c].pc \in {"confirmaciones", "compactando"} => "MEM_ALLOC" \in Syscalls

\* A message of a CPU was there, or its module says it now.
LEMMA PedidosDe ==
  ASSUME Bien, [Next]_vars, NEW c \in CPUs, NEW i \in 1..Len(deCpu'[c])
  PROVE  (\E j \in 1..Len(deCpu[c]) : deCpu'[c][i] = deCpu[c][j]) \/ Dice(c, deCpu'[c][i])
<1> DEFINE d == deCpu[c]
           b == deCpu'[c]
<1>0. d \in Seq(MensajesDelCPU) /\ Len(d) \in Nat
  BY LenProperties DEF Bien, TypeOK
<1>1. CASE b = d
  BY <1>1
<1>2. CASE d # << >> /\ b = Tail(d)
  <2>1. Len(b) = Len(d) - 1 /\ \A j \in 1..Len(b) : b[j] = d[j + 1]
    BY <1>0, <1>2, HeadTailProperties
  <2> HIDE DEF b, d
  <2>2. i \in 1..Len(b)
    BY DEF b
  <2>3. i + 1 \in 1..Len(d) /\ b[i] = d[i + 1]
    BY <1>0, <2>1, <2>2
  <2> QED BY <2>3 DEF b, d
<1>3. ASSUME NEW m \in MensajesDelCPU, b = Append(d, m), Dice(c, m)
      PROVE  (\E j \in 1..Len(d) : b[i] = d[j]) \/ Dice(c, b[i])
  <2>1. Len(b) = Len(d) + 1 /\ b[Len(d) + 1] = m /\ \A j \in 1..Len(d) : b[j] = d[j]
    BY <1>0, <1>3, AppendProperties
  <2> HIDE DEF b, d
  <2>2. i \in 1..Len(b)
    BY DEF b
  <2>3. i \in 1..Len(d) \/ b[i] = m
    BY <1>0, <2>1, <2>2
  <2> QED BY <1>3, <2>1, <2>3
<1>4. ModuloCPU(c) \/ caer(c) \/ MarcoDe(c)
  BY MarcoDeCPU
<1>5. CASE ModuloCPU(c) \/ caer(c)
  <2>1. DicePermitido(c)
    BY <1>5, ModuloDice DEF ModuloBien
  <2> QED BY <1>1, <1>3, <2>1 DEF DicePermitido
<1>6. CASE MarcoDe(c)
  BY <1>1, <1>2, <1>6 DEF MarcoDe
<1> QED BY <1>4, <1>5, <1>6

\* A CPU asks only for the system calls of the programs, every step.
LEMMA PasoPermitidos ==
  ASSUME Bien, PedidosPermitidos, [Next]_vars
  PROVE  PedidosPermitidos'
<1> SUFFICES ASSUME NEW c \in CPUs
             PROVE  /\ \A i \in 1..Len(deCpu'[c]) :
                         deCpu'[c][i].tipo \in Syscalls \cup {"DONE", "SEG_FAULT", "INTERRUPCION_ATENDIDA"}
                    /\ cpu'[c].modo = "respuesta" => cpu'[c].sys \in Syscalls
                    /\ manejador'[c].pc \in {"avisar", "bloquear"} => "MUTEX_LOCK" \in Syscalls
                    /\ manejador'[c].pc \in {"confirmaciones", "compactando"} => "MEM_ALLOC" \in Syscalls
  BY DEF PedidosPermitidos
<1>0. deCpu[c] \in Seq(MensajesDelCPU) /\ manejador[c] \in EstadoManejador
  BY DEF Bien, TypeOK, EstadoManejador
<1>1. ASSUME NEW i \in 1..Len(deCpu'[c])
      PROVE  deCpu'[c][i].tipo \in Syscalls \cup {"DONE", "SEG_FAULT", "INTERRUPCION_ATENDIDA"}
  BY PedidosDe DEF PedidosPermitidos, Dice
<1>2. cpu'[c].modo = "respuesta" => cpu'[c].sys \in Syscalls
  <2>1. ModuloCPU(c) \/ caer(c) \/ MarcoDe(c)
    BY MarcoDeCPU
  <2>2. CASE ModuloCPU(c) \/ caer(c)
    BY <2>2, ModuloDice DEF ModuloBien, EsperaPermitido, PedidosPermitidos
  <2>3. CASE MarcoDe(c)
    BY <2>3 DEF MarcoDe, CPUEn, PedidosPermitidos
  <2> QED BY <2>1, <2>2, <2>3
<1>3. ASSUME NEW tipo, Oye(c, tipo), tipo \notin {"DONE", "SEG_FAULT", "INTERRUPCION_ATENDIDA"}
      PROVE  tipo \in Syscalls
  <2>1. 1 \in 1..Len(deCpu[c]) /\ Head(deCpu[c]) = deCpu[c][1]
    BY <1>0, <1>3, HeadTailProperties, LenProperties, EmptySeq DEF Oye
  <2> QED BY <1>3, <2>1 DEF Oye, PedidosPermitidos
<1>4. ManejadorDe(c)
  BY MarcoDelManejador
<1>5. manejador'[c].pc \in {"avisar", "bloquear"} => "MUTEX_LOCK" \in Syscalls
  <2>1. Oye(c, "MUTEX_LOCK") => "MUTEX_LOCK" \in Syscalls
    BY <1>3
  <2> QED BY <1>4, <2>1 DEF ManejadorDe, PedidosPermitidos, ManejadorLibre
<1>6. manejador'[c].pc \in {"confirmaciones", "compactando"} => "MEM_ALLOC" \in Syscalls
  <2>1. Oye(c, "MEM_ALLOC") => "MEM_ALLOC" \in Syscalls
    BY <1>3
  <2> QED BY <1>4, <2>1 DEF ManejadorDe, PedidosPermitidos, ManejadorLibre
<1> QED BY <1>1, <1>2, <1>5, <1>6

\* Initially nothing has been asked.
LEMMA InitPermitidos ==
  ASSUME Init
  PROVE  PedidosPermitidos
<1>1. ASSUME NEW c \in CPUs
      PROVE  /\ deCpu[c] = << >> /\ cpu[c].modo = "desconectada" /\ manejador[c].pc = "desconectado"
  BY DEF Init, CPUEn, ManejadorLibre
<1>2. Len(<< >>) = 0 /\ \A i \in 1..0 : FALSE
  OBVIOUS
<1> QED BY <1>1, <1>2 DEF PedidosPermitidos

-----------------------------------------------------------------------------
(* Why a module exits.                                                      *)

\* A module that is in the middle of a program reads only interrupts.
LEMMA NoCaePorMensaje ==
  ASSUME Bien, TurnoCPU, NEW c \in CPUs, CaePorMensaje(c)
  PROVE  cpu[c].modo = "respuesta" /\ cpu[c].sys \in DeMutex
<1> DEFINE a == aCpu[c]
<1>1. ASSUME cpu[c].modo = "ejecuta", a # << >>, Head(a).tipo # "INTERRUPT"
      PROVE  FALSE
  <2>1. Turno(Contains(cpusLibres, c), corto.c = c, a, deCpu[c], cpu[c], manejador[c])
    BY DEF TurnoCPU, TurnoDe
  <2>2. ~HayResp(a)
    BY <1>1, <2>1 DEF Turno
  <2>3. ~HayPid(a)
    <3>1. HayBloqueado(a) => HayResp(a)
      BY DEF HayBloqueado, HayResp, Resp
    <3>2. Corre(a, cpu[c])
      BY <1>1, <2>2, <3>1 DEF Corre
    <3> HIDE DEF a
    <3> QED BY <2>1, <3>2 DEF Turno
  <2>4. a \in Seq(MensajesAlCPU)
    BY DEF Bien, TypeOK
  <2>5. 1 \in 1..Len(a) /\ Head(a) = a[1] /\ Head(a) \in MensajesAlCPU
    BY <1>1, <2>4, HeadTailProperties, LenProperties, EmptySeq
  <2>6. Head(a).tipo \in {"PID"} \cup Resp
    BY <1>1, <2>5 DEF MensajesAlCPU, Resp
  <2> QED BY <2>2, <2>3, <2>5, <2>6 DEF HayResp, HayPid
<1> QED BY <1>1 DEF CaePorMensaje

\* What makes the module of a CPU exit that was running: a mutex call, or its machine.
SoloCaeEnMutex ==
  \A c \in CPUs :
    cpu[c].modo # "caida" /\ cpu'[c].modo = "caida" =>
      caer(c) \/ (cpu[c].modo = "respuesta" /\ cpu[c].sys \in DeMutex)

\* A CPU module exits because of a message only at a call to a mutex.
LEMMA PasoCae ==
  ASSUME Bien, TurnoCPU, [Next]_vars
  PROVE  SoloCaeEnMutex
<1>1. ASSUME NEW c \in CPUs, cpu[c].modo # "caida", cpu'[c].modo = "caida"
      PROVE  caer(c) \/ (cpu[c].modo = "respuesta" /\ cpu[c].sys \in DeMutex)
  <2>1. ModuloCPU(c) \/ caer(c) \/ MarcoDe(c)
    BY MarcoDeCPU
  <2>2. CASE ModuloCPU(c) \/ caer(c)
    BY <1>1, <2>2, ModuloDice, NoCaePorMensaje DEF ModuloBien, CaeBien
  <2>3. CASE MarcoDe(c)
    BY <1>1, <2>3 DEF MarcoDe, CPUEn
  <2> QED BY <2>1, <2>2, <2>3
<1> QED BY <1>1 DEF SoloCaeEnMutex


\* The modules that have exited.
Caidas == {c \in CPUs : cpu[c].modo = "caida"}
CaidasContadas == IsFiniteSet(Caidas) /\ Cardinality(Caidas) <= caidas

\* The machines that failed change only when one fails.
LEMMA MarcoDeCaidas ==
  ASSUME [Next]_vars
  PROVE  caidas' = caidas \/ \E c \in CPUs : caer(c)
<1>1. CASE \/ UNCHANGED vars \/ planificadorLargoPlazo \/ Corto
           \/ \E p \in Procesos, x \in CPUs : Timer(p, x)
           \/ \E p \in Procesos : HiloIO(p)
  BY <1>1 DEF vars, enCPU, planificadorLargoPlazo, Timer, venceQuantum, interrumpeQuantum, HiloIO,
     hiloBloquea, hiloDesbloquea, Corto, cortoEsperaCompactacion, cortoSelecciona, cortoDevuelve,
     cortoEjecuta, cortoEnvia
<1>2. CASE \E c \in CPUs : ModuloCPU(c)
  BY <1>2 DEF ModuloCPU, esperarPid, syscallConRespuesta, syscallBloqueante,
     syscallExit, manejarSegFault, confirmarSegFault, atenderInterrupcion, guardarInterrupcion,
     recibirRespuesta, recibirBloqueado, respuestaInesperada
<1>3. CASE \E c \in CPUs : Manejador(c)
  BY <1>3 DEF Manejador, conectar, desconectar, atenderDone, atenderSegFault, enCPU,
     atenderInterrupcionAtendida, volverAReady, volverAlFrente, mutex_create,
     mutex_lock_no_existe, mutex_lock_libre, mutex_lock_ocupado, avisarBloqueado, bloquearPorMutex,
     mutex_unlock_ajeno, mutex_unlock, despertarSiguiente, atenderSleep, crear_proceso,
     km_mem_alloc, manejar_solicitud_desalojo, esperarConfirmaciones, finCompactacion
<1> QED BY <1>1, <1>2, <1>3 DEF Next

\* Without calls to mutexes, a module exits with its machine only.
LEMMA PasoCaidas ==
  ASSUME Bien, TurnoCPU, PedidosPermitidos, CaidasContadas, [Next]_vars, Syscalls \cap DeMutex = {}
  PROVE  CaidasContadas'
<1> DEFINE A == Caidas
           B == Caidas'
<1>0. caidas \in Nat
  BY DEF Bien, TypeOK
<1>1. ASSUME NEW c \in B, c \notin A
      PROVE  caer(c)
  <2>1. c \in CPUs /\ cpu[c].modo # "caida" /\ cpu'[c].modo = "caida"
    BY <1>1 DEF Caidas
  <2>2. caer(c) \/ (cpu[c].modo = "respuesta" /\ cpu[c].sys \in DeMutex)
    BY <2>1, PasoCae DEF SoloCaeEnMutex
  <2> QED BY <2>1, <2>2 DEF PedidosPermitidos
<1>2. ASSUME NEW c \in CPUs, caer(c)
      PROVE  B \subseteq A \cup {c} /\ caidas' = caidas + 1
  <2>1. caidas' = caidas + 1
    BY <1>2 DEF caer
  <2>2. \A x \in CPUs \ {c} : cpu'[x] = cpu[x]
    BY <1>2, ModuloSolo
  <2> QED BY <2>1, <2>2 DEF Caidas
<1>3. (\A c \in CPUs : ~caer(c)) => B \subseteq A /\ caidas' = caidas
  <2>1. \A c \in B : c \in CPUs
    BY DEF Caidas
  <2> HIDE DEF A, B
  <2> QED BY <1>1, <2>1, MarcoDeCaidas
<1>4. IsFiniteSet(A) /\ Cardinality(A) <= caidas
  BY DEF CaidasContadas
<1> HIDE DEF A, B
<1>5. Cardinality(A) \in Nat
  BY <1>4, FS_CardinalityType
<1>6. IsFiniteSet(B) /\ Cardinality(B) <= caidas'
  <2>1. ASSUME NEW c \in CPUs, caer(c)
        PROVE  IsFiniteSet(B) /\ Cardinality(B) <= caidas'
    <3>1. IsFiniteSet(B) /\ Cardinality(B) <= Cardinality(A) + 1 /\ Cardinality(B) \in Nat
      <4>1. B \subseteq A \cup {c}
        BY <1>2, <2>1
      <4> QED BY <1>4, <4>1, CuentaConjunto
    <3>2. caidas' = caidas + 1
      BY <1>2, <2>1
    <3> QED BY <1>0, <1>4, <1>5, <3>1, <3>2
  <2>2. CASE \A c \in CPUs : ~caer(c)
    <3>1. IsFiniteSet(B) /\ Cardinality(B) <= Cardinality(A) /\ Cardinality(B) \in Nat
      <4>1. B \subseteq A
        BY <1>3, <2>2
      <4> QED BY <1>4, <4>1, CuentaConjunto
    <3>2. caidas' = caidas
      BY <1>3, <2>2
    <3> QED BY <1>0, <1>4, <1>5, <3>1, <3>2
  <2> QED BY <2>1, <2>2
<1> QED BY <1>6 DEF CaidasContadas, B

\* Without MUTEX_LOCK nobody waits at a mutex, so the turn needs no condition.
LEMMA SinLocks ==
  ASSUME PedidosPermitidos, "MUTEX_LOCK" \notin Syscalls
  PROVE  FdDeLocks
BY DEF PedidosPermitidos, FdDeLocks

\* If no program locks a mutex, the turn of the CPUs does not depend on the connections.
InvarianteSinLocks == Bien /\ PedidosPermitidos /\ TurnoCPU

\* The invariant without MUTEX_LOCK, every step.
LEMMA PasoSinLocks ==
  ASSUME InvarianteSinLocks, [Next]_vars, "MUTEX_LOCK" \notin Syscalls
  PROVE  InvarianteSinLocks'
<1>1. Bien' /\ PedidosPermitidos'
  BY PasoBien, PasoPermitidos DEF InvarianteSinLocks
<1>2. TurnoCPU'
  BY <1>1, SinLocks, PasoTurno DEF InvarianteSinLocks
<1> QED BY <1>1, <1>2 DEF InvarianteSinLocks

\* And initially.
LEMMA InitSinLocks ==
  ASSUME Init
  PROVE  InvarianteSinLocks
BY InitBien, InitPermitidos, InitTurno DEF InvarianteSinLocks

\* A PID goes only to a CPU that waits for one, if no program locks a mutex, whichever
\* connections are lost: mutex_lock is the only call that answers to the CPU of a PCB, and
\* that reads it again after releasing mutex_listas.
THEOREM DespachoSinLocks ==
  ASSUME "MUTEX_LOCK" \notin Syscalls
  PROVE  Spec => []DespachoSoloACPULibre
<1>1. InvarianteSinLocks /\ [Next]_vars => InvarianteSinLocks'
  BY PasoSinLocks
<1>2. InvarianteSinLocks => DespachoSoloACPULibre
  BY DespachoDeLugares DEF InvarianteSinLocks
<1> QED BY <1>1, <1>2, InitSinLocks, PTL DEF Spec

\* No module exits because of a message, if no program calls a mutex, whichever machines
\* fail: an interrupt that comes late is read by esperar_pid, and an answer comes in its turn.
THEOREM CPUsSiguenElProtocoloSiempre ==
  ASSUME Syscalls \cap DeMutex = {}
  PROVE  Spec => []CPUsSiguenElProtocolo
<1>1. "MUTEX_LOCK" \notin Syscalls
  BY DEF DeMutex
<1>2. Init => InvarianteSinLocks /\ CaidasContadas
  <2> SUFFICES ASSUME Init
               PROVE  InvarianteSinLocks /\ CaidasContadas
    OBVIOUS
  <2>1. Caidas = {}
    BY DEF Init, Caidas, CPUEn
  <2>2. CaidasContadas
    BY <2>1, FS_EmptySet DEF CaidasContadas, Init
  <2> QED BY <2>2, InitSinLocks
<1>3. InvarianteSinLocks /\ CaidasContadas /\ [Next]_vars => (InvarianteSinLocks /\ CaidasContadas)'
  BY <1>1, PasoSinLocks, PasoCaidas DEF InvarianteSinLocks
<1>4. CaidasContadas => CPUsSiguenElProtocolo
  BY DEF CaidasContadas, CPUsSiguenElProtocolo, Caidas
<1> QED BY <1>2, <1>3, <1>4, PTL DEF Spec

\* Whatever the programs call, the modules follow the protocol but in the calls to a mutex,
\* that take an interrupt or an ERROR for the end of the world.  This is so while no
\* connection is lost and no unlock overtakes a BLOCK: the BLOQUEADO that then goes to
\* another CPU may find it at any instruction.
THEOREM SoloCaeEnMutexSiempre == Spec => [][SinDesconexiones /\ SinAdelantos => SoloCaeEnMutex]_vars
<1>1. InvariantePlanificador /\ [Next]_vars => [SinDesconexiones /\ SinAdelantos => SoloCaeEnMutex]_vars
  BY PasoCae DEF InvariantePlanificador, Lugares, Sitios, Ordenado
<1> QED BY <1>1, LugaresSiempre, PTL DEF Spec

\* Who changes the state of p, and to which one.
Movido(p, nuevo) ==
  \/ nuevo = "READY" /\ t.estado[p] = "NEW" /\ planificadorLargoPlazo
  \/ nuevo = "READY" /\ hiloDesbloquea(p)
  \/ nuevo = "READY" /\ \E c \in CPUs :
       /\ volverAReady(c) \/ volverAlFrente(c) \/ despertarSiguiente(c)
       /\ p = manejador[c].pid
  \/ nuevo = "EXEC" /\ cortoEjecuta /\ p = corto.p
  \/ nuevo = "BLOCK" /\ (hiloBloquea(p) \/ \E c \in CPUs : bloquearPorMutex(c) /\ p = manejador[c].pid)
  \/ nuevo = "EXIT" /\ \E c \in CPUs :
       (atenderDone(c) \/ atenderSegFault(c)) /\ p = Head(deCpu[c]).pid
  \/ nuevo = "NEW" /\ t.estado[p] = "INEXISTENTE" /\ \E c \in CPUs : crear_proceso(c)

\* Nobody else does.
LEMMA QuienMueve ==
  ASSUME Bien, CoherenteEn({"NEW"}, t), [Next]_vars, NEW p \in Procesos, t'.estado[p] # t.estado[p]
  PROVE  Movido(p, t'.estado[p])
<1>0. t \in Tabla /\ t.estado \in [Procesos -> Estados] /\ FormaManejador /\ FormaCorto
  BY DEF Bien, TypeOK, Tabla, Formas
<1>1. ASSUME NEW q \in Procesos, PasarAReady(aCpu, q)
      PROVE  p = q /\ t'.estado[p] = "READY"
  <2>1. t'.estado = [t.estado EXCEPT ![q] = IF @ = "EXIT" THEN @ ELSE "READY"]
    BY <1>1, PasarAReadyTipo
  <2> QED BY <1>0, <2>1
<1>2. ASSUME NEW q \in Procesos, NEW nuevo \in {"BLOCK", "EXIT"},
             t' = actualizarEstado(t, q, nuevo)
      PROVE  p = q /\ t'.estado[p] = nuevo
  <2>1. nuevo \in ConLista \cup {"READY"}
    BY DEF ConLista
  <2>2. actualizarEstado(t, q, nuevo).estado = [t.estado EXCEPT ![q] = IF @ = "EXIT" THEN @ ELSE nuevo]
    BY <1>0, <2>1, actualizarEstadoTipo
  <2>3. t'.estado = [t.estado EXCEPT ![q] = IF @ = "EXIT" THEN @ ELSE nuevo]
    BY <1>2, <2>2
  <2> QED BY <1>0, <2>3
<1>3. CASE planificadorLargoPlazo
  <2> DEFINE s == t.listas["NEW"]
             q == Head(s)
  <2>1. s \in Seq(Procesos) /\ s # << >>
    BY <1>0, <1>3 DEF planificadorLargoPlazo, Tabla, ConLista
  <2>2. q \in Procesos /\ q = s[1] /\ 1 \in 1..Len(s)
    <3> HIDE DEF s
    <3> QED BY <2>1, HeadTailProperties, LenProperties, EmptySeq
  <2>3. t.estado[q] = "NEW"
    BY <2>2 DEF CoherenteEn, EnSuLista, Contains
  <2>4. PasarAReady(aCpu, q)
    BY <1>3 DEF planificadorLargoPlazo
  <2> HIDE DEF q
  <2>5. p = q /\ t'.estado[p] = "READY"
    BY <1>1, <2>2, <2>4
  <2> QED BY <1>3, <2>3, <2>5 DEF Movido
<1>4. CASE Corto
  <2>1. cortoEjecuta
    BY <1>4 DEF Corto, cortoEsperaCompactacion, cortoSelecciona, cortoDevuelve, cortoEnvia, enKS
  <2>2. corto.p \in Procesos /\ corto.c \in CPUs
    BY <1>0, <2>1 DEF cortoEjecuta, FormaCorto
  <2>3. t' = EnExec(t, corto.p, corto.c)
    BY <2>1 DEF cortoEjecuta, Despachado, EnExec
  <2>4. t'.estado = [t.estado EXCEPT ![corto.p] = IF @ = "EXIT" THEN @ ELSE "EXEC"]
    BY <1>0, <2>2, <2>3, DespachadoTipo
  <2>5. p = corto.p /\ t'.estado[p] = "EXEC"
    BY <1>0, <2>4
  <2> QED BY <2>1, <2>5 DEF Movido
<1>5. ASSUME NEW q \in Procesos, HiloIO(q)
      PROVE  Movido(p, t'.estado[p])
  <2>1. CASE hiloBloquea(q)
    <3>1. t' = actualizarEstado(t, q, "BLOCK")
      BY <2>1 DEF hiloBloquea
    <3>2. p = q /\ t'.estado[p] = "BLOCK"
      BY <1>2, <3>1
    <3> QED BY <2>1, <3>2 DEF Movido
  <2>2. CASE hiloDesbloquea(q)
    <3>1. p = q /\ t'.estado[p] = "READY"
      BY <1>1, <2>2 DEF hiloDesbloquea
    <3> QED BY <2>2, <3>1 DEF Movido
  <2> QED BY <1>5, <2>1, <2>2 DEF HiloIO
<1>6. ASSUME NEW c \in CPUs, Manejador(c)
      PROVE  Movido(p, t'.estado[p])
  <2>1. CASE volverAReady(c) \/ despertarSiguiente(c)
    <3>1. manejador[c].pid \in Procesos /\ PasarAReady(aCpu, manejador[c].pid)
      BY <1>0, <2>1 DEF volverAReady, despertarSiguiente, FormaManejador
    <3>2. p = manejador[c].pid /\ t'.estado[p] = "READY"
      BY <1>1, <3>1
    <3> QED BY <2>1, <3>2 DEF Movido
  <2>2. CASE volverAlFrente(c)
    <3> DEFINE q == manejador[c].pid
    <3>1. q \in Procesos /\ t' = alFrenteDeReady(t, q)
      BY <1>0, <2>2 DEF volverAlFrente, FormaManejador
    <3>2. t'.estado = [t.estado EXCEPT ![q] = "READY"]
      <4> HIDE DEF q
      <4> QED BY <1>0, <3>1, alFrenteTipo
    <3>3. p = q /\ t'.estado[p] = "READY"
      BY <1>0, <3>2
    <3> QED BY <2>2, <3>3 DEF Movido
  <2>3. CASE bloquearPorMutex(c)
    <3>1. manejador[c].pid \in Procesos /\ t' = actualizarEstado(t, manejador[c].pid, "BLOCK")
      BY <1>0, <2>3 DEF bloquearPorMutex, FormaManejador
    <3>2. p = manejador[c].pid /\ t'.estado[p] = "BLOCK"
      BY <1>2, <3>1
    <3> QED BY <2>3, <3>2 DEF Movido
  <2>4. CASE atenderDone(c) \/ atenderSegFault(c)
    <3>1. Head(deCpu[c]).pid \in Procesos
      BY <2>4, AtiendeTipo DEF atenderDone, atenderSegFault
    <3>2. t' = finalizarProceso(Head(deCpu[c]).pid)
      BY <2>4 DEF atenderDone, atenderSegFault
    <3>3. t'.estado = t.estado \/ t'.estado = [t.estado EXCEPT ![Head(deCpu[c]).pid] = "EXIT"]
      BY <3>1, <3>2, finalizarProcesoTipo
    <3>4. p = Head(deCpu[c]).pid /\ t'.estado[p] = "EXIT"
      BY <1>0, <3>1, <3>3
    <3> QED BY <2>4, <3>4 DEF Movido
  <2>5. CASE crear_proceso(c)
    <3>1. PICK q \in Procesos : t.estado[q] = "INEXISTENTE" /\ t'.estado = [t.estado EXCEPT ![q] = "NEW"]
      BY <2>5, CrearEfecto
    <3>2. p = q /\ t'.estado[p] = "NEW"
      BY <1>0, <3>1
    <3> QED BY <2>5, <3>1, <3>2 DEF Movido
  <2>6. CASE mutex_lock_ocupado(c) \/ mutex_unlock(c)
    BY <2>6, LockOcupadoEfecto, UnlockEfecto
  <2>7. CASE desconectar(c)
    BY <1>0, <2>7, recuperarTipo DEF desconectar
  <2>8. CASE \/ conectar(c) \/ atenderInterrupcionAtendida(c) \/ mutex_create(c)
             \/ mutex_lock_no_existe(c) \/ mutex_lock_libre(c) \/ mutex_unlock_ajeno(c)
             \/ atenderSleep(c) \/ km_mem_alloc(c) \/ manejar_solicitud_desalojo(c)
             \/ esperarConfirmaciones(c) \/ finCompactacion(c) \/ avisarBloqueado(c)
    BY <2>8 DEF conectar, atenderInterrupcionAtendida, mutex_create, mutex_lock_no_existe,
         mutex_lock_libre, avisarBloqueado, mutex_unlock_ajeno, atenderSleep, km_mem_alloc,
         manejar_solicitud_desalojo, esperarConfirmaciones, finCompactacion, enKS
  <2> QED BY <1>6, <2>1, <2>2, <2>3, <2>4, <2>5, <2>6, <2>7, <2>8 DEF Manejador
<1>7. CASE UNCHANGED vars \/ \E q \in Procesos, c \in CPUs : Timer(q, c)
  BY <1>7 DEF vars, enKS, Timer, venceQuantum, interrumpeQuantum
<1>8. ASSUME NEW c \in CPUs, ModuloCPU(c) \/ caer(c)
      PROVE  FALSE
  BY <1>8, ModuloSolo
<1> QED BY <1>3, <1>4, <1>5, <1>6, <1>7, <1>8 DEF Next
\* What the handler of an ended process leaves behind: nobody in the hands of its CPU.
LEMMA TerminadoFuera ==
  ASSUME Bien, TurnoCPU, NEW c \in CPUs, atenderDone(c) \/ atenderSegFault(c), NEW p
  PROVE  /\ Head(deCpu[c]).pid \in Procesos /\ EnSitio(Head(deCpu[c]).pid, "cpu", c)
         /\ ~EnSitio(p, "cpu", c)'
<1>0. aCpu \in Canales /\ Conservan(aCpu, aCpu)
  BY CanalesConservan DEF Bien, TypeOK, Canales
<1>1. PICK tipo \in Liberan : Atiende(c, tipo)
  BY DEF atenderDone, atenderSegFault, Liberan
<1>2. Conservan(aCpu, aCpu') /\ cpu' = cpu
  <2>1. aCpu' = aCpu \/ aCpu' = Enviado(aCpu, c, Respuesta("OK"))
    BY DEF atenderDone, atenderSegFault, Responde
  <2>2. Conservan(aCpu, Enviado(aCpu, c, Respuesta("OK")))
    BY <1>0, RespuestaConserva
  <2> QED BY <1>0, <2>1, <2>2 DEF atenderDone, atenderSegFault
<1> QED BY <1>1, <1>2, AtiendeSitio, LiberadaSinNadie

-----------------------------------------------------------------------------
(* What the CPUs execute is in EXEC.                                        *)

\* The processes that a CPU executes, that are sent to one, that were evicted and not moved
\* yet, and whose CPU is about to hear that they wait for a mutex, are in EXEC.
EjecutanEnExec ==
  /\ \A c \in CPUs, p \in Procesos : EnCPU(p, c) => t.estado[p] = "EXEC"
  /\ corto.pc = "enviar" => t.estado[corto.p] = "EXEC"
  /\ \A c \in CPUs : manejador[c].pc \in {"desalojado", "avisar"} => t.estado[manejador[c].pid] = "EXEC"

\* Who leaves EXEC leaves its CPU, or was out of it.
LEMMA PasoEjecutan ==
  ASSUME Bien, Sitios, EjecutanEnExec, Mudanza, [Next]_vars
  PROVE  EjecutanEnExec'
<1>0. /\ t.estado \in [Procesos -> Estados] /\ FormaManejador /\ FormaCorto
      /\ TurnoCPU /\ CoherenteEn({"NEW"}, t) /\ CadaUnoEnSuSitio /\ Avisos
      /\ manejador \in [CPUs -> EstadoManejador]
  BY DEF Bien, TypeOK, Tabla, Formas, Sitios, EstadoManejador
<1>1. corto.pc \in {"ejecutar", "enviar"} => corto.p \in Procesos /\ EnSitio(corto.p, "corto", Nadie)
  BY <1>0 DEF FormaCorto, EnSitio, EsElegido
<1>2. \A c \in CPUs : manejador[c].pc \in {"desalojado", "despertar"} =>
        manejador[c].pid \in Procesos /\ EnSitio(manejador[c].pid, "manejador", c)
  BY <1>0 DEF FormaManejador, EnSitio, EnManejador
<1>3. \A c \in CPUs : EnLaLlamada(c) =>
        manejador[c].pid \in Procesos /\ EnSitio(manejador[c].pid, "cola", manejador[c].arg)
  BY <1>0 DEF FormaManejador, EnSitio, EnLaLlamada, Avisos, Aviso
<1>4. \A p \in Procesos : HiloIO(p) => EnSitio(p, "io", Nadie)
  BY DEF HiloIO, hiloBloquea, hiloDesbloquea, EnSitio, EnIO
<1>5. \A c \in CPUs : atenderDone(c) \/ atenderSegFault(c) =>
        Head(deCpu[c]).pid \in Procesos /\ EnSitio(Head(deCpu[c]).pid, "cpu", c)
  BY <1>0, TerminadoFuera
\* Where a process of EXEC that is moved was.
<1>6. ASSUME NEW p \in Procesos, t.estado[p] = "EXEC", t'.estado[p] # "EXEC"
      PROVE  \/ EnSitio(p, "io", Nadie)
             \/ \E c \in CPUs : /\ bloquearPorMutex(c) /\ p = manejador[c].pid /\ EnLaLlamada(c)
                                /\ EnSitio(p, "cola", manejador[c].arg)
             \/ \E c \in CPUs : /\ EnSitio(p, "manejador", c)
                                /\ volverAReady(c) \/ volverAlFrente(c) \/ despertarSiguiente(c)
             \/ \E c \in CPUs : EnSitio(p, "cpu", c) /\ (atenderDone(c) \/ atenderSegFault(c))
  <2>1. Movido(p, t'.estado[p])
    BY <1>0, <1>6, QuienMueve
  <2>2. ASSUME NEW c \in CPUs, volverAReady(c) \/ volverAlFrente(c) \/ despertarSiguiente(c),
               p = manejador[c].pid
        PROVE  EnSitio(p, "manejador", c)
    BY <1>2, <2>2 DEF volverAReady, volverAlFrente, despertarSiguiente
  <2>3. ASSUME NEW c \in CPUs, bloquearPorMutex(c), p = manejador[c].pid
        PROVE  EnLaLlamada(c) /\ EnSitio(p, "cola", manejador[c].arg)
    BY <1>3, <2>3 DEF bloquearPorMutex, EnLaLlamada
  <2> QED BY <1>4, <1>5, <1>6, <2>1, <2>2, <2>3 DEF Movido, HiloIO
<1>7. ASSUME NEW c \in CPUs, NEW p \in Procesos, EnCPU(p, c)'
      PROVE  t'.estado[p] = "EXEC"
  <2>1. CASE cortoEnvia /\ p = corto.p
    BY <2>1 DEF cortoEnvia, enKS, EjecutanEnExec
  <2>2. CASE EnCPU(p, c)
    <3>1. t.estado[p] = "EXEC" /\ EnSitio(p, "cpu", c)
      BY <2>2 DEF EjecutanEnExec, EnSitio
    <3>2. ASSUME t'.estado[p] # "EXEC"
          PROVE  FALSE
      <4>1. PICK x \in CPUs : EnSitio(p, "cpu", x) /\ (atenderDone(x) \/ atenderSegFault(x))
        BY <1>0, <1>6, <3>1, <3>2 DEF CadaUnoEnSuSitio, UnSitio
      <4>2. x = c
        BY <1>0, <3>1, <4>1 DEF CadaUnoEnSuSitio, UnSitio
      <4>3. ~EnSitio(p, "cpu", c)'
        BY <1>0, <4>1, <4>2, TerminadoFuera
      <4> QED BY <1>7, <4>3 DEF EnSitio
    <3> QED BY <3>2
  <2> QED BY <1>7, <2>1, <2>2 DEF Mudanza, Llegan
<1>8. ASSUME corto'.pc = "enviar"
      PROVE  t'.estado[corto'.p] = "EXEC"
  <2>1. CASE cortoEjecuta
    <3>1. corto.p \in Procesos /\ corto.c \in CPUs /\ corto'.p = corto.p
      BY <1>0, <2>1 DEF cortoEjecuta, FormaCorto, Bien, TypeOK
    <3>2. t' = EnExec(t, corto.p, corto.c) /\ t \in Tabla
      BY <2>1 DEF cortoEjecuta, Despachado, EnExec, Bien, TypeOK
    <3>3. t'.estado = [t.estado EXCEPT ![corto.p] = IF @ = "EXIT" THEN @ ELSE "EXEC"]
      BY <3>1, <3>2, DespachadoTipo
    <3>4. t.estado[corto.p] # "EXIT"
      BY <1>0, <1>1, <2>1 DEF cortoEjecuta, CadaUnoEnSuSitio, Vivo, Acabados
    <3> QED BY <1>0, <3>1, <3>3, <3>4
  <2>2. CASE cortoEsperaCompactacion \/ cortoSelecciona \/ cortoDevuelve \/ cortoEnvia
    <3>1. corto'.pc # "enviar"
      BY <2>2 DEF cortoEsperaCompactacion, cortoSelecciona, cortoDevuelve, cortoEnvia, CortoEnReposo,
         Bien, TypeOK
    <3> QED BY <1>8, <3>1
  <2>3. CASE corto' = corto
    <3>1. corto.p \in Procesos /\ EnSitio(corto.p, "corto", Nadie) /\ t.estado[corto.p] = "EXEC"
      BY <1>1, <1>8, <2>3 DEF EjecutanEnExec
    <3>2. t'.estado[corto.p] = "EXEC"
      BY <1>0, <1>6, <3>1 DEF CadaUnoEnSuSitio, UnSitio
    <3> QED BY <2>3, <3>2
  <2> QED BY <2>1, <2>2, <2>3, CortoSolo DEF Corto
<1>9. ASSUME NEW c \in CPUs, manejador'[c].pc = "desalojado"
      PROVE  t'.estado[manejador'[c].pid] = "EXEC"
  <2>1. ManejadorDe(c)
    BY MarcoDelManejador
  <2>2. CASE atenderInterrupcionAtendida(c) /\ manejador'[c].pid = Head(deCpu[c]).pid
    <3>1. Head(deCpu[c]).pid \in Procesos /\ EnSitio(Head(deCpu[c]).pid, "cpu", c)
      BY <2>2, AtiendeSitio DEF atenderInterrupcionAtendida
    <3>2. t' = t /\ t.estado[Head(deCpu[c]).pid] = "EXEC"
      BY <2>2, <3>1 DEF atenderInterrupcionAtendida, EjecutanEnExec, EnSitio
    <3> QED BY <2>2, <3>2
  <2>3. CASE manejador'[c] = manejador[c]
    <3>1. PICK p \in Procesos : p = manejador[c].pid /\ EnSitio(p, "manejador", c) /\ t.estado[p] = "EXEC"
      BY <1>2, <1>9, <2>3 DEF EjecutanEnExec
    <3>2. ASSUME t'.estado[p] # "EXEC"
          PROVE  FALSE
      <4>1. PICK x \in CPUs : /\ EnSitio(p, "manejador", x)
                              /\ volverAReady(x) \/ volverAlFrente(x) \/ despertarSiguiente(x)
        BY <1>0, <1>6, <3>1, <3>2 DEF CadaUnoEnSuSitio, UnSitio
      <4>2. x = c
        BY <1>0, <3>1, <4>1 DEF CadaUnoEnSuSitio, UnSitio
      <4>3. manejador'[c].pc = "libre"
        BY <1>0, <4>1, <4>2 DEF volverAReady, volverAlFrente, despertarSiguiente, Termina, ManejadorLibre
      <4> QED BY <1>9, <4>3
    <3> QED BY <2>3, <3>1, <3>2
  <2> QED BY <1>9, <2>1, <2>2, <2>3 DEF ManejadorDe, ManejadorLibre
<1>10. ASSUME NEW c \in CPUs, manejador'[c].pc = "avisar"
       PROVE  t'.estado[manejador'[c].pid] = "EXEC"
  <2>1. ManejadorDe(c)
    BY MarcoDelManejador
  <2>2. CASE mutex_lock_ocupado(c) /\ manejador'[c].pid = Head(deCpu[c]).pid
    <3>1. Head(deCpu[c]).pid \in Procesos /\ EnSitio(Head(deCpu[c]).pid, "cpu", c)
      BY <2>2, AtiendeSitio DEF mutex_lock_ocupado
    <3>2. t'.estado = t.estado /\ t.estado[Head(deCpu[c]).pid] = "EXEC"
      BY <2>2, <3>1, LockOcupadoEfecto DEF EjecutanEnExec, EnSitio
    <3> QED BY <2>2, <3>2
  <2>3. CASE manejador'[c] = manejador[c]
    <3>1. PICK p \in Procesos : /\ p = manejador[c].pid /\ EnSitio(p, "cola", manejador[c].arg)
                                /\ EnLaLlamada(c) /\ t.estado[p] = "EXEC"
      BY <1>3, <1>10, <2>3 DEF EjecutanEnExec, EnLaLlamada
    <3>2. ASSUME t'.estado[p] # "EXEC"
          PROVE  FALSE
      <4>1. PICK x \in CPUs : bloquearPorMutex(x) /\ p = manejador[x].pid /\ EnLaLlamada(x)
        BY <1>0, <1>6, <3>1, <3>2 DEF CadaUnoEnSuSitio, UnSitio
      <4>2. x = c
        BY <1>0, <3>1, <4>1 DEF Avisos
      <4> QED BY <1>10, <2>3, <4>1, <4>2 DEF bloquearPorMutex
    <3> QED BY <2>3, <3>1, <3>2
  <2> QED BY <1>10, <2>1, <2>2, <2>3 DEF ManejadorDe, ManejadorLibre
<1> QED BY <1>7, <1>8, <1>9, <1>10 DEF EjecutanEnExec


\* The invariant of what the CPUs execute.
InvarianteDeEjecucion ==
  /\ InvariantePlanificador /\ PedidosPermitidos
  /\ Ordenado => EjecutanEnExec /\ Coherente(t)

\* Nothing is executed at the beginning.
LEMMA InitEjecucion ==
  ASSUME Init
  PROVE  InvarianteDeEjecucion
<1>1. EjecutanEnExec
  <2>1. ASSUME NEW c \in CPUs, NEW p
        PROVE  ~EnCPU(p, c)
    <3>1. aCpu[c] = << >> /\ deCpu[c] = << >> /\ cpu[c].modo = "desconectada"
      BY DEF Init, CPUEn
    <3>2. Len(<< >>) = 0 /\ \A i \in 1..0 : FALSE
      OBVIOUS
    <3> QED BY <3>1, <3>2 DEF EnCPU, EnLaCPU, EnCanal, EnPedido, Corre
  <2> QED BY <2>1 DEF Init, EjecutanEnExec, CortoEnReposo, ManejadorLibre
<1>2. Ordenado => Coherente(t)
  BY InitListas DEF Listas, Ordenado
<1> QED BY <1>1, <1>2, InitPlanificador, InitPermitidos DEF InvarianteDeEjecucion

\* An eviction finds the process in EXEC, so no step takes a list from its PCBs.
LEMMA PasoEjecucion ==
  ASSUME InvarianteDeEjecucion, [Next]_vars
  PROVE  InvarianteDeEjecucion'
<1>1. InvariantePlanificador' /\ PedidosPermitidos'
  BY PasoPlanificador, PasoPermitidos DEF InvarianteDeEjecucion, InvariantePlanificador
<1>2. ASSUME Ordenado'
      PROVE  EjecutanEnExec' /\ Coherente(t')
  <2>1. Ordenado /\ SinDesconexiones' /\ \A c \in CPUs : ~desconectar(c)
    BY <1>2, OrdenQueda DEF InvarianteDeEjecucion, InvariantePlanificador, Ordenado
  <2>2. Bien /\ Sitios /\ EjecutanEnExec /\ CoherenteEn(ConLista, t)
    BY <2>1 DEF InvarianteDeEjecucion, InvariantePlanificador, Lugares, Coherente
  <2>3. Mudanza
    BY <2>1, <2>2, LocksDesdeSuCPU, PasoMudanza DEF Sitios
  <2>4. EjecutanEnExec'
    BY <2>2, <2>3, PasoEjecutan
  <2>5. \A c \in CPUs : volverAlFrente(c) => t.estado[manejador[c].pid] = "EXEC"
    BY <2>2 DEF EjecutanEnExec, volverAlFrente
  <2>6. CoherenteEn(ConLista, t')
    BY <2>1, <2>2, <2>5, PasoCoherente
  <2> QED BY <2>4, <2>6 DEF Coherente
<1> QED BY <1>1, <1>2 DEF InvarianteDeEjecucion

\* What a CPU executes is in EXEC with that CPU in its PCB, so no two CPUs execute one
\* process: iniciar_planificador_corto_plazo writes both before it sends the PID, and the
\* handler of the CPU moves the process only after the CPU has left it.  An unlock that
\* overtakes the BLOCK of its waiter breaks this, and is excepted.
THEOREM EjecucionSegunTablasSiempre == Spec => [](SinAdelantos => EjecucionSegunTablas)
<1>1. InvarianteDeEjecucion /\ [Next]_vars => InvarianteDeEjecucion'
  BY PasoEjecucion
<1>2. InvarianteDeEjecucion => (SinAdelantos => EjecucionSegunTablas)
  <2> SUFFICES ASSUME InvarianteDeEjecucion, SinAdelantos, SinDesconexiones,
                      NEW c \in CPUs, NEW p \in Procesos, Ejecuta(c, p)
               PROVE  t.estado[p] = "EXEC" /\ t.fdCpu[p] = c
    BY DEF EjecucionSegunTablas
  <2>1. Sitios /\ EjecutanEnExec /\ aCpu[c] \in Seq(MensajesAlCPU)
    BY DEF InvarianteDeEjecucion, InvariantePlanificador, Lugares, Bien, TypeOK, Ordenado
  <2>2. DOMAIN aCpu[c] = 1..Len(aCpu[c])
    BY <2>1, LenProperties
  <2>3. Corre(aCpu[c], cpu[c]) /\ cpu[c].pid = p
    BY <2>2 DEF Ejecuta, EnViaje, Corre, HayBloqueado
  <2>4. CASE manejador[c].pc # "avisar"
    <3>1. EnCPU(p, c)
      BY <2>3, <2>4 DEF EnCPU, EnLaCPU
    <3> QED BY <2>1, <3>1 DEF Sitios, FdDeQuienLoTiene, EjecutanEnExec
  <2>5. CASE manejador[c].pc = "avisar"
    <3>1. TurnoDe(c) /\ Aviso(c)
      BY <2>1, <2>5 DEF Sitios, TurnoCPU, Avisos, EnLaLlamada
    <3>2. p = manejador[c].pid
      BY <2>3, <2>5, <3>1 DEF TurnoDe, Turno, LlamaALock, Corre
    <3> QED BY <2>1, <2>5, <3>1, <3>2 DEF Aviso, EjecutanEnExec
  <2> QED BY <2>4, <2>5
<1> QED BY <1>1, <1>2, InitEjecucion, PTL DEF Spec

-----------------------------------------------------------------------------
(* Who wakes up a blocked process.                                          *)

Despertador(p) ==
  \/ \E m \in Mutexes : Contains(cola[m], p)
  \/ hiloIO[p] = "enIO"
  \/ \E c \in CPUs : manejador[c].pc = "despertar" /\ manejador[c].pid = p

\* The locals of a connection change by a step of its own thread.
LEMMA ManejadorPropio ==
  ASSUME Bien, [Next]_vars, NEW c \in CPUs, manejador'[c] # manejador[c]
  PROVE  Manejador(c)
<1>0. manejador \in [CPUs -> EstadoManejador]
  BY DEF Bien, TypeOK, EstadoManejador
<1>1. CASE \/ UNCHANGED vars \/ planificadorLargoPlazo \/ Corto
           \/ \E p \in Procesos, x \in CPUs : Timer(p, x)
           \/ \E p \in Procesos : HiloIO(p)
  BY <1>1 DEF vars, enCPU, planificadorLargoPlazo, Timer, venceQuantum, interrumpeQuantum, HiloIO,
     hiloBloquea, hiloDesbloquea, Corto, cortoEsperaCompactacion, cortoSelecciona, cortoDevuelve,
     cortoEjecuta, cortoEnvia
<1>2. ASSUME NEW x \in CPUs, ModuloCPU(x) \/ caer(x)
      PROVE  FALSE
  BY <1>2, ModuloSolo
<1>3. ASSUME NEW x \in CPUs, x # c, NEW h, manejador' = [manejador EXCEPT ![x] = h]
      PROVE  FALSE
  BY <1>0, <1>3
<1>4. ASSUME NEW x \in CPUs, x # c, Manejador(x)
      PROVE  FALSE
  <2>1. CASE conectar(x) \/ volverAReady(x) \/ volverAlFrente(x) \/ bloquearPorMutex(x)
             \/ despertarSiguiente(x) \/ finCompactacion(x)
    BY <1>3, <1>4, <2>1 DEF conectar, volverAReady, volverAlFrente, bloquearPorMutex,
       despertarSiguiente, finCompactacion, Termina
  <2>2. CASE atenderDone(x) \/ atenderSegFault(x) \/ mutex_create(x) \/ mutex_lock_no_existe(x)
             \/ mutex_lock_libre(x) \/ mutex_unlock_ajeno(x) \/ atenderSleep(x)
             \/ crear_proceso(x) \/ km_mem_alloc(x)
    BY <2>2 DEF atenderDone, atenderSegFault, mutex_create, mutex_lock_no_existe, mutex_lock_libre,
         mutex_unlock_ajeno, atenderSleep, crear_proceso, km_mem_alloc
  <2>3. CASE desconectar(x)
    BY <1>0, <1>4, <2>3 DEF desconectar
  <2>4. CASE atenderInterrupcionAtendida(x)
    BY <1>3, <1>4, <2>4 DEF atenderInterrupcionAtendida, Sigue
  <2>5. CASE mutex_lock_ocupado(x)
    BY <1>3, <1>4, <2>5 DEF mutex_lock_ocupado, Sigue
  <2>8. CASE avisarBloqueado(x)
    BY <1>3, <1>4, <2>8 DEF avisarBloqueado, Sigue
  <2>6. CASE mutex_unlock(x)
    BY <1>3, <1>4, <2>6 DEF mutex_unlock, Sigue
  <2>7. CASE manejar_solicitud_desalojo(x) \/ esperarConfirmaciones(x)
    BY <1>3, <1>4, <2>7 DEF manejar_solicitud_desalojo, esperarConfirmaciones, Sigue
  <2> QED BY <1>4, <2>1, <2>2, <2>3, <2>4, <2>5, <2>6, <2>7, <2>8 DEF Manejador
<1> QED BY <1>1, <1>2, <1>4 DEF Next

\* A waiter leaves the queue of its mutex in the hands of the thread that wakes it up.
LEMMA SaleDeCola ==
  ASSUME Bien, ColasSinRepetir, [Next]_vars, NEW p \in Procesos, NEW m \in Mutexes, Contains(cola[m], p)
  PROVE  Contains(cola'[m], p) \/ \E c \in CPUs : manejador'[c].pc = "despertar" /\ manejador'[c].pid = p
<1>0. /\ cola \in [Mutexes -> Seq(Procesos)] /\ manejador \in [CPUs -> EstadoManejador]
      /\ cola[m] \in Seq(Procesos) /\ cola[m] # << >>
  <2>1. cola \in [Mutexes -> Seq(Procesos)] /\ manejador \in [CPUs -> EstadoManejador]
    BY DEF Bien, TypeOK, EstadoManejador
  <2>2. cola[m] # << >>
    BY DEF Contains
  <2> QED BY <2>1, <2>2
<1>1. CASE cola' = cola
  BY <1>1
<1>2. ASSUME NEW c \in CPUs, mutex_lock_ocupado(c)
      PROVE  Contains(cola'[m], p)
  <2> DEFINE q == Head(deCpu[c]).pid
             n == Head(deCpu[c]).arg
  <2>1. q \in Procesos /\ n \in Mutexes /\ cola' = [cola EXCEPT ![n] = Append(cola[n], q)]
    BY <1>2, LockOcupadoEfecto
  <2> HIDE DEF q, n
  <2>2. CASE n = m
    <3>1. cola'[m] = Append(cola[m], q)
      BY <1>0, <2>1, <2>2
    <3>2. Contains(Append(cola[m], q), p)
      BY <1>0, <2>1, ContieneAppend
    <3> QED BY <3>1, <3>2
  <2>3. CASE n # m
    BY <1>0, <2>1, <2>3
  <2> QED BY <2>2, <2>3
<1>3. ASSUME NEW c \in CPUs, mutex_unlock(c)
      PROVE  Contains(cola'[m], p) \/ (manejador'[c].pc = "despertar" /\ manejador'[c].pid = p)
  <2> DEFINE n == Head(deCpu[c]).arg
  <2>1. /\ n \in Mutexes
        /\ cola' = cola \/ (cola' = [cola EXCEPT ![n] = Tail(cola[n])] /\ Sigue(c, "despertar", Head(cola[n]), n))
    BY <1>3, UnlockEfecto
  <2> HIDE DEF n
  <2>2. CASE /\ n = m /\ cola' = [cola EXCEPT ![m] = Tail(cola[m])]
             /\ Sigue(c, "despertar", Head(cola[m]), m)
    <3>1. \A i, j \in 1..Len(cola[m]) : cola[m][i] = cola[m][j] => i = j
      BY <1>0, LenProperties DEF ColasSinRepetir, SinRepetir
    <3>2. Contains(Tail(cola[m]), p) \/ p = Head(cola[m])
      BY <1>0, <3>1, ContieneTail
    <3>3. cola'[m] = Tail(cola[m])
      BY <1>0, <2>2
    <3>4. manejador'[c].pc = "despertar" /\ manejador'[c].pid = Head(cola[m])
      BY <1>0, <2>2 DEF Sigue
    <3> QED BY <3>2, <3>3, <3>4
  <2>3. CASE cola' = cola \/ (n # m /\ cola' = [cola EXCEPT ![n] = Tail(cola[n])])
    BY <1>0, <2>1, <2>3
  <2> QED BY <2>1, <2>2, <2>3
<1> QED BY <1>1, <1>2, <1>3, MarcoDeColas

\* An IO ends by the step of its thread: nobody starts another for the same process.
LEMMA SaleDeIO ==
  ASSUME Bien, CadaUnoEnSuSitio, [Next]_vars, NEW p \in Procesos, hiloIO[p] = "enIO", hiloIO'[p] # "enIO"
  PROVE  hiloDesbloquea(p)
<1>0. hiloIO \in [Procesos -> {"ninguno", "bloquear", "enIO"}]
  BY DEF Bien, TypeOK
<1>1. ASSUME NEW q \in Procesos, HiloIO(q)
      PROVE  hiloDesbloquea(p)
  <2>1. CASE q # p
    <3>1. \E h : hiloIO' = [hiloIO EXCEPT ![q] = h]
      BY <1>1 DEF HiloIO, hiloBloquea, hiloDesbloquea
    <3> QED BY <1>0, <2>1, <3>1
  <2>2. CASE q = p
    BY <1>1, <2>2 DEF HiloIO, hiloBloquea
  <2> QED BY <2>1, <2>2
<1>2. ASSUME NEW c \in CPUs, atenderSleep(c)
      PROVE  FALSE
  <2>1. Head(deCpu[c]).pid \in Procesos /\ EnSitio(Head(deCpu[c]).pid, "cpu", c)
    BY <1>2, AtiendeSitio DEF atenderSleep
  <2>2. EnSitio(p, "io", Nadie)
    BY DEF EnSitio, EnIO
  <2>3. Head(deCpu[c]).pid # p
    <3>1. "cpu" # "io"
      OBVIOUS
    <3> QED BY <2>1, <2>2, <3>1 DEF CadaUnoEnSuSitio, UnSitio
  <2> QED BY <1>0, <1>2, <2>1, <2>3 DEF atenderSleep
<1>3. CASE \/ UNCHANGED vars \/ planificadorLargoPlazo \/ Corto
           \/ \E q \in Procesos, x \in CPUs : Timer(q, x)
  BY <1>3 DEF vars, planificadorLargoPlazo, Timer, venceQuantum, interrumpeQuantum,
     Corto, cortoEsperaCompactacion, cortoSelecciona, cortoDevuelve, cortoEjecuta, cortoEnvia
<1>4. ASSUME NEW x \in CPUs, ModuloCPU(x) \/ caer(x)
      PROVE  FALSE
  BY <1>4, ModuloSolo
<1>5. ASSUME NEW c \in CPUs, Manejador(c)
      PROVE  FALSE
  BY <1>2, <1>5 DEF Manejador, conectar, desconectar, atenderDone, atenderSegFault, enMutex,
     atenderInterrupcionAtendida, volverAReady, volverAlFrente, mutex_create,
     mutex_lock_no_existe, mutex_lock_libre, mutex_lock_ocupado, avisarBloqueado, bloquearPorMutex,
     mutex_unlock_ajeno, mutex_unlock, despertarSiguiente, crear_proceso,
     km_mem_alloc, manejar_solicitud_desalojo, esperarConfirmaciones, finCompactacion
<1> QED BY <1>1, <1>3, <1>4, <1>5 DEF Next

\* Whoever enters BLOCK has somebody to wake it up, and who leaves that somebody leaves BLOCK.
LEMMA PasoDespertador ==
  ASSUME Bien, Sitios, [Next]_vars, NEW p \in Procesos,
         t.estado[p] = "BLOCK" => Despertador(p), t'.estado[p] = "BLOCK"
  PROVE  Despertador(p)'
<1>0. /\ CadaUnoEnSuSitio /\ ColasSinRepetir /\ CoherenteEn({"NEW"}, t) /\ t \in Tabla
      /\ FormaManejador /\ hiloIO \in [Procesos -> {"ninguno", "bloquear", "enIO"}]
      /\ t.estado \in [Procesos -> Estados]
  BY DEF Sitios, Bien, Formas, TypeOK, Tabla
<1>1. CASE t.estado[p] # "BLOCK"
  <2>1. Movido(p, "BLOCK")
    BY <1>0, <1>1, QuienMueve
  <2>2. CASE hiloBloquea(p)
    <3>1. t' # t
      BY <1>1
    <3>2. hiloIO' = [hiloIO EXCEPT ![p] = "enIO"]
      BY <2>2, <3>1 DEF hiloBloquea
    <3> QED BY <1>0, <3>2 DEF Despertador
  <2>3. ASSUME NEW c \in CPUs, bloquearPorMutex(c), p = manejador[c].pid
        PROVE  Despertador(p)'
    <3>1. manejador[c].arg \in Mutexes /\ Contains(cola[manejador[c].arg], p) /\ cola' = cola
      BY <2>3 DEF bloquearPorMutex, Sitios, Avisos, EnLaLlamada, Aviso, EnCola, enMutex
    <3> QED BY <3>1 DEF Despertador
  <2> QED BY <2>1, <2>2, <2>3 DEF Movido
<1>2. CASE t.estado[p] = "BLOCK"
  <2>0. \A q \in Procesos : PasarAReady(aCpu, q) /\ q = p => FALSE
    <3> SUFFICES ASSUME PasarAReady(aCpu, p)
                 PROVE  FALSE
      OBVIOUS
    <3>1. t'.estado = [t.estado EXCEPT ![p] = IF @ = "EXIT" THEN @ ELSE "READY"]
      BY PasarAReadyTipo
    <3> QED BY <1>0, <1>2, <3>1
  <2>1. ASSUME NEW m \in Mutexes, Contains(cola[m], p)
        PROVE  Despertador(p)'
    BY <1>0, <2>1, SaleDeCola DEF Despertador
  <2>2. CASE hiloIO[p] = "enIO"
    <3>1. hiloIO'[p] # "enIO" => hiloDesbloquea(p)
      BY <1>0, <2>2, SaleDeIO
    <3>2. ~hiloDesbloquea(p)
      BY <2>0 DEF hiloDesbloquea
    <3> QED BY <3>1, <3>2 DEF Despertador
  <2>3. ASSUME NEW c \in CPUs, manejador[c].pc = "despertar", manejador[c].pid = p
        PROVE  Despertador(p)'
    <3>1. CASE manejador'[c] = manejador[c]
      BY <2>3, <3>1 DEF Despertador
    <3>2. CASE Manejador(c)
      <4>1. despertarSiguiente(c)
        BY <2>3, <3>2 DEF Manejador, conectar, desconectar, atenderDone, atenderSegFault, Atiende,
           atenderInterrupcionAtendida, volverAReady, volverAlFrente, mutex_create,
           mutex_lock_no_existe, mutex_lock_libre, mutex_lock_ocupado, avisarBloqueado, bloquearPorMutex,
           mutex_unlock_ajeno, mutex_unlock, atenderSleep, crear_proceso,
           km_mem_alloc, manejar_solicitud_desalojo, esperarConfirmaciones, finCompactacion
      <4> QED BY <2>0, <2>3, <4>1 DEF despertarSiguiente
    <3> QED BY <3>1, <3>2, ManejadorPropio
  <2> QED BY <1>2, <2>1, <2>2, <2>3 DEF Despertador
<1> QED BY <1>1, <1>2

\* What makes BloqueoTieneDespertador inductive.
InvarianteDeBloqueo ==
  /\ InvariantePlanificador
  /\ Ordenado => \A p \in Procesos : t.estado[p] = "BLOCK" => Despertador(p)

\* Every step keeps it.
LEMMA PasoBloqueo ==
  ASSUME InvarianteDeBloqueo, [Next]_vars
  PROVE  InvarianteDeBloqueo'
<1>1. InvariantePlanificador'
  BY PasoPlanificador DEF InvarianteDeBloqueo
<1>2. ASSUME Ordenado', NEW p \in Procesos, t'.estado[p] = "BLOCK"
      PROVE  Despertador(p)'
  <2>1. Ordenado
    BY <1>2, OrdenQueda DEF InvarianteDeBloqueo, InvariantePlanificador
  <2>2. Bien /\ Sitios /\ (t.estado[p] = "BLOCK" => Despertador(p))
    BY <2>1 DEF InvarianteDeBloqueo, InvariantePlanificador, Lugares
  <2> QED BY <1>2, <2>2, PasoDespertador
<1> QED BY <1>1, <1>2 DEF InvarianteDeBloqueo

\* A process in BLOCK will be woken up: the thread of its IO has it, or it waits in the
\* queue of a mutex from before mutex_lock blocks it until mutex_unlock hands it to the
\* thread that moves it to READY.  The unlock that comes before the BLOCK leaves it asleep
\* for ever, and is excepted.
THEOREM BloqueoTieneDespertadorSiempre ==
  Spec => [](SinDesconexiones /\ SinAdelantos => BloqueoTieneDespertador)
<1>1. Init => InvarianteDeBloqueo
  <2> SUFFICES ASSUME Init
               PROVE  InvarianteDeBloqueo
    OBVIOUS
  <2>1. \A p \in Procesos : t.estado[p] # "BLOCK"
    BY DEF Init
  <2> QED BY <2>1, InitPlanificador DEF InvarianteDeBloqueo
<1>2. InvarianteDeBloqueo /\ [Next]_vars => InvarianteDeBloqueo'
  BY PasoBloqueo
<1>3. InvarianteDeBloqueo => (SinDesconexiones /\ SinAdelantos => BloqueoTieneDespertador)
  BY DEF InvarianteDeBloqueo, BloqueoTieneDespertador, Despertador, Ordenado
<1> QED BY <1>1, <1>2, <1>3, PTL DEF Spec

-----------------------------------------------------------------------------
(* Which interrupts there can be.                                           *)

\* A timer is started only for a queue with quantum, a more urgent process preempts only
\* with QUEUE_PREEMPTION, and only a MEM_ALLOC makes Kernel Memory ask for an eviction.
HayQuantum == \E k \in Int : ConQuantum(k)
MotivosPosibles ==
  {i \in Motivos : \/ i = 0 /\ HayQuantum
                   \/ i = 1 /\ Algoritmo = "CMN" /\ QueuePreemption
                   \/ i = 2 /\ "MEM_ALLOC" \in Syscalls}

\* Every interrupt of a channel has a possible reason.
Motivado(a) == \A i \in 1..Len(a) : a[i].tipo = "INTERRUPT" => a[i].arg \in MotivosPosibles
Motivados(canal) == \A c \in CPUs : Motivado(canal[c])

\* So has every interrupt on its way, kept by a module, answered, or attended by a handler.
InterrupcionesMotivadas ==
  /\ Motivados(aCpu)
  /\ \A c \in CPUs : \A i \in cpu[c].pend : i.arg \in MotivosPosibles
  /\ \A c \in CPUs : \A i \in 1..Len(deCpu[c]) :
       deCpu[c][i].tipo = "INTERRUPCION_ATENDIDA" => deCpu[c][i].arg \in MotivosPosibles
  /\ \A c \in CPUs : manejador[c].pc = "desalojado" => manejador[c].arg \in MotivosPosibles
  /\ \A p \in Procesos, c \in CPUs :
       timers[p][c].dormidos > 0 \/ timers[p][c].vencidos > 0 => HayQuantum

\* The interrupts of one critical section have its reason, unless there is none to interrupt.
LEMMA InterrumpidasMotivadas ==
  ASSUME NEW canal \in Canales, NEW tabla \in Tabla, NEW ps, NEW motivo \in Motivos,
         Motivados(canal), motivo \in MotivosPosibles \/ ps = {}
  PROVE  Motivados(Interrumpidas(canal, tabla, ps, motivo))
<1> DEFINE nuevo == Interrumpidas(canal, tabla, ps, motivo)
<1>1. ASSUME NEW c \in CPUs
      PROVE  Motivado(nuevo[c])
  <2> DEFINE a == canal[c]
             s == InterrupcionesPara(tabla, c, ps, motivo)
  <2>1. nuevo[c] = a \o s \/ nuevo[c] = a
    BY DEF Interrumpidas
  <2>2. /\ s \in Seq(Interrupciones) /\ a \in Seq(MensajesAlCPU)
        /\ \A i \in 1..Len(s) : s[i].arg = motivo /\ s[i].pid \in ps
    BY InterrupcionesParaTipo DEF Canales
  <2>3. Motivado(a)
    BY DEF Motivados
  <2> HIDE DEF nuevo, s, a
  <2>4. s \in Seq(MensajesAlCPU)
    BY <2>2, SeqMonotonic DEF Interrupciones, MensajesAlCPU
  <2>5. /\ Len(a \o s) = Len(a) + Len(s) /\ Len(a) \in Nat /\ Len(s) \in Nat
        /\ \A i \in 1..(Len(a) + Len(s)) :
             (a \o s)[i] = IF i <= Len(a) THEN a[i] ELSE s[i - Len(a)]
    BY <2>2, <2>4, ConcatProperties, LenProperties
  <2>6. ASSUME NEW i \in 1..Len(a \o s), (a \o s)[i].tipo = "INTERRUPT"
        PROVE  (a \o s)[i].arg \in MotivosPosibles
    <3>1. CASE i <= Len(a)
      <4>1. i \in 1..Len(a) /\ (a \o s)[i] = a[i]
        BY <2>5, <3>1
      <4> QED BY <2>3, <2>6, <4>1 DEF Motivado
    <3>2. CASE ~(i <= Len(a))
      <4>1. i - Len(a) \in 1..Len(s) /\ (a \o s)[i] = s[i - Len(a)]
        BY <2>5, <3>2
      <4> QED BY <2>2, <4>1
    <3> QED BY <3>1, <3>2
  <2>7. Motivado(a \o s)
    BY <2>6 DEF Motivado
  <2> QED BY <2>1, <2>3, <2>7
<1> HIDE DEF nuevo
<1>2. Motivados(nuevo)
  BY <1>1 DEF Motivados
<1> QED BY <1>2 DEF nuevo

\* A message that is no interrupt, or one with a possible reason, is sent.
LEMMA EnviadoMotivado ==
  ASSUME NEW canal \in Canales, NEW c, NEW m \in MensajesAlCPU, Motivados(canal),
         m.tipo = "INTERRUPT" => m.arg \in MotivosPosibles
  PROVE  Motivados(Enviado(canal, c, m))
<1> DEFINE b == Enviado(canal, c, m)
<1>1. \A d \in CPUs : b[d] = canal[d] \/ b[d] = Append(canal[d], m)
  BY EnviadoTipo
<1> HIDE DEF b
<1>2. ASSUME NEW d \in CPUs
      PROVE  Motivado(b[d])
  <2> DEFINE a == canal[d]
             s == Append(a, m)
  <2>1. a \in Seq(MensajesAlCPU) /\ Motivado(a)
    BY DEF Canales, Motivados
  <2>2. Len(a) \in Nat /\ Len(s) = Len(a) + 1 /\ s[Len(a) + 1] = m /\ \A i \in 1..Len(a) : s[i] = a[i]
    BY <2>1, AppendProperties, LenProperties
  <2> HIDE DEF a, s
  <2>3. \A i \in 1..Len(s) : (i \in 1..Len(a) /\ s[i] = a[i]) \/ s[i] = m
    BY <2>2
  <2>4. Motivado(s)
    BY <2>1, <2>3 DEF Motivado
  <2> QED BY <1>1, <2>1, <2>4 DEF s, a
<1>3. Motivados(b)
  BY <1>2 DEF Motivados
<1> QED BY <1>3 DEF b

\* Nobody is preempted where there is no preemption.
LEMMA SinUrgentes ==
  ASSUME 1 \notin MotivosPosibles
  PROVE  \A tabla, p : desalojadosPor(tabla, p) = {}
<1>1. ~(Algoritmo = "CMN" /\ QueuePreemption)
  BY DEF MotivosPosibles, Motivos
<1>2. \A tabla, p : victimaDe(tabla, p) = {}
  BY <1>1 DEF victimaDe
<1> QED BY <1>2 DEF desalojadosPor

\* procesoAReady interrupts with reason 1 only.
LEMMA PasarAReadyMotivado ==
  ASSUME Bien, NEW p \in Procesos, PasarAReady(aCpu, p), Motivados(aCpu)
  PROVE  Motivados(aCpu')
<1> DEFINE ps == desalojadosPor(t', p)
<1>1. t' \in Tabla /\ aCpu \in Canales /\ 1 \in Motivos
  <2>1. t' \in Tabla
    BY PasarAReadyTipo
  <2>2. aCpu \in Canales
    BY DEF Bien, TypeOK, Canales
  <2> QED BY <2>1, <2>2 DEF Motivos
<1>2. 1 \in MotivosPosibles \/ ps = {}
  BY SinUrgentes
<1>3. aCpu' = aCpu \/ aCpu' = Interrumpidas(aCpu, t', ps, 1)
  BY DEF PasarAReady
<1> HIDE DEF ps
<1>4. Motivados(Interrumpidas(aCpu, t', ps, 1))
  BY <1>1, <1>2, InterrumpidasMotivadas
<1> QED BY <1>3, <1>4

\* So do mutex_lock, when the owner inherits a priority, and mutex_unlock, when it loses it.
LEMMA MutexMotivado ==
  ASSUME Bien, NEW c \in CPUs, mutex_lock_ocupado(c) \/ mutex_unlock(c), Motivados(aCpu)
  PROVE  Motivados(aCpu')
<1>0. t \in Tabla /\ aCpu \in Canales /\ 1 \in Motivos
  BY DEF Bien, TypeOK, Canales, Motivos
<1>1. \A tipo \in {"OK", "BLOQUEADO"} : Respuesta(tipo) \in MensajesAlCPU /\ Respuesta(tipo).tipo # "INTERRUPT"
  BY DEF Respuesta, Msj, MensajesAlCPU
<1>2. ASSUME NEW u \in Tabla, NEW q, NEW nueva, NEW canal \in Canales, Motivados(canal)
      PROVE  Motivados(Interrumpidas(canal, u, desalojadosPorPrioridad(t, q, nueva), 1))
  <2> DEFINE ps == desalojadosPorPrioridad(t, q, nueva)
  <2>1. 1 \in MotivosPosibles \/ ps = {}
    BY SinUrgentes DEF desalojadosPorPrioridad
  <2> HIDE DEF ps
  <2>2. Motivados(Interrumpidas(canal, u, ps, 1))
    BY <1>0, <1>2, <2>1, InterrumpidasMotivadas
  <2> QED BY <2>2 DEF ps
<1>3. CASE mutex_lock_ocupado(c)
  <2> DEFINE m == Head(deCpu[c])
             duenio == tomador[m.arg]
             nueva == t.prioridad[m.pid]
  <2>1. aCpu' = aCpu \/ aCpu' = Interrumpidas(aCpu, t', desalojadosPorPrioridad(t, duenio, nueva), 1)
    BY <1>3 DEF mutex_lock_ocupado
  <2>2. t' \in Tabla
    BY <1>3, LockOcupadoEfecto
  <2> HIDE DEF duenio, nueva
  <2> QED BY <1>0, <1>2, <2>1, <2>2
<1>4. CASE mutex_unlock(c)
  <2> DEFINE con == Enviado(aCpu, c, Respuesta("OK"))
             p == Head(deCpu[c]).pid
             o == PrioridadAlSoltar(p)
  <2>1. aCpu' = Interrumpidas(con, t', desalojadosPorPrioridad(t, p, o), 1)
    BY <1>4 DEF mutex_unlock
  <2>2. t' \in Tabla
    BY <1>4, UnlockEfecto
  <2> HIDE DEF p, o
  <2>3. con \in Canales /\ Motivados(con)
    BY <1>0, <1>1, EnviadoTipo, EnviadoMotivado
  <2> HIDE DEF con
  <2> QED BY <1>2, <2>1, <2>2, <2>3
<1> QED BY <1>3, <1>4

\* What the module of a CPU does to what it reads: it takes the head, or nothing.
LEMMA ModuloLee ==
  ASSUME NEW c \in CPUs, ModuloCPU(c) \/ caer(c)
  PROVE  aCpu' = aCpu \/ Recibe(c)
BY DEF ModuloCPU, caer, esperarPid, syscallConRespuesta, syscallBloqueante, syscallExit, manejarSegFault,
   confirmarSegFault, atenderInterrupcion, guardarInterrupcion, recibirRespuesta, recibirBloqueado,
   respuestaInesperada

\* No step puts an interrupt without a reason on its way.
LEMMA PasoMotivados ==
  ASSUME Bien, PedidosPermitidos, InterrupcionesMotivadas, [Next]_vars
  PROVE  Motivados(aCpu')
<1>0. t \in Tabla /\ aCpu \in Canales /\ Motivados(aCpu) /\ FormaManejador /\ FormaCorto
  BY DEF Bien, TypeOK, Canales, InterrupcionesMotivadas, Formas
<1>1. \A tipo \in Resp : Respuesta(tipo) \in MensajesAlCPU /\ Respuesta(tipo).tipo # "INTERRUPT"
  BY DEF Respuesta, Msj, MensajesAlCPU, Resp
<1>2. ASSUME NEW c, NEW tipo \in Resp, Responde(c, tipo)
      PROVE  Motivados(aCpu')
  BY <1>0, <1>1, <1>2, EnviadoMotivado DEF Responde
<1>3. CASE UNCHANGED vars
  BY <1>0, <1>3 DEF vars
<1>4. CASE planificadorLargoPlazo
  <2> DEFINE s == t.listas["NEW"]
             q == Head(s)
  <2>1. s \in Seq(Procesos) /\ s # << >> /\ PasarAReady(aCpu, q)
    BY <1>0, <1>4 DEF planificadorLargoPlazo, Tabla, ConLista
  <2>2. q \in Procesos
    <3> HIDE DEF s
    <3> QED BY <2>1, HeadTailProperties
  <2> HIDE DEF q
  <2> QED BY <1>0, <2>1, <2>2, PasarAReadyMotivado
<1>5. CASE Corto
  <2>1. CASE cortoEnvia
    <3> DEFINE m == PidEnviado(corto.p)
    <3>1. corto.p \in Procesos /\ aCpu' = Enviado(aCpu, corto.c, m)
      BY <1>0, <2>1 DEF cortoEnvia, FormaCorto
    <3>2. m \in MensajesAlCPU /\ m.tipo # "INTERRUPT"
      BY <3>1 DEF PidEnviado, Msj, MensajesAlCPU
    <3> HIDE DEF m
    <3> QED BY <1>0, <3>1, <3>2, EnviadoMotivado
  <2>2. CASE cortoEsperaCompactacion \/ cortoSelecciona \/ cortoDevuelve \/ cortoEjecuta
    BY <1>0, <2>2 DEF cortoEsperaCompactacion, cortoSelecciona, cortoDevuelve, cortoEjecuta
  <2> QED BY <1>5, <2>1, <2>2 DEF Corto
<1>6. ASSUME NEW p \in Procesos, NEW c \in CPUs, Timer(p, c)
      PROVE  Motivados(aCpu')
  <2>1. CASE venceQuantum(p, c)
    BY <1>0, <2>1 DEF venceQuantum
  <2>2. CASE interrumpeQuantum(p, c)
    <3> DEFINE m == Interrupcion(p, 0)
    <3>1. HayQuantum /\ aCpu' = Enviado(aCpu, c, m)
      BY <2>2 DEF interrumpeQuantum, InterrupcionesMotivadas
    <3>2. m \in MensajesAlCPU /\ m.arg \in MotivosPosibles
      BY <3>1 DEF Interrupcion, Msj, MensajesAlCPU, Motivos, MotivosPosibles
    <3> HIDE DEF m
    <3> QED BY <1>0, <3>1, <3>2, EnviadoMotivado
  <2> QED BY <1>6, <2>1, <2>2 DEF Timer
<1>7. ASSUME NEW p \in Procesos, HiloIO(p)
      PROVE  Motivados(aCpu')
  <2>1. CASE hiloBloquea(p)
    BY <1>0, <2>1 DEF hiloBloquea
  <2>2. CASE hiloDesbloquea(p)
    BY <1>0, <2>2, PasarAReadyMotivado DEF hiloDesbloquea
  <2> QED BY <1>7, <2>1, <2>2 DEF HiloIO
<1>8. ASSUME NEW c \in CPUs, Manejador(c)
      PROVE  Motivados(aCpu')
  <2>1. CASE volverAReady(c) \/ despertarSiguiente(c)
    <3>1. manejador[c].pid \in Procesos /\ PasarAReady(aCpu, manejador[c].pid)
      BY <1>0, <2>1 DEF volverAReady, despertarSiguiente, FormaManejador
    <3> QED BY <1>0, <3>1, PasarAReadyMotivado
  <2>2. CASE mutex_lock_ocupado(c) \/ mutex_unlock(c)
    BY <1>0, <2>2, MutexMotivado
  <2>3. CASE desconectar(c)
    <3> DEFINE ps == UNION {desalojadosPor(t', p) : p \in enCpu(t, c)}
    <3>1. t' \in Tabla /\ aCpu' = Interrumpidas(aCpu, t', ps, 1)
      BY <1>0, <2>3, recuperarTipo DEF desconectar
    <3>2. 1 \in MotivosPosibles \/ ps = {}
      BY SinUrgentes
    <3> HIDE DEF ps
    <3>3. 1 \in Motivos
      BY DEF Motivos
    <3> QED BY <1>0, <3>1, <3>2, <3>3, InterrumpidasMotivadas
  <2>4. CASE manejar_solicitud_desalojo(c)
    <3> DEFINE ps == {q \in Procesos \ {Head(deCpu[c]).pid} : t.fdCpu[q] # Nadie}
    <3>1. Atiende(c, "MEM_ALLOC") /\ aCpu' = Interrumpidas(aCpu, t, ps, 2)
      BY <2>4 DEF manejar_solicitud_desalojo
    <3>2. "MEM_ALLOC" \in Syscalls
      <4>1. deCpu[c] \in Seq(MensajesDelCPU) /\ deCpu[c] # << >> /\ Head(deCpu[c]).tipo = "MEM_ALLOC"
        BY <3>1 DEF Atiende, Bien, TypeOK
      <4>2. 1 \in 1..Len(deCpu[c]) /\ Head(deCpu[c]) = deCpu[c][1]
        BY <4>1, HeadTailProperties, LenProperties, EmptySeq
      <4>3. deCpu[c][1].tipo \in Syscalls \cup {"DONE", "SEG_FAULT", "INTERRUPCION_ATENDIDA"}
        BY <4>2 DEF PedidosPermitidos
      <4> QED BY <4>1, <4>2, <4>3
    <3>3. 2 \in Motivos /\ 2 \in MotivosPosibles
      BY <3>2 DEF Motivos, MotivosPosibles
    <3> HIDE DEF ps
    <3> QED BY <1>0, <3>1, <3>3, InterrumpidasMotivadas
  <2>5. CASE atenderSegFault(c) \/ mutex_create(c) \/ mutex_unlock_ajeno(c) \/ crear_proceso(c)
             \/ km_mem_alloc(c) \/ finCompactacion(c) \/ mutex_lock_no_existe(c) \/ mutex_lock_libre(c)
             \/ avisarBloqueado(c)
    <3>1. \E x, tipo : tipo \in Resp /\ Responde(x, tipo)
      <4>1. "OK" \in Resp /\ "ERROR" \in Resp /\ "BLOQUEADO" \in Resp
        BY DEF Resp
      <4>2. CASE atenderSegFault(c) \/ mutex_create(c) \/ mutex_unlock_ajeno(c) \/ crear_proceso(c)
        BY <4>1, <4>2 DEF atenderSegFault, mutex_create, mutex_unlock_ajeno, crear_proceso
      <4>3. CASE km_mem_alloc(c) \/ finCompactacion(c)
        BY <4>1, <4>3 DEF km_mem_alloc, finCompactacion
      <4>4. CASE mutex_lock_no_existe(c) \/ mutex_lock_libre(c) \/ avisarBloqueado(c)
        BY <4>1, <4>4 DEF mutex_lock_no_existe, mutex_lock_libre, avisarBloqueado
      <4> QED BY <2>5, <4>2, <4>3, <4>4
    <3> QED BY <1>2, <3>1
  <2>6. CASE \/ conectar(c) \/ atenderDone(c) \/ atenderInterrupcionAtendida(c) \/ volverAlFrente(c)
             \/ bloquearPorMutex(c) \/ atenderSleep(c) \/ esperarConfirmaciones(c)
    BY <1>0, <2>6 DEF conectar, atenderDone, atenderInterrupcionAtendida, volverAlFrente,
       bloquearPorMutex, atenderSleep, esperarConfirmaciones
  <2> QED BY <1>8, <2>1, <2>2, <2>3, <2>4, <2>5, <2>6 DEF Manejador
<1>9. ASSUME NEW c \in CPUs, ModuloCPU(c) \/ caer(c)
      PROVE  Motivados(aCpu')
  <2>1. CASE aCpu' = aCpu
    BY <1>0, <2>1
  <2>2. CASE Recibe(c)
    <3>1. /\ aCpu[c] # << >> /\ aCpu[c] \in Seq(MensajesAlCPU) /\ aCpu'[c] = Tail(aCpu[c])
          /\ \A d \in CPUs \ {c} : aCpu'[d] = aCpu[d]
      BY <1>0, <2>2, RecibeTipo DEF Canales
    <3> DEFINE a == aCpu[c]
               r == Tail(a)
    <3>2. Motivado(r)
      <4>1. Motivado(a) /\ Len(a) \in Nat /\ Len(r) = Len(a) - 1 /\ \A i \in 1..Len(r) : r[i] = a[i + 1]
        BY <1>0, <3>1, HeadTailProperties, LenProperties, EmptySeq DEF Motivados
      <4> HIDE DEF a, r
      <4>2. \A i \in 1..Len(r) : i + 1 \in 1..Len(a) /\ r[i] = a[i + 1]
        BY <4>1
      <4> QED BY <4>1, <4>2 DEF Motivado
    <3>3. \A d \in CPUs : Motivado(aCpu'[d])
      BY <1>0, <3>1, <3>2 DEF Motivados
    <3> QED BY <3>3 DEF Motivados
  <2> QED BY <1>9, <2>1, <2>2, ModuloLee
<1> QED BY <1>3, <1>4, <1>5, <1>6, <1>7, <1>8, <1>9 DEF Next

\* What a module has seen has a reason.
LEMMA VistaMotivada ==
  ASSUME Bien, InterrupcionesMotivadas, NEW c \in CPUs, NEW m, EsVista(c, m)
  PROVE  m.arg \in MotivosPosibles
<1>1. CASE m \in cpu[c].pend
  BY <1>1 DEF InterrupcionesMotivadas
<1>2. CASE aCpu[c] # << >> /\ m = Head(aCpu[c])
  <2>1. aCpu[c] \in Seq(MensajesAlCPU)
    BY DEF Bien, TypeOK
  <2>2. 1 \in 1..Len(aCpu[c]) /\ Head(aCpu[c]) = aCpu[c][1]
    BY <1>2, <2>1, HeadTailProperties, LenProperties, EmptySeq
  <2>3. Motivado(aCpu[c])
    BY DEF InterrupcionesMotivadas, Motivados
  <2> QED BY <1>2, <2>2, <2>3 DEF Motivado, EsVista
<1> QED BY <1>1, <1>2 DEF EsVista

\* A timer is started by the dispatch of a process of a queue with quantum.
LEMMA PasoTimers ==
  ASSUME Bien, InterrupcionesMotivadas, [Next]_vars, NEW p \in Procesos, NEW c \in CPUs,
         timers'[p][c].dormidos > 0 \/ timers'[p][c].vencidos > 0
  PROVE  HayQuantum
<1>0. timers \in [Procesos -> [CPUs -> Relojes]] /\ corto.nivel \in Int
  BY DEF Bien, TypeOK, Relojes
<1>1. CASE timers' = timers
  BY <1>1 DEF InterrupcionesMotivadas
<1>2. CASE cortoEnvia
  <2>1. CASE ConQuantum(corto.nivel)
    BY <1>0, <2>1 DEF HayQuantum
  <2>2. CASE ~ConQuantum(corto.nivel)
    BY <1>1, <1>2, <2>2 DEF cortoEnvia
  <2> QED BY <2>1, <2>2
<1>3. ASSUME NEW q \in Procesos, NEW x \in CPUs, Timer(q, x)
      PROVE  HayQuantum
  BY <1>3 DEF Timer, venceQuantum, interrumpeQuantum, InterrupcionesMotivadas
<1>4. timers' = timers \/ cortoEnvia \/ \E q \in Procesos, x \in CPUs : Timer(q, x)
  <2>1. CASE \/ UNCHANGED vars \/ planificadorLargoPlazo
             \/ \E q \in Procesos : HiloIO(q)
    BY <2>1 DEF vars, planificadorLargoPlazo, HiloIO, hiloBloquea, hiloDesbloquea
  <2>2. CASE Corto
    BY <2>2 DEF Corto, cortoEsperaCompactacion, cortoSelecciona, cortoDevuelve, cortoEjecuta
  <2>3. CASE \E x \in CPUs : ModuloCPU(x) \/ caer(x)
    BY <2>3 DEF ModuloCPU, caer, esperarPid, syscallConRespuesta, syscallBloqueante,
       syscallExit, manejarSegFault, confirmarSegFault, atenderInterrupcion, guardarInterrupcion,
       recibirRespuesta, recibirBloqueado, respuestaInesperada
  <2>4. CASE \E x \in CPUs : Manejador(x)
    BY <2>4 DEF Manejador, conectar, desconectar, atenderDone, atenderSegFault,
       atenderInterrupcionAtendida, volverAReady, volverAlFrente, mutex_create,
       mutex_lock_no_existe, mutex_lock_libre, mutex_lock_ocupado, avisarBloqueado, bloquearPorMutex,
       mutex_unlock_ajeno, mutex_unlock, despertarSiguiente, atenderSleep, crear_proceso,
       km_mem_alloc, manejar_solicitud_desalojo, esperarConfirmaciones, finCompactacion
  <2> QED BY <2>1, <2>2, <2>3, <2>4 DEF Next
<1> QED BY <1>1, <1>2, <1>3, <1>4

\* Every interrupt keeps its reason from the scheduler to the module and back.
LEMMA PasoMotivos ==
  ASSUME Bien, PedidosPermitidos, InterrupcionesMotivadas, [Next]_vars
  PROVE  InterrupcionesMotivadas'
<1>1. ASSUME NEW c \in CPUs, NEW i \in cpu'[c].pend
      PROVE  i.arg \in MotivosPosibles
  <2>1. ModuloCPU(c) \/ caer(c) \/ MarcoDe(c)
    BY MarcoDeCPU
  <2>2. CASE ModuloCPU(c) \/ caer(c)
    <3>1. EsVista(c, i)
      BY <1>1, <2>2, ModuloDice DEF ModuloBien, GuardaVistas
    <3> QED BY <3>1, VistaMotivada
  <2>3. CASE MarcoDe(c)
    <3>1. cpu'[c] = cpu[c] \/ cpu'[c].pend = {}
      BY <2>3 DEF MarcoDe, CPUEn
    <3> QED BY <1>1, <3>1 DEF InterrupcionesMotivadas
  <2> QED BY <2>1, <2>2, <2>3
<1>2. ASSUME NEW c \in CPUs, NEW i \in 1..Len(deCpu'[c]), deCpu'[c][i].tipo = "INTERRUPCION_ATENDIDA"
      PROVE  deCpu'[c][i].arg \in MotivosPosibles
  <2>1. CASE \E j \in 1..Len(deCpu[c]) : deCpu'[c][i] = deCpu[c][j]
    BY <1>2, <2>1 DEF InterrupcionesMotivadas
  <2>2. CASE Dice(c, deCpu'[c][i])
    <3>1. CASE \E m : EsVista(c, m) /\ deCpu'[c][i].arg = m.arg
      BY <3>1, VistaMotivada
    <3> QED BY <1>2, <2>2, <3>1 DEF Dice
  <2> QED BY <1>2, <2>1, <2>2, PedidosDe
<1>3. ASSUME NEW c \in CPUs, manejador'[c].pc = "desalojado"
      PROVE  manejador'[c].arg \in MotivosPosibles
  <2>1. ManejadorDe(c)
    BY MarcoDelManejador
  <2>2. CASE manejador'[c] = manejador[c]
    BY <1>3, <2>2 DEF InterrupcionesMotivadas
  <2>3. CASE Oye(c, "INTERRUPCION_ATENDIDA") /\ manejador'[c].arg = Head(deCpu[c]).arg
    <3>1. deCpu[c] \in Seq(MensajesDelCPU) /\ deCpu[c] # << >>
      BY <2>3 DEF Bien, TypeOK, Oye
    <3>2. 1 \in 1..Len(deCpu[c]) /\ Head(deCpu[c]) = deCpu[c][1]
      BY <3>1, HeadTailProperties, LenProperties, EmptySeq
    <3> QED BY <2>3, <3>2 DEF InterrupcionesMotivadas, Oye
  <2> QED BY <1>3, <2>1, <2>2, <2>3 DEF ManejadorDe, ManejadorLibre
<1>4. Motivados(aCpu')
  BY PasoMotivados
<1>5. \A p \in Procesos, c \in CPUs :
        timers'[p][c].dormidos > 0 \/ timers'[p][c].vencidos > 0 => HayQuantum
  BY PasoTimers
<1> QED BY <1>1, <1>2, <1>3, <1>4, <1>5 DEF InterrupcionesMotivadas, Motivados, Motivado

\* There are no interrupts at the beginning.
LEMMA InitMotivos ==
  ASSUME Init
  PROVE  InterrupcionesMotivadas
<1>1. \A c \in CPUs : /\ aCpu[c] = << >> /\ deCpu[c] = << >> /\ cpu[c].pend = {}
                      /\ manejador[c].pc = "desconectado"
  BY DEF Init, CPUEn, ManejadorLibre
<1>2. \A p \in Procesos, c \in CPUs : timers[p][c].dormidos = 0 /\ timers[p][c].vencidos = 0
  BY DEF Init
<1>3. Len(<< >>) = 0 /\ \A i \in 1..0 : FALSE
  OBVIOUS
<1> QED BY <1>1, <1>2, <1>3 DEF InterrupcionesMotivadas, Motivados, Motivado

\* Without MEM_ALLOC no handler takes a process back to the front of READY.
LEMMA SinDesalojos ==
  ASSUME InterrupcionesMotivadas, "MEM_ALLOC" \notin Syscalls
  PROVE  VuelveDeExec /\ \A c \in CPUs : ~volverAlFrente(c)
<1>1. 2 \notin MotivosPosibles
  BY DEF MotivosPosibles, Motivos
<1>2. \A c \in CPUs : manejador[c].pc = "desalojado" => manejador[c].arg # 2
  BY <1>1 DEF InterrupcionesMotivadas
<1> QED BY <1>2 DEF VuelveDeExec, volverAlFrente


\* What the modules may be told, and what makes the lists inductive without evictions.
InvarianteDeMotivos == Bien /\ PedidosPermitidos /\ InterrupcionesMotivadas
InvarianteSinDesalojos == InvarianteDeMotivos /\ Listas

\* Every step keeps the invariant of the programs whose interrupts all have a reason.
LEMMA PasoDeMotivos ==
  ASSUME InvarianteDeMotivos, [Next]_vars
  PROVE  InvarianteDeMotivos'
BY PasoBien, PasoPermitidos, PasoMotivos DEF InvarianteDeMotivos

\* The reasons of the interrupts: a process that a handler evicts was interrupted by a timer
\* of a queue with quantum, by a more urgent process with QUEUE_PREEMPTION, or by a
\* compaction that a MEM_ALLOC started.
THEOREM InterrupcionesMotivadasSiempre == Spec => []InterrupcionesMotivadas
<1>1. Init => InvarianteDeMotivos
  BY InitBien, InitPermitidos, InitMotivos DEF InvarianteDeMotivos
<1>2. InvarianteDeMotivos /\ [Next]_vars => InvarianteDeMotivos'
  BY PasoDeMotivos
<1>3. InvarianteDeMotivos => InterrupcionesMotivadas
  BY DEF InvarianteDeMotivos
<1> QED BY <1>1, <1>2, <1>3, PTL DEF Spec

\* The lists agree with the PCBs: a process is once in the list of its state, in READY in
\* the queue of its current priority, and nowhere else, whatever actualizarEstadoProceso,
\* cambiar_prioridad, the dispatch and the evictions do.  With an unlock that overtakes a
\* BLOCK this is shown without evictions only.
THEOREM ListasSegunEstadoSiempre ==
  Spec => [](SinAdelantos \/ "MEM_ALLOC" \notin Syscalls => ListasSegunEstado)
<1>1. Spec => [](SinAdelantos => ListasSegunEstado)
  <2>1. InvarianteDeEjecucion /\ [Next]_vars => InvarianteDeEjecucion'
    BY PasoEjecucion
  <2>2. InvarianteDeEjecucion => (SinAdelantos => ListasSegunEstado)
    <3> SUFFICES ASSUME InvarianteDeEjecucion, SinAdelantos
                 PROVE  ListasSegunEstado
      OBVIOUS
    <3>1. t \in Tabla /\ Listas
      BY DEF InvarianteDeEjecucion, InvariantePlanificador, Bien, TypeOK, Listas, Ordenado
    <3> QED BY <3>1, ListasCuentan
  <2> QED BY <2>1, <2>2, InitEjecucion, PTL DEF Spec
<1>2. CASE "MEM_ALLOC" \notin Syscalls
  <2>1. Init => InvarianteSinDesalojos
    BY InitBien, InitPermitidos, InitMotivos, InitListas DEF InvarianteSinDesalojos, InvarianteDeMotivos
  <2>2. InvarianteSinDesalojos /\ [Next]_vars => InvarianteSinDesalojos'
    BY <1>2, PasoDeMotivos, SinDesalojos, PasoListas DEF InvarianteSinDesalojos, InvarianteDeMotivos
  <2>3. InvarianteSinDesalojos => (SinAdelantos \/ "MEM_ALLOC" \notin Syscalls => ListasSegunEstado)
    BY ListasCuentan DEF InvarianteSinDesalojos, InvarianteDeMotivos, Bien, TypeOK
  <2> QED BY <2>1, <2>2, <2>3, PTL DEF Spec
<1>3. CASE "MEM_ALLOC" \in Syscalls
  <2>1. (SinAdelantos => ListasSegunEstado) => (SinAdelantos \/ "MEM_ALLOC" \notin Syscalls => ListasSegunEstado)
    BY <1>3
  <2> QED BY <1>1, <2>1, PTL
<1> QED BY <1>2, <1>3

\* EXIT is for ever, with CPUs that disconnect at any moment, if no compaction evicts:
\* actualizarEstadoProceso refuses a process in EXIT, whatever thread arrives late.
THEOREM ExitEsTerminalSinCompactacion ==
  ASSUME "MEM_ALLOC" \notin Syscalls
  PROVE  Spec => ExitEsTerminal
<1>1. Init => InvarianteDeMotivos
  BY InitBien, InitPermitidos, InitMotivos DEF InvarianteDeMotivos
<1>2. InvarianteDeMotivos /\ [Next]_vars => InvarianteDeMotivos'
  BY PasoDeMotivos
<1>3. InvarianteDeMotivos /\ [Next]_vars => [\A p \in Procesos : t.estado[p] = "EXIT" => t'.estado[p] = "EXIT"]_vars
  <2>1. ASSUME InvarianteDeMotivos, [Next]_vars, NEW p \in Procesos, t.estado[p] = "EXIT"
        PROVE  t'.estado[p] = "EXIT"
    BY <2>1, SinDesalojos, PasoExit DEF InvarianteDeMotivos
  <2> QED BY <2>1
<1> QED BY <1>1, <1>2, <1>3, PTL DEF Spec, ExitEsTerminal

\* EXIT is for ever, with every system call and any number of CPUs, while no CPU has
\* disconnected and no unlock has overtaken a BLOCK: the evicted process that alFrenteDeReady
\* moves is in the hands of its handler, so no other thread can have ended it.
THEOREM ExitEsTerminalConectado ==
  Spec => [][SinDesconexiones /\ SinAdelantos =>
               \A p \in Procesos : t.estado[p] = "EXIT" => t'.estado[p] = "EXIT"]_vars
<1>1. InvariantePlanificador /\ [Next]_vars =>
        [SinDesconexiones /\ SinAdelantos =>
           \A p \in Procesos : t.estado[p] = "EXIT" => t'.estado[p] = "EXIT"]_vars
  <2>1. ASSUME InvariantePlanificador, [Next]_vars, SinDesconexiones, SinAdelantos,
               NEW p \in Procesos, t.estado[p] = "EXIT"
        PROVE  t'.estado[p] = "EXIT"
    <3>1. Bien /\ CadaUnoEnSuSitio /\ FormaManejador
      BY <2>1 DEF InvariantePlanificador, Lugares, Sitios, Bien, Formas, Ordenado
    <3>2. ASSUME NEW c \in CPUs, volverAlFrente(c)
          PROVE  t.estado[manejador[c].pid] # "EXIT"
      <4>1. manejador[c].pid \in Procesos /\ EnSitio(manejador[c].pid, "manejador", c)
        BY <3>1, <3>2 DEF volverAlFrente, FormaManejador, EnSitio, EnManejador
      <4> QED BY <3>1, <4>1 DEF CadaUnoEnSuSitio, Vivo, Acabados
    <3> QED BY <2>1, <3>1, <3>2, PasoExit
  <2> QED BY <2>1
<1>2. InvariantePlanificador /\ [Next]_vars => InvariantePlanificador'
  BY PasoPlanificador
<1> QED BY <1>1, <1>2, InitPlanificador, PTL DEF Spec

-----------------------------------------------------------------------------
(* A process in EXEC is somebody's business.                                *)

\* The channel b keeps what a has; it also adds no answer that blocks.
Mantiene(a, b) == \A i \in 1..Len(a) : \E j \in 1..Len(b) : b[j] = a[i]
Continua(a, b) == Mantiene(a, b) /\ (HayBloqueado(b) => HayBloqueado(a))
Continuan(canal, nuevo) == \A c \in CPUs : Continua(canal[c], nuevo[c])

\* What is sent keeps what was there.
LEMMA EnviadoContinua ==
  ASSUME NEW canal \in Canales, NEW c, NEW m \in MensajesAlCPU
  PROVE  /\ \A d \in CPUs : Mantiene(canal[d], Enviado(canal, c, m)[d])
         /\ \A d \in CPUs : d # c \/ m.tipo # "BLOQUEADO" => Continua(canal[d], Enviado(canal, c, m)[d])
<1> DEFINE b == Enviado(canal, c, m)
<1>1. \A d \in CPUs : b[d] = canal[d] \/ (d = c /\ b[d] = Append(canal[d], m))
  BY EnviadoTipo
<1> HIDE DEF b
<1>2. ASSUME NEW d \in CPUs
      PROVE  /\ Mantiene(canal[d], b[d])
             /\ d # c \/ m.tipo # "BLOQUEADO" => Continua(canal[d], b[d])
  <2> DEFINE a == canal[d]
             s == Append(a, m)
  <2>1. a \in Seq(MensajesAlCPU)
    BY DEF Canales
  <2>2. Len(a) \in Nat /\ Len(s) = Len(a) + 1 /\ s[Len(a) + 1] = m /\ \A i \in 1..Len(a) : s[i] = a[i]
    BY <2>1, AppendProperties, LenProperties
  <2> HIDE DEF a, s
  <2>3. /\ \A i \in 1..Len(s) : (i \in 1..Len(a) /\ s[i] = a[i]) \/ s[i] = m
        /\ \A i \in 1..Len(a) : i \in 1..Len(s) /\ s[i] = a[i]
    BY <2>2
  <2>4. Mantiene(a, s) /\ (m.tipo # "BLOQUEADO" => Continua(a, s)) /\ Continua(a, a)
    BY <2>3 DEF Continua, Mantiene, HayBloqueado
  <2>5. Mantiene(a, a)
    BY DEF Mantiene
  <2> QED BY <1>1, <2>4, <2>5 DEF a, s
<1> QED BY <1>2 DEF b

\* So do the interrupts.
LEMMA InterrumpidoContinua ==
  ASSUME NEW canal \in Canales, NEW nuevo \in Canales, SoloInterrumpe(canal, nuevo)
  PROVE  Continuan(canal, nuevo)
<1>1. ASSUME NEW c \in CPUs
      PROVE  Continua(canal[c], nuevo[c])
  <2> DEFINE a == canal[c]
             b == nuevo[c]
  <2>1. /\ Len(a) \in Nat /\ Len(b) \in Nat /\ Len(b) >= Len(a)
        /\ \A i \in 1..Len(a) : b[i] = a[i]
        /\ \A i \in (Len(a) + 1)..Len(b) : b[i] \in Interrupciones
    BY LenProperties DEF Canales, SoloInterrumpe
  <2> HIDE DEF a, b
  <2>2. \A i \in 1..Len(b) : (i \in 1..Len(a) /\ b[i] = a[i]) \/ b[i].tipo = "INTERRUPT"
    BY <2>1 DEF Interrupciones
  <2>3. \A i \in 1..Len(a) : i \in 1..Len(b) /\ b[i] = a[i]
    BY <2>1
  <2>4. Continua(a, b)
    BY <2>2, <2>3 DEF Continua, Mantiene, HayBloqueado
  <2> QED BY <2>4 DEF a, b
<1> QED BY <1>1 DEF Continuan

\* The scheduler only adds to the channels, and the answer that blocks is the one of mutex_lock.
LEMMA PasoContinua ==
  ASSUME Bien, FdDeLocks, [Next]_vars, NEW c \in CPUs
  PROVE  \/ ModuloCPU(c) \/ caer(c) \/ Continua(aCpu[c], aCpu'[c])
         \/ avisarBloqueado(c) /\ Mantiene(aCpu[c], aCpu'[c])
<1>0. t \in Tabla /\ aCpu \in Canales /\ FormaManejador /\ FormaCorto /\ 1 \in Motivos /\ 2 \in Motivos
  BY DEF Bien, TypeOK, Canales, Formas, Motivos
<1>1. /\ \A tipo \in Resp : Respuesta(tipo) \in MensajesAlCPU /\ Respuesta(tipo).tipo = tipo
      /\ "BLOQUEADO" \in Resp /\ "OK" \in Resp /\ "ERROR" \in Resp
  BY DEF Respuesta, Msj, MensajesAlCPU, Resp
<1>2. ASSUME NEW x, NEW tipo \in {"OK", "ERROR"}, Responde(x, tipo)
      PROVE  Continua(aCpu[c], aCpu'[c])
  BY <1>0, <1>1, <1>2, EnviadoContinua DEF Responde
<1>3. aCpu' = aCpu => Continua(aCpu[c], aCpu'[c])
  BY DEF Continua, Mantiene
<1>4. ASSUME NEW p \in Procesos, PasarAReady(aCpu, p)
      PROVE  Continua(aCpu[c], aCpu'[c])
  BY <1>0, <1>4, PasarAReadyTipo, InterrumpidoContinua DEF Continuan
<1>5. CASE UNCHANGED vars
  BY <1>3, <1>5 DEF vars
<1>6. CASE planificadorLargoPlazo
  <2> DEFINE s == t.listas["NEW"]
             q == Head(s)
  <2>1. s \in Seq(Procesos) /\ s # << >> /\ PasarAReady(aCpu, q)
    BY <1>0, <1>6 DEF planificadorLargoPlazo, Tabla, ConLista
  <2>2. q \in Procesos
    <3> HIDE DEF s
    <3> QED BY <2>1, HeadTailProperties
  <2> HIDE DEF q
  <2> QED BY <1>4, <2>1, <2>2
<1>7. CASE Corto
  <2>1. CASE cortoEnvia
    <3> DEFINE m == PidEnviado(corto.p)
    <3>1. corto.p \in Procesos /\ aCpu' = Enviado(aCpu, corto.c, m)
      BY <1>0, <2>1 DEF cortoEnvia, FormaCorto
    <3>2. m \in MensajesAlCPU /\ m.tipo # "BLOQUEADO"
      BY <3>1 DEF PidEnviado, Msj, MensajesAlCPU
    <3> HIDE DEF m
    <3> QED BY <1>0, <3>1, <3>2, EnviadoContinua
  <2>2. CASE cortoEsperaCompactacion \/ cortoSelecciona \/ cortoDevuelve \/ cortoEjecuta
    BY <1>3, <2>2 DEF cortoEsperaCompactacion, cortoSelecciona, cortoDevuelve, cortoEjecuta
  <2> QED BY <1>7, <2>1, <2>2 DEF Corto
<1>8. ASSUME NEW p \in Procesos, NEW x \in CPUs, Timer(p, x)
      PROVE  Continua(aCpu[c], aCpu'[c])
  <2>1. CASE venceQuantum(p, x)
    BY <1>3, <2>1 DEF venceQuantum
  <2>2. CASE interrumpeQuantum(p, x)
    <3> DEFINE m == Interrupcion(p, 0)
    <3>1. aCpu' = Enviado(aCpu, x, m)
      BY <2>2 DEF interrumpeQuantum
    <3>2. m \in MensajesAlCPU /\ m.tipo # "BLOQUEADO"
      BY DEF Interrupcion, Msj, MensajesAlCPU, Motivos
    <3> HIDE DEF m
    <3> QED BY <1>0, <3>1, <3>2, EnviadoContinua
  <2> QED BY <1>8, <2>1, <2>2 DEF Timer
<1>9. ASSUME NEW p \in Procesos, HiloIO(p)
      PROVE  Continua(aCpu[c], aCpu'[c])
  BY <1>3, <1>4, <1>9 DEF HiloIO, hiloBloquea, hiloDesbloquea
<1>10. ASSUME NEW x \in CPUs, Manejador(x)
       PROVE  \/ Continua(aCpu[c], aCpu'[c])
              \/ avisarBloqueado(c) /\ Mantiene(aCpu[c], aCpu'[c])
  <2>1. CASE volverAReady(x) \/ despertarSiguiente(x)
    <3>1. manejador[x].pid \in Procesos /\ PasarAReady(aCpu, manejador[x].pid)
      BY <1>0, <2>1 DEF volverAReady, despertarSiguiente, FormaManejador
    <3> QED BY <1>4, <3>1
  <2>2. CASE mutex_lock_ocupado(x)
    <3> DEFINE duenio == tomador[Head(deCpu[x]).arg]
               ps == desalojadosPorPrioridad(t, duenio, t.prioridad[Head(deCpu[x]).pid])
               n == Interrumpidas(aCpu, t', ps, 1)
    <3>1. aCpu' = aCpu \/ aCpu' = n
      BY <2>2 DEF mutex_lock_ocupado
    <3>2. t' \in Tabla
      BY <2>2, LockOcupadoEfecto
    <3>3. n \in Canales /\ SoloInterrumpe(aCpu, n)
      <4> HIDE DEF ps
      <4> QED BY <1>0, <3>2, InterrumpidasTipo
    <3> HIDE DEF n
    <3>4. Continua(aCpu[c], n[c])
      BY <1>0, <3>3, InterrumpidoContinua DEF Continuan
    <3> QED BY <1>3, <3>1, <3>4
  <2>7. CASE avisarBloqueado(x)
    <3> DEFINE r == Respuesta("BLOQUEADO")
    <3>1. aCpu' = Enviado(aCpu, x, r)
      BY <2>7 DEF avisarBloqueado, Responde, FdDeLocks
    <3>2. r \in MensajesAlCPU
      BY <1>1
    <3> HIDE DEF r
    <3>3. Mantiene(aCpu[c], aCpu'[c]) /\ (c # x => Continua(aCpu[c], aCpu'[c]))
      BY <1>0, <3>1, <3>2, EnviadoContinua
    <3> QED BY <2>7, <3>3
  <2>3. CASE mutex_unlock(x)
    <3> DEFINE p == Head(deCpu[x]).pid
               r == Respuesta("OK")
               con == Enviado(aCpu, x, r)
               ps == desalojadosPorPrioridad(t, p, PrioridadAlSoltar(p))
               n == Interrumpidas(con, t', ps, 1)
    <3>1. aCpu' = n
      BY <2>3 DEF mutex_unlock
    <3>2. t' \in Tabla
      BY <2>3, UnlockEfecto
    <3>3. con \in Canales /\ Continua(aCpu[c], con[c])
      <4>1. r \in MensajesAlCPU /\ r.tipo # "BLOQUEADO"
        BY <1>1
      <4> HIDE DEF r
      <4> QED BY <1>0, <4>1, EnviadoTipo, EnviadoContinua
    <3>4. n \in Canales /\ SoloInterrumpe(con, n)
      <4> HIDE DEF con, ps
      <4> QED BY <1>0, <3>2, <3>3, InterrumpidasTipo
    <3> HIDE DEF con, n
    <3>5. Continua(con[c], n[c])
      BY <3>3, <3>4, InterrumpidoContinua DEF Continuan
    <3>6. Continua(aCpu[c], n[c])
      BY <3>3, <3>5 DEF Continua, Mantiene
    <3> QED BY <3>1, <3>6
  <2>4. CASE desconectar(x) \/ manejar_solicitud_desalojo(x)
    <3>1. PICK u \in Tabla, motivo \in Motivos : \E ps : aCpu' = Interrumpidas(aCpu, u, ps, motivo)
      <4>1. CASE desconectar(x)
        <5>1. t' \in Tabla
          BY <1>0, <4>1, recuperarTipo DEF desconectar
        <5> QED BY <1>0, <4>1, <5>1 DEF desconectar
      <4>2. CASE manejar_solicitud_desalojo(x)
        BY <1>0, <4>2 DEF manejar_solicitud_desalojo
      <4> QED BY <2>4, <4>1, <4>2
    <3>2. PICK ps : aCpu' = Interrumpidas(aCpu, u, ps, motivo)
      BY <3>1
    <3>3. Interrumpidas(aCpu, u, ps, motivo) \in Canales /\ SoloInterrumpe(aCpu, Interrumpidas(aCpu, u, ps, motivo))
      BY <1>0, InterrumpidasTipo
    <3> QED BY <1>0, <3>2, <3>3, InterrumpidoContinua DEF Continuan
  <2>5. CASE atenderSegFault(x) \/ mutex_create(x) \/ mutex_unlock_ajeno(x) \/ crear_proceso(x)
             \/ km_mem_alloc(x) \/ finCompactacion(x) \/ mutex_lock_no_existe(x) \/ mutex_lock_libre(x)
    <3>1. \E y : \E tipo \in {"OK", "ERROR"} : Responde(y, tipo)
      <4>1. CASE atenderSegFault(x) \/ mutex_create(x) \/ mutex_unlock_ajeno(x) \/ crear_proceso(x)
        BY <4>1 DEF atenderSegFault, mutex_create, mutex_unlock_ajeno, crear_proceso
      <4>2. CASE km_mem_alloc(x) \/ finCompactacion(x)
        BY <4>2 DEF km_mem_alloc, finCompactacion
      <4>3. CASE mutex_lock_no_existe(x) \/ mutex_lock_libre(x)
        BY <4>3 DEF mutex_lock_no_existe, mutex_lock_libre
      <4> QED BY <2>5, <4>1, <4>2, <4>3
    <3> QED BY <1>2, <3>1
  <2>6. CASE \/ conectar(x) \/ atenderDone(x) \/ atenderInterrupcionAtendida(x) \/ volverAlFrente(x)
             \/ bloquearPorMutex(x) \/ atenderSleep(x) \/ esperarConfirmaciones(x)
    BY <1>3, <2>6 DEF conectar, atenderDone, atenderInterrupcionAtendida, volverAlFrente,
       bloquearPorMutex, atenderSleep, esperarConfirmaciones
  <2> QED BY <1>10, <2>1, <2>2, <2>3, <2>4, <2>5, <2>6, <2>7 DEF Manejador
<1>11. ASSUME NEW x \in CPUs, ModuloCPU(x) \/ caer(x), x # c
       PROVE  Continua(aCpu[c], aCpu'[c])
  <2>1. aCpu'[c] = aCpu[c]
    BY <1>11, ModuloSolo
  <2> QED BY <2>1 DEF Continua, Mantiene
<1> QED BY <1>5, <1>6, <1>7, <1>8, <1>9, <1>10, <1>11 DEF Next

\* What a module does when there are no interrupts: it makes a call, takes the message it
\* waits for, or ends.
Llamada(c) ==
  /\ cpu[c].modo = "ejecuta" /\ aCpu'[c] = aCpu[c]
  /\ \E m \in MensajesDelCPU :
       /\ deCpu'[c] = Append(deCpu[c], m) /\ m.pid = cpu[c].pid
       /\ m.tipo \in ConRespuesta => cpu'[c].modo = "respuesta"
       /\ cpu'[c].modo = "ack" => m.tipo = "SEG_FAULT"
       /\ cpu'[c].modo \in {"respuesta", "ack", "espera"}
Recibida(c) ==
  LET m == Head(aCpu[c]) IN
  /\ aCpu[c] # << >> /\ aCpu'[c] = Tail(aCpu[c]) /\ deCpu'[c] = deCpu[c] /\ m.tipo # "INTERRUPT"
  /\ \/ /\ cpu[c].modo = "espera" /\ m.tipo = "PID"
        /\ cpu'[c].modo = "ejecuta" /\ cpu'[c].pid = m.pid
     \/ cpu[c].modo = "espera" /\ m.tipo # "PID" /\ cpu'[c] = cpu[c]
     \/ cpu[c].modo = "ack" /\ cpu'[c].modo = "espera"
     \/ /\ cpu[c].modo = "respuesta" /\ (m.tipo = "OK" \/ cpu[c].sys \in {"MEM_ALLOC", "INIT_PROC"})
        /\ cpu'[c].modo = "ejecuta" /\ cpu'[c].pid = cpu[c].pid
     \/ cpu[c].modo = "respuesta" /\ m.tipo = "BLOQUEADO" /\ cpu'[c].modo = "espera"
     \/ cpu'[c].modo = "caida"
Fin(c) == cpu'[c].modo = "caida" /\ aCpu'[c] = aCpu[c] /\ deCpu'[c] = deCpu[c]

\* Where nothing interrupts, a CPU module asks, takes an answer, or ends the turn of its process.
LEMMA ModuloSinMotivos ==
  ASSUME Bien, InterrupcionesMotivadas, MotivosPosibles = {}, NEW c \in CPUs, ModuloCPU(c) \/ caer(c)
  PROVE  Llamada(c) \/ Recibida(c) \/ Fin(c)
<1> DEFINE e == cpu[c]
           d == deCpu[c]
           a == aCpu[c]
<1>0. /\ e \in EstadoCPU /\ cpu \in [CPUs -> EstadoCPU] /\ deCpu \in [CPUs -> Seq(MensajesDelCPU)]
      /\ a \in Seq(MensajesAlCPU) /\ d \in Seq(MensajesDelCPU) /\ e.pend \in SUBSET MensajesAlCPU
      /\ e.modo \in {"ejecuta", "respuesta", "ack"} => e.pid \in Procesos
      /\ e.modo = "respuesta" => e.sys \in ConRespuesta
  BY DEF Bien, TypeOK, EstadoCPU, Formas, FormaCPU
<1>1. ASSUME NEW k2, cpu' = [cpu EXCEPT ![c] = k2]
      PROVE  cpu'[c] = k2
  BY <1>0, <1>1
<1>2. /\ CPUEn("espera").modo = "espera" /\ CPUEn("caida").modo = "caida"
      /\ \A q : [CPUEn("ejecuta") EXCEPT !.pid = q].modo = "ejecuta" /\ [CPUEn("ejecuta") EXCEPT !.pid = q].pid = q
  BY DEF CPUEn
\* There is no interrupt to read nor one kept.
<1>3. e.pend = {}
  BY DEF InterrupcionesMotivadas
<1>4. a # << >> => Head(a).tipo # "INTERRUPT"
  <2>1. a # << >> => 1 \in 1..Len(a) /\ Head(a) = a[1]
    <3> HIDE DEF a
    <3> QED BY <1>0, HeadTailProperties, LenProperties, EmptySeq
  <2> QED BY <2>1 DEF InterrupcionesMotivadas, Motivados, Motivado
<1>5. Recibe(c) => a # << >> /\ aCpu'[c] = Tail(a) /\ Head(a).tipo # "INTERRUPT"
  BY <1>4, RecibeTipo
<1>6. ASSUME NEW tipo \in ConRespuesta \cup Bloqueantes \cup {"DONE", "SEG_FAULT", "INTERRUPCION_ATENDIDA"},
             NEW arg \in Args, deCpu' = Pedido(c, tipo, arg), e.modo = "ejecuta"
      PROVE  \E m \in MensajesDelCPU : deCpu'[c] = Append(d, m) /\ m.pid = e.pid /\ m.tipo = tipo
  <2> DEFINE m == Msj(tipo, e.pid, arg)
  <2>1. m \in MensajesDelCPU /\ m.pid = e.pid /\ m.tipo = tipo
    BY <1>0, <1>6 DEF Msj, MensajesDelCPU
  <2>2. deCpu'[c] = Append(d, m)
    BY <1>0, <1>6 DEF Pedido
  <2> HIDE DEF m
  <2> QED BY <2>1, <2>2
<1>7. CASE esperarPid(c)
  <2>1. Recibe(c) /\ e.modo = "espera" /\ deCpu' = deCpu
    BY <1>7 DEF esperarPid
  <2>2. CASE Head(a).tipo = "PID"
    <3>1. cpu' = [cpu EXCEPT ![c] = [CPUEn("ejecuta") EXCEPT !.pid = Head(a).pid]]
      BY <1>7, <2>2 DEF esperarPid
    <3>2. cpu'[c].modo = "ejecuta" /\ cpu'[c].pid = Head(a).pid
      BY <1>1, <1>2, <3>1
    <3> QED BY <1>5, <2>1, <2>2, <3>2 DEF Recibida
  <2>3. CASE Head(a).tipo # "PID"
    <3>1. cpu' = cpu
      BY <1>7, <2>3 DEF esperarPid
    <3> QED BY <1>5, <2>1, <2>3, <3>1 DEF Recibida
  <2> QED BY <2>2, <2>3
<1>8. CASE syscallConRespuesta(c)
  <2>1. PICK s \in ConRespuesta, arg \in Args :
          /\ deCpu' = Pedido(c, s, arg)
          /\ cpu' = [cpu EXCEPT ![c].modo = "respuesta", ![c].sys = s, ![c].arg = arg]
    BY <1>8 DEF syscallConRespuesta, ArgsDe, Args
  <2>2. e.modo = "ejecuta" /\ aCpu' = aCpu
    BY <1>8 DEF syscallConRespuesta
  <2>3. cpu'[c].modo = "respuesta"
    BY <1>0, <2>1 DEF EstadoCPU
  <2>4. PICK m \in MensajesDelCPU : deCpu'[c] = Append(d, m) /\ m.pid = e.pid
    BY <1>6, <2>1, <2>2
  <2> QED BY <2>2, <2>3, <2>4 DEF Llamada
<1>9. CASE syscallBloqueante(c) \/ syscallExit(c) \/ manejarSegFault(c)
  <2>0. e.modo = "ejecuta" /\ aCpu' = aCpu /\ Nadie \in Args
    BY <1>9 DEF syscallBloqueante, syscallExit, manejarSegFault, Args
  <2>1. PICK s \in Bloqueantes \cup {"DONE", "SEG_FAULT"} :
          /\ deCpu' = Pedido(c, s, Nadie)
          /\ cpu'[c].modo = "espera" \/ (cpu'[c].modo = "ack" /\ s = "SEG_FAULT")
    <3>1. CASE syscallBloqueante(c) \/ syscallExit(c)
      <4>1. cpu' = [cpu EXCEPT ![c] = CPUEn("espera")]
        BY <3>1 DEF syscallBloqueante, syscallExit
      <4>2. cpu'[c].modo = "espera"
        BY <1>1, <1>2, <4>1
      <4> QED BY <3>1, <4>2 DEF syscallBloqueante, syscallExit
    <3>2. CASE manejarSegFault(c)
      BY <1>0, <3>2 DEF manejarSegFault, EstadoCPU
    <3> QED BY <1>9, <3>1, <3>2
  <2>2. PICK m \in MensajesDelCPU : deCpu'[c] = Append(d, m) /\ m.pid = e.pid /\ m.tipo = s
    BY <1>6, <2>0, <2>1
  <2>3. m.tipo \notin ConRespuesta
    BY <2>1, <2>2 DEF Bloqueantes, ConRespuesta
  <2> QED BY <2>0, <2>1, <2>2, <2>3 DEF Llamada
<1>10. CASE confirmarSegFault(c)
  <2>1. Recibe(c) /\ e.modo = "ack" /\ deCpu' = deCpu /\ cpu' = [cpu EXCEPT ![c] = CPUEn("espera")]
    BY <1>10 DEF confirmarSegFault
  <2>2. cpu'[c].modo = "espera"
    BY <1>1, <1>2, <2>1
  <2> QED BY <1>5, <2>1, <2>2 DEF Recibida
<1>11. CASE atenderInterrupcion(c) \/ respuestaInesperada(c)
  <2>1. Recibe(c)
    BY <1>11 DEF atenderInterrupcion, respuestaInesperada
  <2>2. deCpu' = deCpu /\ cpu' = [cpu EXCEPT ![c] = CPUEn("caida")]
    BY <1>4, <1>5, <1>11, <2>1 DEF atenderInterrupcion, respuestaInesperada
  <2>3. cpu'[c].modo = "caida"
    BY <1>1, <1>2, <2>2
  <2> QED BY <1>5, <2>1, <2>2, <2>3 DEF Recibida
<1>12. CASE guardarInterrupcion(c)
  BY <1>4, <1>5, <1>12 DEF guardarInterrupcion
<1>13. CASE recibirRespuesta(c)
  <2>1. Recibe(c) /\ e.modo = "respuesta" /\ DejaSyscall(c)
    BY <1>13 DEF recibirRespuesta
  <2>2. Head(a).tipo = "OK" \/ e.sys \in {"MEM_ALLOC", "INIT_PROC"}
    BY <1>13 DEF recibirRespuesta, AceptaCualquiera
  <2>3. deCpu' = deCpu /\ cpu' = [cpu EXCEPT ![c] = [CPUEn("ejecuta") EXCEPT !.pid = e.pid]]
    BY <1>3, <2>1 DEF DejaSyscall
  <2>4. cpu'[c].modo = "ejecuta" /\ cpu'[c].pid = e.pid
    BY <1>1, <1>2, <2>3
  <2> QED BY <1>5, <2>1, <2>2, <2>3, <2>4 DEF Recibida
<1>14. CASE recibirBloqueado(c)
  <2>1. /\ Recibe(c) /\ e.modo = "respuesta" /\ Head(a).tipo = "BLOQUEADO"
        /\ deCpu' = deCpu /\ cpu' = [cpu EXCEPT ![c] = CPUEn("espera")]
    BY <1>14 DEF recibirBloqueado
  <2>2. cpu'[c].modo = "espera"
    BY <1>1, <1>2, <2>1
  <2> QED BY <1>5, <2>1, <2>2 DEF Recibida
<1>15. CASE caer(c)
  <2>1. aCpu' = aCpu /\ deCpu' = deCpu /\ cpu' = [cpu EXCEPT ![c] = CPUEn("caida")]
    BY <1>15 DEF caer
  <2>2. cpu'[c].modo = "caida"
    BY <1>1, <1>2, <2>1
  <2> QED BY <2>1, <2>2 DEF Fin
<1> QED BY <1>7, <1>8, <1>9, <1>10, <1>11, <1>12, <1>13, <1>14, <1>15 DEF ModuloCPU

\* The elements of a queue whose first one is taken, and of one that gets another.
LEMMA ElementosDeCola ==
  ASSUME NEW S, NEW s \in Seq(S), s # << >>
  PROVE  /\ \A i \in 1..Len(s) : s[i] = Head(s) \/ \E j \in 1..Len(Tail(s)) : Tail(s)[j] = s[i]
         /\ \A j \in 1..Len(Tail(s)) : \E i \in 1..Len(s) : Tail(s)[j] = s[i]
<1>1. /\ Len(s) \in Nat /\ Len(s) > 0 /\ Len(Tail(s)) = Len(s) - 1 /\ Head(s) = s[1]
      /\ \A j \in 1..Len(Tail(s)) : Tail(s)[j] = s[j + 1]
  BY HeadTailProperties, LenProperties, EmptySeq
<1>2. ASSUME NEW i \in 1..Len(s), i # 1
      PROVE  i - 1 \in 1..Len(Tail(s)) /\ Tail(s)[i - 1] = s[i]
  BY <1>1, <1>2
<1>3. \A j \in 1..Len(Tail(s)) : j + 1 \in 1..Len(s)
  BY <1>1
<1> QED BY <1>1, <1>2, <1>3

\* The elements of a sequence with one more.
LEMMA ElementosAgregados ==
  ASSUME NEW S, NEW s \in Seq(S), NEW m \in S
  PROVE  /\ \A j \in 1..Len(Append(s, m)) : Append(s, m)[j] = m \/ \E i \in 1..Len(s) : Append(s, m)[j] = s[i]
         /\ \E j \in 1..Len(Append(s, m)) : Append(s, m)[j] = m
         /\ Mantiene(s, Append(s, m))
<1> DEFINE b == Append(s, m)
<1>1. Len(s) \in Nat /\ Len(b) = Len(s) + 1 /\ b[Len(s) + 1] = m /\ \A i \in 1..Len(s) : b[i] = s[i]
  BY AppendProperties, LenProperties
<1> HIDE DEF b
<1>2. \A j \in 1..Len(b) : (j = Len(s) + 1 /\ b[j] = m) \/ (j \in 1..Len(s) /\ b[j] = s[j])
  BY <1>1
<1>3. Len(s) + 1 \in 1..Len(b) /\ \A i \in 1..Len(s) : i \in 1..Len(b)
  BY <1>1
<1>4. Mantiene(s, b)
  BY <1>1, <1>3 DEF Mantiene
<1> QED BY <1>1, <1>2, <1>3, <1>4 DEF b

\* A call that is not answered yet has its CPU waiting, and who waits for the confirmation of
\* a segmentation fault will get it.
Debe(c) ==
  /\ \A i \in 1..Len(deCpu[c]) :
       deCpu[c][i].tipo \in ConRespuesta => cpu[c].modo \in {"respuesta", "caida"}
  /\ cpu[c].modo = "ack" =>
       (\E i \in 1..Len(deCpu[c]) : deCpu[c][i].tipo = "SEG_FAULT") \/ HayResp(aCpu[c])
RespuestasDebidas == \A c \in CPUs : Debe(c)

\* What a module takes: the PID only when it waits for one.
LEMMA RecibidaEnTurno ==
  ASSUME Bien, TurnoCPU, NEW c \in CPUs, Debe(c), Recibida(c), cpu'[c].modo # "caida"
  PROVE  /\ Head(aCpu[c]).tipo = "PID" => cpu[c].modo = "espera"
         /\ cpu[c].modo = "respuesta" => Head(aCpu[c]).tipo \in Resp
<1> DEFINE a == aCpu[c]
           d == deCpu[c]
           k == cpu[c]
<1>0. /\ Turno(Contains(cpusLibres, c), corto.c = c, a, d, k, manejador[c])
      /\ a \in Seq(MensajesAlCPU) /\ d \in Seq(MensajesDelCPU)
  BY DEF TurnoCPU, TurnoDe, Bien, TypeOK
<1>1. a # << >> /\ Head(a) \in MensajesAlCPU
  BY <1>0 DEF Recibida
<1>2. Head(a).tipo = "PID" => HayPid(a)
  <2> HIDE DEF a
  <2> QED BY <1>0, <1>1, SocketRecibido DEF Turno
<1>3. HayBloqueado(a) => HayResp(a)
  BY DEF HayBloqueado, HayResp, Resp
<1>4. \A i \in 1..Len(d) : d[i].tipo = "SEG_FAULT" => Pide(d) /\ d # << >>
  <2> HIDE DEF d
  <2>1. "SEG_FAULT" \in Piden
    BY DEF Piden
  <2>2. \A i \in 1..Len(d) : d # << >>
    BY <1>0, EmptySeq
  <2> QED BY <2>1, <2>2 DEF Pide
<1>5. CASE Head(a).tipo = "PID"
  <2>1. HayPid(a)
    BY <1>2, <1>5
  <2>2. k.modo # "ejecuta" /\ d = << >>
    <3> HIDE DEF a, d, k
    <3>1. d = << >> /\ ~Corre(a, k)
      BY <1>0, <2>1 DEF Turno, Quieto
    <3> QED BY <1>0, <1>3, <3>1 DEF Turno, Corre
  <2>3. k.modo # "ack"
    <3>1. ASSUME HayResp(a)
          PROVE  Head(a).tipo \in Resp
      <4> HIDE DEF a
      <4>1. OrdenSocket(a) /\ 1 \in 1..Len(a) /\ Head(a) = a[1]
        BY <1>0, <1>1, HeadTailProperties, LenProperties, EmptySeq DEF Turno
      <4>2. PICK i \in 1..Len(a) : a[i].tipo \in Resp
        BY <3>1 DEF HayResp
      <4>3. i < 1
        BY <1>5, <4>1, <4>2 DEF OrdenSocket
      <4>4. Len(a) \in Nat
        BY <1>0, LenProperties
      <4> QED BY <4>2, <4>3, <4>4
    <3>2. k.modo = "ack" => HayResp(a)
      BY <1>4, <2>2 DEF Debe
    <3>3. "PID" \notin Resp
      BY DEF Resp
    <3> QED BY <1>5, <3>1, <3>2, <3>3
  <2>4. k.modo # "respuesta"
    <3>1. ASSUME k.modo = "respuesta"
          PROVE  FALSE
      <4>1. HayBloqueado(a) /\ k.sys = "MUTEX_LOCK"
        <5> HIDE DEF a, d, k
        <5> QED BY <1>0, <2>1, <3>1 DEF Turno, Corre
      <4> QED BY <1>5, <3>1, <4>1 DEF Recibida
    <3> QED BY <3>1
  <2> QED BY <1>5, <2>2, <2>3, <2>4 DEF Recibida
<1> QED BY <1>1, <1>5 DEF MensajesAlCPU, Resp, Recibida

\* A step of a CPU module keeps this: whoever calls waits for the answer.
LEMMA ModuloDebe ==
  ASSUME Bien, TurnoCPU, NEW c \in CPUs, Debe(c), Llamada(c) \/ Recibida(c) \/ Fin(c)
  PROVE  Debe(c)'
<1> DEFINE a == aCpu[c]
           d == deCpu[c]
           k == cpu[c]
<1>0. /\ Turno(Contains(cpusLibres, c), corto.c = c, a, d, k, manejador[c])
      /\ a \in Seq(MensajesAlCPU) /\ d \in Seq(MensajesDelCPU)
  BY DEF TurnoCPU, TurnoDe, Bien, TypeOK
<1>1. ASSUME cpu'[c].modo = "caida"
      PROVE  Debe(c)'
  BY <1>1 DEF Debe
<1>2. CASE Llamada(c)
  <2>1. PICK m \in MensajesDelCPU :
          /\ deCpu'[c] = Append(d, m)
          /\ m.tipo \in ConRespuesta => cpu'[c].modo = "respuesta"
          /\ cpu'[c].modo = "ack" => m.tipo = "SEG_FAULT"
    BY <1>2 DEF Llamada
  <2>2. Len(d) = 0
    <3>1. d = << >>
      <4> HIDE DEF a, d, k
      <4>1. k.modo = "ejecuta"
        BY <1>2 DEF Llamada, k
      <4> QED BY <1>0, <4>1 DEF Turno, Quieto
    <3> HIDE DEF d
    <3> QED BY <3>1
  <2> DEFINE d2 == deCpu'[c]
  <2>3. /\ \A i \in 1..Len(d2) : d2[i] = m
        /\ \E i \in 1..Len(d2) : d2[i] = m
    <3>1. d2 = Append(d, m)
      BY <2>1
    <3> HIDE DEF d, d2
    <3>2. /\ \A j \in 1..Len(Append(d, m)) : Append(d, m)[j] = m \/ \E i \in 1..Len(d) : Append(d, m)[j] = d[i]
          /\ \E j \in 1..Len(Append(d, m)) : Append(d, m)[j] = m
      BY <1>0, ElementosAgregados
    <3> QED BY <2>2, <3>1, <3>2
  <2> HIDE DEF d
  <2> QED BY <2>1, <2>3 DEF Debe
<1>3. CASE Recibida(c) /\ cpu'[c].modo # "caida"
  <2>1. /\ Head(a).tipo = "PID" => k.modo = "espera"
        /\ k.modo = "respuesta" => Head(a).tipo \in Resp
    BY <1>3, RecibidaEnTurno
  <2>2. /\ cpu'[c].modo # "ack" /\ deCpu'[c] = d /\ a # << >>
        /\ k.modo \in {"espera", "ack", "respuesta"}
    BY <1>3 DEF Recibida
  <2>3. ASSUME k.modo = "respuesta", NEW i \in 1..Len(d)
        PROVE  d[i].tipo \notin ConRespuesta
    <3>1. HayResp(a)
      <4>1. a # << >> /\ OrdenSocket(a) /\ Head(a).tipo \in Resp
        BY <1>0, <2>1, <2>2, <2>3 DEF Turno
      <4> HIDE DEF a
      <4> QED BY <1>0, <4>1, SocketRecibido
    <3>2. ~Pide(d)
      <4> HIDE DEF a, d, k
      <4> QED BY <1>0, <3>1 DEF Turno
    <3> QED BY <2>3, <3>2 DEF Pide, Piden
  <2>4. \A i \in 1..Len(d) : d[i].tipo \notin ConRespuesta
    BY <2>2, <2>3 DEF Debe
  <2> QED BY <2>2, <2>4 DEF Debe
<1>4. CASE Fin(c)
  BY <1>1, <1>4 DEF Fin
<1> QED BY <1>1, <1>2, <1>3, <1>4

\* The CPU c has p: it runs it, or p is on its way in one direction or the other.
Tiene(p, c) == EnLaCPU(aCpu[c], deCpu[c], cpu[c], p)

\* A module keeps the process it has, or ends.
LEMMA ModuloNoPierde ==
  ASSUME Bien, TurnoCPU, NEW c \in CPUs, Debe(c), Llamada(c) \/ Recibida(c) \/ Fin(c),
         NEW p \in Procesos, Tiene(p, c)
  PROVE  Tiene(p, c)' \/ cpu'[c].modo = "caida"
<1> DEFINE a == aCpu[c]
           d == deCpu[c]
           k == cpu[c]
<1>0. /\ Turno(Contains(cpusLibres, c), corto.c = c, a, d, k, manejador[c])
      /\ a \in Seq(MensajesAlCPU) /\ d \in Seq(MensajesDelCPU)
  BY DEF TurnoCPU, TurnoDe, Bien, TypeOK
<1>1. HayBloqueado(a) => HayResp(a)
  BY DEF HayBloqueado, HayResp, Resp
<1>2. EnLaCPU(aCpu'[c], deCpu'[c], cpu'[c], p) => Tiene(p, c)'
  BY DEF Tiene
<1>3. EnCanal(a, p) \/ EnPedido(d, p) \/ (Corre(a, k) /\ k.pid = p)
  BY DEF Tiene, EnLaCPU
<1>4. CASE Llamada(c)
  <2>1. PICK m \in MensajesDelCPU : deCpu'[c] = Append(d, m) /\ m.pid = k.pid
    BY <1>4 DEF Llamada
  <2>2. d = << >> /\ ~HayPid(a)
    <3>1. k.modo = "ejecuta"
      BY <1>4 DEF Llamada
    <3> HIDE DEF a, d, k
    <3> QED BY <1>0, <1>1, <3>1 DEF Turno, Quieto, Corre
  <2>3. k.pid = p
    <3>1. ~EnCanal(a, p)
      BY <2>2 DEF EnCanal, HayPid
    <3>2. ~EnPedido(d, p)
      <4>1. d = << >>
        BY <2>2
      <4> HIDE DEF d
      <4>2. Len(d) = 0
        BY <4>1
      <4> QED BY <4>2 DEF EnPedido
    <3> QED BY <1>3, <3>1, <3>2
  <2>4. EnPedido(deCpu'[c], p)
    <3> HIDE DEF d
    <3>1. \E j \in 1..Len(Append(d, m)) : Append(d, m)[j] = m
      BY <1>0, ElementosAgregados
    <3> QED BY <2>1, <2>3, <3>1 DEF EnPedido
  <2> QED BY <1>2, <2>4 DEF EnLaCPU
<1>5. CASE Recibida(c) /\ cpu'[c].modo # "caida"
  <2>1. /\ Head(a).tipo = "PID" => k.modo = "espera"
        /\ k.modo = "respuesta" => Head(a).tipo \in Resp
    BY <1>5, RecibidaEnTurno
  <2>2. aCpu'[c] = Tail(a) /\ deCpu'[c] = d /\ a # << >>
    BY <1>5 DEF Recibida
  <2>3. /\ \A i \in 1..Len(a) : a[i] = Head(a) \/ \E j \in 1..Len(Tail(a)) : Tail(a)[j] = a[i]
        /\ \A j \in 1..Len(Tail(a)) : \E i \in 1..Len(a) : Tail(a)[j] = a[i]
    <3> HIDE DEF a
    <3> QED BY <1>0, <2>2, ElementosDeCola
  <2>4. HayBloqueado(Tail(a)) => HayBloqueado(a)
    <3> HIDE DEF a
    <3> QED BY <2>3 DEF HayBloqueado
  <2>5. CASE EnPedido(d, p)
    BY <1>2, <2>2, <2>5 DEF EnLaCPU
  <2>6. CASE EnCanal(a, p)
    <3>1. PICK i \in 1..Len(a) : a[i].tipo = "PID" /\ a[i].pid = p
      BY <2>6 DEF EnCanal
    <3>2. CASE a[i] = Head(a)
      <4>1. k.modo = "espera" /\ Head(a).tipo = "PID" /\ Head(a).pid = p
        BY <2>1, <3>1, <3>2
      <4>2. cpu'[c].modo = "ejecuta" /\ cpu'[c].pid = p
        BY <1>5, <4>1 DEF Recibida
      <4>3. ~HayBloqueado(a)
        <5> HIDE DEF a, d, k
        <5> QED BY <1>0, <4>1 DEF Turno
      <4> QED BY <1>2, <2>2, <2>4, <4>2, <4>3 DEF EnLaCPU, Corre
    <3>3. CASE \E j \in 1..Len(Tail(a)) : Tail(a)[j] = a[i]
      <4>1. EnCanal(Tail(a), p)
        BY <3>1, <3>3 DEF EnCanal
      <4> QED BY <1>2, <2>2, <4>1 DEF EnLaCPU
    <3> QED BY <2>3, <3>2, <3>3
  <2>7. CASE Corre(a, k) /\ k.pid = p
    <3>1. k.modo = "respuesta" /\ ~HayBloqueado(a)
      BY <1>5, <2>7 DEF Corre, Recibida
    <3>2. Head(a).tipo # "BLOQUEADO"
      <4>1. a # << >> /\ OrdenSocket(a)
        BY <1>0, <2>2 DEF Turno
      <4> HIDE DEF a
      <4> QED BY <1>0, <3>1, <4>1, SocketRecibido
    <3>3. cpu'[c].modo = "ejecuta" /\ cpu'[c].pid = p
      BY <1>5, <2>7, <3>1, <3>2 DEF Recibida
    <3> QED BY <1>2, <2>2, <2>4, <3>1, <3>3 DEF EnLaCPU, Corre
  <2> QED BY <1>3, <2>5, <2>6, <2>7
<1>6. CASE Fin(c)
  BY <1>6 DEF Fin
<1> QED BY <1>4, <1>5, <1>6

\* A message of a connection is taken by a step of its own thread.
LEMMA QuienAtiende ==
  ASSUME Bien, [Next]_vars, NEW c \in CPUs, ~ModuloCPU(c), ~caer(c), deCpu'[c] # deCpu[c]
  PROVE  Manejador(c)
<1>0. deCpu \in [CPUs -> Seq(MensajesDelCPU)]
  BY DEF Bien, TypeOK
<1>1. CASE \/ UNCHANGED vars \/ planificadorLargoPlazo \/ Corto
           \/ \E p \in Procesos, x \in CPUs : Timer(p, x)
           \/ \E p \in Procesos : HiloIO(p)
  BY <1>1 DEF vars, enCPU, planificadorLargoPlazo, Timer, venceQuantum, interrumpeQuantum, HiloIO,
     hiloBloquea, hiloDesbloquea, Corto, cortoEsperaCompactacion, cortoSelecciona, cortoDevuelve,
     cortoEjecuta, cortoEnvia
<1>2. ASSUME NEW x \in CPUs, x # c, ModuloCPU(x) \/ caer(x)
      PROVE  FALSE
  BY <1>2, ModuloSolo
<1>3. ASSUME NEW x \in CPUs, x # c, NEW tipo, Atiende(x, tipo)
      PROVE  FALSE
  BY <1>0, <1>3 DEF Atiende
<1>4. ASSUME NEW x \in CPUs, x # c, Manejador(x)
      PROVE  FALSE
  <2>1. CASE conectar(x) \/ desconectar(x) \/ volverAReady(x) \/ volverAlFrente(x)
             \/ avisarBloqueado(x) \/ bloquearPorMutex(x)
             \/ despertarSiguiente(x) \/ esperarConfirmaciones(x) \/ finCompactacion(x)
    BY <2>1 DEF conectar, desconectar, volverAReady, volverAlFrente, avisarBloqueado, bloquearPorMutex,
       despertarSiguiente, esperarConfirmaciones, finCompactacion, enCPU
  <2>2. CASE atenderDone(x) \/ atenderSegFault(x) \/ atenderInterrupcionAtendida(x) \/ atenderSleep(x)
    BY <1>3, <1>4, <2>2 DEF atenderDone, atenderSegFault, atenderInterrupcionAtendida, atenderSleep
  <2>3. CASE mutex_create(x) \/ mutex_lock_no_existe(x) \/ mutex_lock_libre(x) \/ mutex_lock_ocupado(x)
             \/ mutex_unlock_ajeno(x) \/ mutex_unlock(x)
    BY <1>3, <1>4, <2>3 DEF mutex_create, mutex_lock_no_existe, mutex_lock_libre, mutex_lock_ocupado,
       mutex_unlock_ajeno, mutex_unlock
  <2>4. CASE crear_proceso(x) \/ km_mem_alloc(x) \/ manejar_solicitud_desalojo(x)
    BY <1>3, <1>4, <2>4 DEF crear_proceso, km_mem_alloc, manejar_solicitud_desalojo
  <2> QED BY <1>4, <2>1, <2>2, <2>3, <2>4 DEF Manejador
<1> QED BY <1>1, <1>2, <1>4 DEF Next

\* The action of a connection is the one its first message asks for.
LEMMA AtiendeSegun ==
  ASSUME NEW c \in CPUs, Manejador(c), deCpu'[c] # deCpu[c]
  PROVE  LET m == Head(deCpu[c]) IN
         \/ m.tipo = "DONE" /\ atenderDone(c)
         \/ m.tipo = "SEG_FAULT" /\ atenderSegFault(c)
         \/ m.tipo = "SLEEP" /\ atenderSleep(c)
         \/ m.tipo = "INTERRUPCION_ATENDIDA" /\ atenderInterrupcionAtendida(c)
         \/ m.tipo \in ConRespuesta
<1>1. \A tipo : Atiende(c, tipo) => tipo = Head(deCpu[c]).tipo
  BY DEF Atiende
<1>2. CASE conectar(c) \/ desconectar(c) \/ volverAReady(c) \/ volverAlFrente(c)
           \/ avisarBloqueado(c) \/ bloquearPorMutex(c)
           \/ despertarSiguiente(c) \/ esperarConfirmaciones(c) \/ finCompactacion(c)
  BY <1>2 DEF conectar, desconectar, volverAReady, volverAlFrente, avisarBloqueado, bloquearPorMutex,
     despertarSiguiente, esperarConfirmaciones, finCompactacion, enCPU
<1>3. CASE atenderDone(c) \/ atenderSegFault(c) \/ atenderInterrupcionAtendida(c) \/ atenderSleep(c)
  BY <1>1, <1>3 DEF atenderDone, atenderSegFault, atenderInterrupcionAtendida, atenderSleep
<1>4. CASE mutex_create(c) \/ mutex_lock_no_existe(c) \/ mutex_lock_libre(c) \/ mutex_lock_ocupado(c)
           \/ mutex_unlock_ajeno(c) \/ mutex_unlock(c)
  BY <1>1, <1>4 DEF mutex_create, mutex_lock_no_existe, mutex_lock_libre, mutex_lock_ocupado,
     mutex_unlock_ajeno, mutex_unlock, ConRespuesta
<1>5. CASE crear_proceso(c) \/ km_mem_alloc(c) \/ manejar_solicitud_desalojo(c)
  BY <1>1, <1>5 DEF crear_proceso, km_mem_alloc, manejar_solicitud_desalojo, ConRespuesta
<1> QED BY <1>2, <1>3, <1>4, <1>5 DEF Manejador

\* What the threads of the scheduler leave of a connection.
LEMMA ManejadorDebe ==
  ASSUME Bien, TurnoCPU, FdDeLocks, [Next]_vars, NEW c \in CPUs, ~ModuloCPU(c), ~caer(c), Debe(c)
  PROVE  Debe(c)'
<1> DEFINE a == aCpu[c]
           d == deCpu[c]
           k == cpu[c]
<1>0. /\ Turno(Contains(cpusLibres, c), corto.c = c, a, d, k, manejador[c])
      /\ a \in Seq(MensajesAlCPU) /\ d \in Seq(MensajesDelCPU)
  BY DEF TurnoCPU, TurnoDe, Bien, TypeOK
<1>1. MarcoDe(c)
  BY MarcoDeCPU
<1>2. \A j \in 1..Len(deCpu'[c]) : \E i \in 1..Len(d) : deCpu'[c][j] = d[i]
  <2>1. deCpu'[c] = d \/ (d # << >> /\ deCpu'[c] = Tail(d))
    BY <1>1 DEF MarcoDe
  <2> DEFINE d2 == deCpu'[c]
  <2> HIDE DEF d, d2
  <2>2. ASSUME d2 = d
        PROVE  \A j \in 1..Len(d2) : \E i \in 1..Len(d) : d2[j] = d[i]
    BY <2>2
  <2>3. ASSUME d # << >>, d2 = Tail(d)
        PROVE  \A j \in 1..Len(d2) : \E i \in 1..Len(d) : d2[j] = d[i]
    <3>1. \A j \in 1..Len(Tail(d)) : \E i \in 1..Len(d) : Tail(d)[j] = d[i]
      BY <1>0, <2>3, ElementosDeCola
    <3> QED BY <2>3, <3>1
  <2>4. d2 = d \/ (d # << >> /\ d2 = Tail(d))
    BY <2>1 DEF d2
  <2>5. \A j \in 1..Len(d2) : \E i \in 1..Len(d) : d2[j] = d[i]
    BY <2>2, <2>3, <2>4
  <2> QED BY <2>5 DEF d2
<1>3. cpu'[c] = k \/ cpu'[c].modo = "espera"
  BY <1>1 DEF MarcoDe, CPUEn
<1>4. ASSUME NEW j \in 1..Len(deCpu'[c]), deCpu'[c][j].tipo \in ConRespuesta
      PROVE  cpu'[c].modo \in {"respuesta", "caida"}
  <2>1. PICK i \in 1..Len(d) : deCpu'[c][j] = d[i]
    BY <1>2
  <2>2. k.modo \in {"respuesta", "caida"}
    BY <1>4, <2>1 DEF Debe
  <2>3. CASE cpu'[c] = k
    BY <2>2, <2>3
  <2>4. CASE conectar(c)
    <3>1. manejador[c].pc = "desconectado"
      BY <2>4 DEF conectar
    <3>2. k.modo = "desconectada"
      <4> HIDE DEF a, d, k
      <4> QED BY <1>0, <3>1 DEF Turno
    <3> QED BY <2>2, <3>2
  <2> QED BY <1>1, <2>3, <2>4 DEF MarcoDe
<1>5. ASSUME cpu'[c].modo = "ack"
      PROVE  (\E i \in 1..Len(deCpu'[c]) : deCpu'[c][i].tipo = "SEG_FAULT") \/ HayResp(aCpu'[c])
  <2>1. k.modo = "ack"
    BY <1>3, <1>5
  <2>2. Mantiene(a, aCpu'[c])
    BY PasoContinua DEF Continua
  <2>3. CASE HayResp(a)
    BY <2>2, <2>3 DEF Mantiene, HayResp
  <2>4. CASE \E i \in 1..Len(d) : d[i].tipo = "SEG_FAULT"
    <3>1. PICK i \in 1..Len(d) : d[i].tipo = "SEG_FAULT"
      BY <2>4
    <3>2. CASE deCpu'[c] = d
      BY <3>1, <3>2
    <3>3. CASE deCpu'[c] # d
      <4>1. Manejador(c) /\ d # << >> /\ deCpu'[c] = Tail(d)
        BY <1>1, <3>3, QuienAtiende DEF MarcoDe
      <4>2. d[i] = Head(d) \/ \E j \in 1..Len(Tail(d)) : Tail(d)[j] = d[i]
        <5> HIDE DEF d
        <5> QED BY <1>0, <3>1, <4>1, ElementosDeCola
      <4>3. CASE Head(d).tipo = "SEG_FAULT"
        <5>1. atenderSegFault(c)
          BY <3>3, <4>1, <4>3, AtiendeSegun DEF ConRespuesta
        <5>2. Responde(c, "OK") /\ c \in Conectadas
          BY <2>1, <5>1 DEF atenderSegFault, Conectadas
        <5>3. aCpu'[c] = Append(a, Respuesta("OK")) /\ Respuesta("OK") \in MensajesAlCPU
              /\ Respuesta("OK").tipo \in Resp
          BY <5>2 DEF Responde, Enviado, Respuesta, Msj, MensajesAlCPU, Resp, Bien, TypeOK
        <5> DEFINE r == Respuesta("OK")
        <5>4. \E j \in 1..Len(Append(a, r)) : Append(a, r)[j] = r
          <6>1. r \in MensajesAlCPU
            BY <5>3
          <6> HIDE DEF a, r
          <6> QED BY <1>0, <6>1, ElementosAgregados
        <5> QED BY <5>3, <5>4 DEF HayResp
      <4>4. CASE \E j \in 1..Len(Tail(d)) : Tail(d)[j] = d[i]
        BY <3>1, <4>1, <4>4
      <4> QED BY <3>1, <4>2, <4>3, <4>4
    <3> QED BY <3>2, <3>3
  <2> QED BY <2>1, <2>3, <2>4 DEF Debe
<1> QED BY <1>4, <1>5 DEF Debe

\* The process of a CPU stays there until a thread of the scheduler takes it over or ends it.
LEMMA ManejadorNoPierde ==
  ASSUME Bien, TurnoCPU, FdDeLocks, [Next]_vars, NEW c \in CPUs, ~ModuloCPU(c), ~caer(c), Debe(c),
         NEW p \in Procesos, Tiene(p, c), buscable(t, p), t.estado[p] # "EXIT", t'.estado[p] # "EXIT"
  PROVE  \/ Tiene(p, c)' \/ cpu'[c].modo = "caida" \/ hiloIO'[p] = "bloquear"
         \/ manejador'[c].pc \in {"desalojado", "bloquear"} /\ manejador'[c].pid = p
<1> DEFINE a == aCpu[c]
           d == deCpu[c]
           k == cpu[c]
           h == manejador'[c]
<1>0. /\ Turno(Contains(cpusLibres, c), corto.c = c, a, d, k, manejador[c])
      /\ a \in Seq(MensajesAlCPU) /\ d \in Seq(MensajesDelCPU)
      /\ t \in Tabla /\ hiloIO \in [Procesos -> {"ninguno", "bloquear", "enIO"}]
      /\ manejador \in [CPUs -> EstadoManejador]
  BY DEF TurnoCPU, TurnoDe, Bien, TypeOK, EstadoManejador
<1>1. EnCanal(a, p) \/ EnPedido(d, p) \/ (Corre(a, k) /\ k.pid = p)
  BY DEF Tiene, EnLaCPU
<1>2. EnLaCPU(aCpu'[c], deCpu'[c], cpu'[c], p) => Tiene(p, c)'
  BY DEF Tiene
<1>3. MarcoDe(c)
  BY MarcoDeCPU
<1>4. /\ Mantiene(a, aCpu'[c])
      /\ Continua(a, aCpu'[c]) \/ avisarBloqueado(c)
  BY PasoContinua DEF Continua
\* A CPU that has a process is connected.
<1>5. cpu'[c] = k
  <2>1. ASSUME conectar(c)
        PROVE  FALSE
    <3>1. manejador[c].pc = "desconectado"
      BY <2>1 DEF conectar
    <3>2. k.modo = "desconectada" /\ d = << >> /\ ~HayPid(a)
      <4> HIDE DEF a, d, k
      <4> QED BY <1>0, <3>1 DEF Turno
    <3>3. ~EnCanal(a, p)
      BY <3>2 DEF EnCanal, HayPid
    <3>4. ~EnPedido(d, p)
      <4>1. d = << >>
        BY <3>2
      <4> HIDE DEF d
      <4>2. Len(d) = 0
        BY <4>1
      <4> QED BY <4>2 DEF EnPedido
    <3> QED BY <1>1, <3>2, <3>3, <3>4 DEF Corre
  <2> QED BY <1>3, <2>1 DEF MarcoDe
\* A process that runs goes on, unless its MUTEX_LOCK blocks it.
<1>6. ASSUME Corre(a, k), k.pid = p
      PROVE  Tiene(p, c)' \/ (h.pc = "bloquear" /\ h.pid = p)
  <2>1. CASE Continua(a, aCpu'[c])
    BY <1>2, <1>5, <1>6, <2>1 DEF Continua, EnLaCPU, Corre
  <2>2. CASE avisarBloqueado(c)
    <3>1. manejador[c].pc = "avisar"
      BY <2>2 DEF avisarBloqueado
    <3>2. manejador[c].pid = k.pid
      <4> HIDE DEF a, d, k
      <4> QED BY <1>0, <1>6, <3>1 DEF Turno, Corre, LlamaALock
    <3>3. h = [pc |-> "bloquear", pid |-> manejador[c].pid, arg |-> manejador[c].arg]
      BY <1>0, <2>2 DEF avisarBloqueado, Sigue
    <3> QED BY <1>6, <3>2, <3>3
  <2> QED BY <1>4, <2>1, <2>2
<1>7. CASE EnCanal(a, p)
  <2>1. EnCanal(aCpu'[c], p)
    BY <1>4, <1>7 DEF EnCanal, Mantiene
  <2> QED BY <1>2, <2>1 DEF EnLaCPU
<1>8. CASE EnPedido(d, p) /\ deCpu'[c] = d
  BY <1>2, <1>8 DEF EnLaCPU
<1>9. CASE EnPedido(d, p) /\ deCpu'[c] # d
  <2>1. d # << >> /\ deCpu'[c] = Tail(d) /\ Manejador(c)
    BY <1>3, <1>9, QuienAtiende DEF MarcoDe
  <2>2. Head(d).pid = p \/ EnPedido(Tail(d), p)
    <3> HIDE DEF d
    <3>1. \A i \in 1..Len(d) : d[i] = Head(d) \/ \E j \in 1..Len(Tail(d)) : Tail(d)[j] = d[i]
      BY <1>0, <2>1, ElementosDeCola
    <3> QED BY <1>9, <3>1 DEF EnPedido
  <2>3. CASE EnPedido(Tail(d), p)
    BY <1>2, <2>1, <2>3 DEF EnLaCPU
  <2>4. CASE Head(d).pid = p
    <3>1. CASE atenderDone(c) \/ atenderSegFault(c)
      <4> DEFINE nuevo == "EXIT"
                 u == actualizarEstado(t, p, nuevo)
      <4>1. t' = u
        BY <2>4, <3>1 DEF atenderDone, atenderSegFault, finalizarProceso
      <4>2. nuevo \in ConLista \cup {"READY"} /\ t.estado \in [Procesos -> Estados]
        BY <1>0 DEF ConLista, Tabla
      <4> HIDE DEF nuevo
      <4>3. u.estado = [t.estado EXCEPT ![p] = IF @ = "EXIT" THEN @ ELSE nuevo]
        BY <1>0, <4>2, actualizarEstadoTipo
      <4> HIDE DEF u
      <4>4. t'.estado[p] = "EXIT"
        BY <4>1, <4>2, <4>3 DEF nuevo
      <4> QED BY <4>4
    <3>2. CASE atenderSleep(c)
      BY <1>0, <2>4, <3>2 DEF atenderSleep
    <3>3. CASE atenderInterrupcionAtendida(c)
      BY <1>0, <2>4, <3>3 DEF atenderInterrupcionAtendida, Sigue
    <3>4. CASE Head(d).tipo \in ConRespuesta
      <4> HIDE DEF a, d, k
      <4>1. 1 \in 1..Len(d) /\ Head(d) = d[1]
        BY <1>0, <2>1, HeadTailProperties, LenProperties, EmptySeq
      <4>2. k.modo \in {"respuesta", "caida"}
        BY <3>4, <4>1 DEF Debe, d, k
      <4>3. CASE k.modo = "caida"
        BY <1>5, <4>3
      <4>4. CASE k.modo = "respuesta"
        <5>1. d = << Msj(k.sys, k.pid, k.arg) >>
          BY <1>0, <2>1, <4>4 DEF Turno
        <5>2. k.pid = p
          BY <2>4, <5>1 DEF Msj
        <5>3. ~HayBloqueado(a)
          <6>1. Pide(d)
            BY <3>4, <4>1 DEF Pide, Piden
          <6>2. HayBloqueado(a) => HayResp(a)
            BY DEF HayBloqueado, HayResp, Resp
          <6> QED BY <1>0, <6>1, <6>2 DEF Turno
        <5> QED BY <1>6, <4>4, <5>2, <5>3 DEF Corre
      <4> QED BY <4>2, <4>3, <4>4
    <3> QED BY <1>9, <2>1, <3>1, <3>2, <3>3, <3>4, AtiendeSegun
  <2> QED BY <2>2, <2>3, <2>4
<1> QED BY <1>1, <1>6, <1>7, <1>8, <1>9

\* Who answers for a process in EXEC.
Responsable(p) ==
  \/ corto.pc = "enviar" /\ corto.p = p
  \/ hiloIO[p] = "bloquear"
  \/ \E c \in CPUs : \/ Tiene(p, c)
                     \/ cpu[c].modo = "caida" /\ t.fdCpu[p] = c
                     \/ manejador[c].pc \in {"desalojado", "bloquear"} /\ manejador[c].pid = p

\* The thread of a blocking IO keeps its process until it moves it to BLOCK.
LEMMA SaleDelHilo ==
  ASSUME Bien, [Next]_vars, NEW p \in Procesos, hiloIO[p] = "bloquear", hiloIO'[p] # "bloquear"
  PROVE  hiloBloquea(p)
<1>0. hiloIO \in [Procesos -> {"ninguno", "bloquear", "enIO"}]
  BY DEF Bien, TypeOK
<1>1. ASSUME NEW q \in Procesos, HiloIO(q)
      PROVE  hiloBloquea(p)
  <2>1. CASE q # p
    <3>1. \E h : hiloIO' = [hiloIO EXCEPT ![q] = h]
      BY <1>1 DEF HiloIO, hiloBloquea, hiloDesbloquea
    <3> QED BY <1>0, <2>1, <3>1
  <2>2. CASE q = p
    BY <1>1, <2>2 DEF HiloIO, hiloDesbloquea
  <2> QED BY <2>1, <2>2
<1>2. ASSUME NEW c \in CPUs, atenderSleep(c)
      PROVE  FALSE
  <2>1. \E q : hiloIO' = [hiloIO EXCEPT ![q] = "bloquear"]
    BY <1>2 DEF atenderSleep
  <2> QED BY <1>0, <2>1
<1>3. CASE \/ UNCHANGED vars \/ planificadorLargoPlazo \/ Corto
           \/ \E q \in Procesos, x \in CPUs : Timer(q, x)
  BY <1>3 DEF vars, planificadorLargoPlazo, Timer, venceQuantum, interrumpeQuantum,
     Corto, cortoEsperaCompactacion, cortoSelecciona, cortoDevuelve, cortoEjecuta, cortoEnvia
<1>4. ASSUME NEW x \in CPUs, ModuloCPU(x) \/ caer(x)
      PROVE  FALSE
  BY <1>4, ModuloSolo
<1>5. ASSUME NEW c \in CPUs, Manejador(c)
      PROVE  FALSE
  BY <1>2, <1>5 DEF Manejador, conectar, desconectar, atenderDone, atenderSegFault, enMutex,
     atenderInterrupcionAtendida, volverAReady, volverAlFrente, mutex_create,
     mutex_lock_no_existe, mutex_lock_libre, mutex_lock_ocupado, avisarBloqueado, bloquearPorMutex,
     mutex_unlock_ajeno, mutex_unlock, despertarSiguiente, crear_proceso,
     km_mem_alloc, manejar_solicitud_desalojo, esperarConfirmaciones, finCompactacion
<1> QED BY <1>1, <1>3, <1>4, <1>5 DEF Next

\* The thread of a connection that is about to move a process moves it out of EXEC.
LEMMA SaleDelManejador ==
  ASSUME Bien, [Next]_vars, \A c \in CPUs : ~volverAlFrente(c), NEW c \in CPUs, NEW p \in Procesos,
         manejador[c].pc \in {"desalojado", "bloquear"}, manejador[c].pid = p, manejador'[c] # manejador[c]
  PROVE  t'.estado[p] # "EXEC"
<1>1. t \in Tabla /\ t.estado \in [Procesos -> Estados] /\ Manejador(c)
  BY ManejadorPropio DEF Bien, TypeOK, Tabla
<1>2. CASE volverAReady(c)
  <2>1. PasarAReady(aCpu, p)
    BY <1>2 DEF volverAReady
  <2>2. t'.estado = [t.estado EXCEPT ![p] = IF @ = "EXIT" THEN @ ELSE "READY"]
    BY <2>1, PasarAReadyTipo
  <2> QED BY <1>1, <2>2
<1>3. CASE bloquearPorMutex(c)
  <2> DEFINE nuevo == "BLOCK"
             u == actualizarEstado(t, p, nuevo)
  <2>1. nuevo \in ConLista \cup {"READY"} /\ t' = u
    BY <1>3 DEF ConLista, bloquearPorMutex
  <2> HIDE DEF nuevo
  <2>2. u.estado = [t.estado EXCEPT ![p] = IF @ = "EXIT" THEN @ ELSE nuevo]
    BY <1>1, <2>1, actualizarEstadoTipo
  <2> HIDE DEF u
  <2> QED BY <1>1, <2>1, <2>2 DEF nuevo
<1>4. volverAReady(c) \/ bloquearPorMutex(c)
  <2>1. \A tipo : ~Atiende(c, tipo)
    BY DEF Atiende
  <2>2. /\ ~conectar(c) /\ ~desconectar(c) /\ ~avisarBloqueado(c)
        /\ ~despertarSiguiente(c) /\ ~esperarConfirmaciones(c) /\ ~finCompactacion(c)
    BY DEF conectar, desconectar, avisarBloqueado, despertarSiguiente, esperarConfirmaciones, finCompactacion
  <2> QED BY <1>1, <2>1, <2>2 DEF Manejador, atenderDone, atenderSegFault, atenderInterrupcionAtendida,
     atenderSleep, mutex_create, mutex_lock_no_existe, mutex_lock_libre, mutex_lock_ocupado,
     mutex_unlock_ajeno, mutex_unlock, crear_proceso, km_mem_alloc, manejar_solicitud_desalojo
<1> QED BY <1>2, <1>3, <1>4

\* The CPU that has a process is the one of its PCB, also while its handler is about to
\* tell it that the process waits.
LEMMA FdDeLaCPU ==
  ASSUME Bien, Sitios, NEW p \in Procesos, NEW c \in CPUs, Tiene(p, c)
  PROVE  t.fdCpu[p] = c
<1> DEFINE a == aCpu[c]
           d == deCpu[c]
           k == cpu[c]
           h == manejador[c]
<1>0. /\ Turno(Contains(cpusLibres, c), corto.c = c, a, d, k, h)
      /\ d \in Seq(MensajesDelCPU)
  BY DEF Sitios, TurnoCPU, TurnoDe, Bien, TypeOK
<1>1. EnCanal(a, p) \/ EnPedido(d, p) \/ (Corre(a, k) /\ k.pid = p)
  BY DEF Tiene, EnLaCPU
<1>2. CASE h.pc # "avisar"
  BY <1>2 DEF Sitios, FdDeQuienLoTiene, EnCPU, Tiene
<1>3. CASE h.pc = "avisar"
  <2>1. Aviso(c)
    BY <1>3 DEF Sitios, Avisos, EnLaLlamada
  <2>2. ~HayPid(a) /\ Len(d) = 0 /\ (Corre(a, k) => k.pid = h.pid)
    <3> HIDE DEF a, d, k, h
    <3> QED BY <1>0, <1>3 DEF Turno, Quieto, Atendiendo, Corre, LlamaALock
  <2>3. ~EnCanal(a, p) /\ ~EnPedido(d, p)
    <3> HIDE DEF a, d
    <3> QED BY <2>2 DEF EnCanal, HayPid, EnPedido
  <2> QED BY <1>1, <1>3, <2>1, <2>2, <2>3 DEF Aviso
<1> QED BY <1>2, <1>3

\* A process that stays in EXEC, or enters it, has somebody who answers for it after the step.
LEMMA PasoResponsable ==
  ASSUME Bien, Sitios, Coherente(t), RespuestasDebidas, InterrupcionesMotivadas, MotivosPosibles = {},
         [Next]_vars, \A c \in CPUs : ~desconectar(c), NEW p \in Procesos,
         t.estado[p] = "EXEC" => Responsable(p), t'.estado[p] = "EXEC"
  PROVE  Responsable(p)'
<1>0. /\ t \in Tabla /\ t.estado \in [Procesos -> Estados] /\ FormaCorto /\ FdDeLocks
      /\ t.fdCpu \in [Procesos -> CPUs \cup {Nadie}]
      /\ TurnoCPU /\ CoherenteEn({"NEW"}, t) /\ FdDeQuienLoTiene
      /\ corto \in EstadoCorto
  BY LocksDesdeSuCPU DEF Bien, TypeOK, Tabla, Formas, Sitios, EstadoCorto
<1>1. \A c \in CPUs : ~volverAlFrente(c)
  <2>1. "MEM_ALLOC" \notin Syscalls
    BY DEF MotivosPosibles, Motivos
  <2> QED BY <2>1, SinDesalojos
<1>2. CASE cortoEjecuta /\ corto.p = p
  BY <1>0, <1>2 DEF cortoEjecuta, Responsable, EstadoCorto
<1>3. CASE t.estado[p] # "EXEC"
  <2>1. Movido(p, "EXEC")
    BY <1>0, <1>3, QuienMueve
  <2> QED BY <1>2, <2>1 DEF Movido
<1>4. CASE t.estado[p] = "EXEC" /\ ~(cortoEjecuta /\ corto.p = p)
  <2>1. buscable(t, p)
    <3>1. "EXEC" \in ConLista \ {"EXIT"}
      BY DEF ConLista
    <3> QED BY <1>4, <3>1 DEF Coherente, CoherenteEn, EnSuLista, buscable
  \* A CPU that fails keeps its process in the PCB.
  <2>2. ASSUME NEW c \in CPUs, t.fdCpu[p] = c
        PROVE  t'.fdCpu[p] = c
    <3>1. CambiaFd
      BY PasoFd
    <3> QED BY <1>0, <1>1, <1>4, <2>2, <3>1 DEF CambiaFd
  <2>3. CASE corto.pc = "enviar" /\ corto.p = p
    <3>1. CASE corto' = corto
      BY <2>3, <3>1 DEF Responsable
    <3>2. CASE corto' # corto
      <4>1. cortoEnvia /\ corto.c \in CPUs
        BY <1>0, <2>3, <3>2, CortoSolo DEF Corto, cortoEsperaCompactacion, cortoSelecciona, cortoDevuelve,
           cortoEjecuta, FormaCorto
      <4> DEFINE c == corto.c
                 m == PidEnviado(p)
      <4>2. m \in MensajesAlCPU /\ m.tipo = "PID" /\ m.pid = p /\ aCpu \in Canales /\ c \in CPUs
        BY <4>1 DEF PidEnviado, Msj, MensajesAlCPU, Bien, TypeOK, Canales
      <4>3. aCpu' = Enviado(aCpu, c, m) /\ cpu' = cpu /\ t' = t
        BY <2>3, <4>1 DEF cortoEnvia, enKS, enCPU
      <4>4. t.fdCpu[p] = c
        BY <1>0, <2>3 DEF FdDeQuienLoTiene
      <4>5. TurnoDe(c) /\ corto.c = c
        BY <1>0, <4>2 DEF TurnoCPU
      <4> HIDE DEF c, m
      <4>6. \/ aCpu'[c] = Append(aCpu[c], m)
            \/ cpu[c].modo \in {"desconectada", "caida"}
        BY <4>2, <4>3, EnviadoExacto
      <4>7. CASE aCpu'[c] = Append(aCpu[c], m)
        <5>1. \E j \in 1..Len(Append(aCpu[c], m)) : Append(aCpu[c], m)[j] = m
          <6>1. aCpu[c] \in Seq(MensajesAlCPU)
            BY <4>2 DEF Canales
          <6> QED BY <4>2, <6>1, ElementosAgregados
        <5>2. EnCanal(aCpu'[c], p)
          BY <4>2, <4>7, <5>1 DEF EnCanal
        <5> QED BY <4>2, <5>2 DEF Responsable, Tiene, EnLaCPU
      <4>8. CASE cpu[c].modo \in {"desconectada", "caida"}
        <5>1. cpu[c].modo # "desconectada"
          BY <4>5 DEF TurnoDe, Turno
        <5> QED BY <4>2, <4>3, <4>4, <4>8, <5>1 DEF Responsable
      <4> QED BY <4>6, <4>7, <4>8
    <3> QED BY <3>1, <3>2
  <2>4. CASE hiloIO[p] = "bloquear"
    <3>1. CASE hiloIO'[p] = "bloquear"
      BY <3>1 DEF Responsable
    <3>2. CASE hiloIO'[p] # "bloquear"
      <4> DEFINE nuevo == "BLOCK"
                 u == actualizarEstado(t, p, nuevo)
      <4>1. hiloBloquea(p)
        BY <2>4, <3>2, SaleDelHilo
      <4>2. nuevo \in ConLista \cup {"READY"} /\ t' = u
        BY <2>1, <4>1 DEF ConLista, hiloBloquea
      <4> HIDE DEF nuevo
      <4>3. u.estado = [t.estado EXCEPT ![p] = IF @ = "EXIT" THEN @ ELSE nuevo]
        BY <1>0, <4>2, actualizarEstadoTipo
      <4> HIDE DEF u
      <4>4. t'.estado[p] # "EXEC"
        BY <1>0, <4>2, <4>3 DEF nuevo
      <4> QED BY <4>4
    <3> QED BY <3>1, <3>2
  <2>5. ASSUME NEW c \in CPUs, manejador[c].pc \in {"desalojado", "bloquear"}, manejador[c].pid = p
        PROVE  Responsable(p)'
    <3>1. manejador'[c] = manejador[c]
      BY <1>1, <2>5, SaleDelManejador
    <3> QED BY <2>5, <3>1 DEF Responsable
  <2>6. ASSUME NEW c \in CPUs, cpu[c].modo = "caida", t.fdCpu[p] = c
        PROVE  Responsable(p)'
    <3>1. cpu'[c].modo = "caida"
      <4>1. CASE ModuloCPU(c) \/ caer(c)
        <5>1. Llamada(c) \/ Recibida(c) \/ Fin(c)
          BY <4>1, ModuloSinMotivos
        <5> QED BY <2>6, <5>1 DEF Llamada, Recibida, Fin
      <4>2. CASE MarcoDe(c)
        <5>1. ~conectar(c)
          <6>1. TurnoDe(c)
            BY <1>0 DEF TurnoCPU
          <6>2. manejador[c].pc # "desconectado"
            BY <2>6, <6>1 DEF TurnoDe, Turno
          <6> QED BY <6>2 DEF conectar
        <5> QED BY <2>6, <4>2, <5>1 DEF MarcoDe
      <4> QED BY <4>1, <4>2, MarcoDeCPU
    <3> QED BY <2>2, <2>6, <3>1 DEF Responsable
  <2>7. ASSUME NEW c \in CPUs, Tiene(p, c)
        PROVE  Responsable(p)'
    <3>1. t.fdCpu[p] = c /\ Debe(c)
      BY <2>7, FdDeLaCPU DEF RespuestasDebidas
    <3>2. \/ Tiene(p, c)' \/ cpu'[c].modo = "caida" \/ hiloIO'[p] = "bloquear"
          \/ manejador'[c].pc \in {"desalojado", "bloquear"} /\ manejador'[c].pid = p
      <4>1. CASE ModuloCPU(c) \/ caer(c)
        <5>1. Llamada(c) \/ Recibida(c) \/ Fin(c)
          BY <4>1, ModuloSinMotivos
        <5> QED BY <1>0, <2>7, <3>1, <5>1, ModuloNoPierde
      <4>2. CASE ~ModuloCPU(c) /\ ~caer(c)
        <5>1. t.estado[p] # "EXIT" /\ t'.estado[p] # "EXIT"
          BY <1>4
        <5> QED BY <1>0, <2>1, <2>7, <3>1, <4>2, <5>1, ManejadorNoPierde
      <4> QED BY <4>1, <4>2
    <3> QED BY <2>2, <3>1, <3>2 DEF Responsable
  <2> QED BY <1>4, <2>3, <2>4, <2>5, <2>6, <2>7 DEF Responsable
<1> QED BY <1>2, <1>3, <1>4

\* The invariant of who answers for EXEC.
InvarianteDeResponsables ==
  /\ InvariantePlanificador /\ PedidosPermitidos /\ InterrupcionesMotivadas /\ Listas
  /\ Ordenado =>
       RespuestasDebidas /\ \A p \in Procesos : t.estado[p] = "EXEC" => Responsable(p)

\* Nobody runs initially.
LEMMA InitResponsables ==
  ASSUME Init
  PROVE  InvarianteDeResponsables
<1>1. InvariantePlanificador /\ PedidosPermitidos /\ InterrupcionesMotivadas /\ Listas
  BY InitPlanificador, InitPermitidos, InitMotivos, InitListas
<1>2. RespuestasDebidas
  <2>1. \A c \in CPUs : deCpu[c] = << >> /\ cpu[c].modo = "desconectada"
    BY DEF Init, CPUEn
  <2>2. \A c \in CPUs : Len(deCpu[c]) = 0
    BY <2>1
  <2> QED BY <2>1, <2>2 DEF RespuestasDebidas, Debe
<1>3. \A p \in Procesos : t.estado[p] # "EXEC"
  BY DEF Init
<1> QED BY <1>1, <1>2, <1>3 DEF InvarianteDeResponsables

\* Every step keeps the invariant of the processes that run.
LEMMA PasoResponsables ==
  ASSUME InvarianteDeResponsables, MotivosPosibles = {}, [Next]_vars
  PROVE  InvarianteDeResponsables'
<1>1. "MEM_ALLOC" \notin Syscalls
  BY DEF MotivosPosibles, Motivos
<1>2. Bien /\ PedidosPermitidos /\ InterrupcionesMotivadas /\ Listas
  BY DEF InvarianteDeResponsables, InvariantePlanificador
<1>3. /\ InvariantePlanificador'
      /\ PedidosPermitidos' /\ InterrupcionesMotivadas' /\ Listas'
  BY <1>1, <1>2, PasoPlanificador, PasoPermitidos, PasoMotivos, SinDesalojos, PasoListas
     DEF InvarianteDeResponsables
<1>4. ASSUME Ordenado'
      PROVE  RespuestasDebidas' /\ \A p \in Procesos : t'.estado[p] = "EXEC" => Responsable(p)'
  <2>1. Ordenado /\ \A c \in CPUs : ~desconectar(c)
    BY <1>2, <1>4, OrdenQueda
  <2>2. Sitios /\ RespuestasDebidas /\ Coherente(t)
        /\ \A p \in Procesos : t.estado[p] = "EXEC" => Responsable(p)
    BY <1>2, <2>1 DEF InvarianteDeResponsables, InvariantePlanificador, Lugares, Listas, Ordenado
  <2>3. TurnoCPU /\ FdDeLocks
    BY <1>2, <2>2, LocksDesdeSuCPU DEF Sitios
  <2>4. ASSUME NEW c \in CPUs
        PROVE  Debe(c)'
    <3>1. Debe(c)
      BY <2>2 DEF RespuestasDebidas
    <3>2. CASE ModuloCPU(c) \/ caer(c)
      <4>1. Llamada(c) \/ Recibida(c) \/ Fin(c)
        BY <1>2, <3>2, ModuloSinMotivos
      <4> QED BY <1>2, <2>3, <3>1, <4>1, ModuloDebe
    <3>3. CASE ~ModuloCPU(c) /\ ~caer(c)
      BY <1>2, <2>3, <3>1, <3>3, ManejadorDebe
    <3> QED BY <3>2, <3>3
  <2>5. ASSUME NEW p \in Procesos, t'.estado[p] = "EXEC"
        PROVE  Responsable(p)'
    BY <1>2, <2>1, <2>2, <2>5, PasoResponsable
  <2> QED BY <2>4, <2>5 DEF RespuestasDebidas
<1> QED BY <1>3, <1>4 DEF InvarianteDeResponsables

\* A process in EXEC is somebody's business: with no interrupts (FIFO, or CMN with FIFO
\* queues and no preemption, and no compaction), cortoPlazo is about to send it, a CPU has it,
\* a message about it is on its way, or a thread is about to move it; mutex calls, IO and
\* CPUs that fail included, until an unlock overtakes the handler that blocks its waiter.
THEOREM EjecucionTieneResponsableSiempre ==
  ASSUME MotivosPosibles = {}
  PROVE  Spec => [](SinAdelantos => EjecucionTieneResponsable)
<1>1. InvarianteDeResponsables => (SinAdelantos => EjecucionTieneResponsable)
  <2>1. ASSUME InvarianteDeResponsables, SinDesconexiones, SinAdelantos, NEW p \in Procesos, t.estado[p] = "EXEC"
        PROVE  \/ corto.pc = "enviar" /\ corto.p = p
               \/ hiloIO[p] = "bloquear"
               \/ \E c \in CPUs : \/ cpu[c].pid = p
                                  \/ cpu[c].modo = "caida" /\ t.fdCpu[p] = c
                                  \/ \E i \in DOMAIN aCpu[c] : aCpu[c][i] = PidEnviado(p)
                                  \/ \E i \in DOMAIN deCpu[c] : deCpu[c][i].pid = p
                                  \/ manejador[c].pid = p /\ manejador[c].pc \in {"desalojado", "bloquear"}
    <3>1. Responsable(p) /\ Bien
      BY <2>1 DEF InvarianteDeResponsables, InvariantePlanificador, Ordenado
    <3>2. ASSUME NEW c \in CPUs, Tiene(p, c)
          PROVE  \/ cpu[c].pid = p
                 \/ \E i \in DOMAIN aCpu[c] : aCpu[c][i] = PidEnviado(p)
                 \/ \E i \in DOMAIN deCpu[c] : deCpu[c][i].pid = p
      <4> DEFINE a == aCpu[c]
                 d == deCpu[c]
      <4>1. a \in Seq(MensajesAlCPU) /\ d \in Seq(MensajesDelCPU)
        BY <3>1 DEF Bien, TypeOK
      <4>2. DOMAIN a = 1..Len(a) /\ DOMAIN d = 1..Len(d) /\ \A i \in 1..Len(a) : a[i] \in MensajesAlCPU
        <5> HIDE DEF a, d
        <5> QED BY <4>1, LenProperties, ElementOfSeq
      <4>3. ASSUME NEW i \in 1..Len(a), a[i].tipo = "PID", a[i].pid = p
            PROVE  a[i] = PidEnviado(p)
        BY <4>2, <4>3 DEF MensajesAlCPU, PidEnviado, Msj
      <4> QED BY <3>2, <4>2, <4>3 DEF Tiene, EnLaCPU, EnCanal, EnPedido
    <3> QED BY <3>1, <3>2 DEF Responsable
  <2> QED BY <2>1 DEF EjecucionTieneResponsable
<1>2. InvarianteDeResponsables /\ [Next]_vars => InvarianteDeResponsables'
  BY PasoResponsables
<1> QED BY <1>1, <1>2, InitResponsables, PTL DEF Spec

-----------------------------------------------------------------------------
(* The mutexes, as the programs see them.                                   *)

LockUnlock == {"MUTEX_LOCK", "MUTEX_UNLOCK"}

\* The program p is inside a call on the mutex m at the CPU c; the answer that blocks it is
\* on its way or to be sent, or the one that gives it the mutex is on its way; its call has
\* not been attended.
EnLlamada(c, s, p, m) ==
  cpu[c].modo = "respuesta" /\ cpu[c].sys = s /\ cpu[c].pid = p /\ cpu[c].arg = m
HayOK(a) == \E i \in 1..Len(a) : a[i].tipo = "OK"
SeBloquea(c, p, m) ==
  EnLlamada(c, "MUTEX_LOCK", p, m) /\ (HayBloqueado(aCpu[c]) \/ manejador[c].pc = "avisar")
SeConcede(c, p, m) == EnLlamada(c, "MUTEX_LOCK", p, m) /\ HayOK(aCpu[c])
SePide(c, s, p, m) ==
  \E i \in 1..Len(deCpu[c]) : deCpu[c][i].tipo = s /\ deCpu[c][i].pid = p /\ deCpu[c][i].arg = m

\* The owner that waits for its own mutex: it was handed over while it blocked.
Propio(p, m) == tomador[m] = p /\ EnCola(p, m)

\* A mutex the program believes it holds is its own, or it waits for it, or releases it.
LoQueCree ==
  \A p \in Procesos, m \in Mutexes : m \in posee[p] =>
    tomador[m] = p \/ EnCola(p, m) \/ \E c \in CPUs : EnLlamada(c, "MUTEX_UNLOCK", p, m)
\* Who is being blocked waits for the mutex, or has got it meanwhile.
LosQueSeBloquean ==
  \A c \in CPUs, p \in Procesos, m \in Mutexes : SeBloquea(c, p, m) =>
    /\ EnCola(p, m) \/ tomador[m] = p
    /\ m \notin posee[p] \/ Propio(p, m)
    /\ \A d \in CPUs : SeBloquea(d, p, m) /\ d # c => Propio(p, m)
\* Who is given the mutex owns it, and is not being blocked elsewhere.
LosConcedidos ==
  \A c \in CPUs, p \in Procesos, m \in Mutexes : SeConcede(c, p, m) =>
    tomador[m] = p /\ \A d \in CPUs : ~SeBloquea(d, p, m)
\* A call that has not been attended is the one its CPU waits for, and the program locks
\* what it does not hold, or has got meanwhile, and unlocks what it holds.
LosPedidos ==
  \A c \in CPUs, p \in Procesos, m \in Mutexes :
    /\ SePide(c, "MUTEX_LOCK", p, m) =>
         EnLlamada(c, "MUTEX_LOCK", p, m) /\ (m \notin posee[p] \/ tomador[m] = p)
    /\ SePide(c, "MUTEX_UNLOCK", p, m) => EnLlamada(c, "MUTEX_UNLOCK", p, m) /\ m \in posee[p]
Posesiones == LoQueCree /\ LosQueSeBloquean /\ LosConcedidos /\ LosPedidos

\* The CPU c is inside no call on a mutex, and none it made is pending.
SinLlamada(c) ==
  \A s \in LockUnlock, p \in Procesos, m \in Mutexes : ~EnLlamada(c, s, p, m) /\ ~SePide(c, s, p, m)

\* A step that starts no call of c and answers none.
Quieta(c) ==
  /\ \A s \in LockUnlock, p \in Procesos, m \in Mutexes :
       /\ EnLlamada(c, s, p, m)' <=> EnLlamada(c, s, p, m)
       /\ SePide(c, s, p, m)' => SePide(c, s, p, m)
  /\ \A p \in Procesos, m \in Mutexes :
       /\ SeBloquea(c, p, m)' => SeBloquea(c, p, m)
       /\ SeConcede(c, p, m)' => SeConcede(c, p, m)

\* Where a program is while it calls, and what its CPU is waiting for.
Llamadas ==
  \A c \in CPUs, p \in Procesos, m \in Mutexes :
    /\ \A s \in LockUnlock : SePide(c, s, p, m) =>
         EnCPU(p, c) /\ \A q \in Procesos, n \in Mutexes : ~SeBloquea(c, q, n) /\ ~SeConcede(c, q, n)
    /\ EnLlamada(c, "MUTEX_UNLOCK", p, m) => EnCPU(p, c)
    /\ SeConcede(c, p, m) => EnCPU(p, c)
EnUnaCPU ==
  \A p \in Procesos, c \in CPUs : EnCPU(p, c) =>
    /\ \A m \in Mutexes : ~EnCola(p, m)
    /\ \A d \in CPUs : EnCPU(p, d) => d = c

\* A program that calls is in one CPU, and in no queue, until it is blocked.
LEMMA LugarDeLlamadas ==
  ASSUME Bien, TurnoCPU, CadaUnoEnSuSitio
  PROVE  Llamadas /\ EnUnaCPU
<1>1. EnUnaCPU
  <2>1. ASSUME NEW p \in Procesos, NEW c \in CPUs, EnCPU(p, c), NEW m \in Mutexes, EnCola(p, m)
        PROVE  FALSE
    <3>1. EnSitio(p, "cpu", c) /\ EnSitio(p, "cola", m)
      BY <2>1 DEF EnSitio
    <3> QED BY <3>1 DEF CadaUnoEnSuSitio, UnSitio
  <2>2. ASSUME NEW p \in Procesos, NEW c \in CPUs, EnCPU(p, c), NEW d \in CPUs, EnCPU(p, d)
        PROVE  d = c
    <3>1. EnSitio(p, "cpu", c) /\ EnSitio(p, "cpu", d)
      BY <2>2 DEF EnSitio
    <3> QED BY <3>1 DEF CadaUnoEnSuSitio, UnSitio
  <2> QED BY <2>1, <2>2 DEF EnUnaCPU
<1>2. ASSUME NEW c \in CPUs, NEW p \in Procesos, NEW m \in Mutexes
      PROVE  /\ \A s \in LockUnlock : SePide(c, s, p, m) =>
                  EnCPU(p, c) /\ \A q \in Procesos, n \in Mutexes : ~SeBloquea(c, q, n) /\ ~SeConcede(c, q, n)
             /\ EnLlamada(c, "MUTEX_UNLOCK", p, m) => EnCPU(p, c)
             /\ SeConcede(c, p, m) => EnCPU(p, c)
  <2> DEFINE a == aCpu[c]
             d == deCpu[c]
             k == cpu[c]
  <2>0. Turno(Contains(cpusLibres, c), corto.c = c, a, d, k, manejador[c])
    BY DEF TurnoCPU, TurnoDe
  <2>1. HayBloqueado(a) => HayResp(a)
    BY DEF HayBloqueado, HayResp, Resp
  <2>2. HayOK(a) => HayResp(a)
    BY DEF HayOK, HayResp, Resp
  <2>3. HayOK(a) => ~HayBloqueado(a)
    <3>1. OrdenSocket(a)
      <4> HIDE DEF a, d, k
      <4> QED BY <2>0 DEF Turno
    <3> HIDE DEF a
    <3> QED BY <3>1 DEF OrdenSocket, HayOK, HayBloqueado, Resp
  <2>4. ASSUME k.modo = "respuesta", k.pid = p, ~HayBloqueado(a), manejador[c].pc # "avisar"
        PROVE  EnCPU(p, c)
    BY <2>4 DEF EnCPU, EnLaCPU, Corre
  <2>8. HayResp(a) \/ Pide(d) => manejador[c].pc # "avisar"
    <3> HIDE DEF a, d, k
    <3> QED BY <2>0 DEF Turno, Atendiendo
  <2>5. SeConcede(c, p, m) => EnCPU(p, c)
    BY <2>2, <2>3, <2>4, <2>8 DEF SeConcede, EnLlamada
  <2>6. EnLlamada(c, "MUTEX_UNLOCK", p, m) => EnCPU(p, c)
    <3>1. ASSUME k.modo = "respuesta", k.sys = "MUTEX_UNLOCK"
          PROVE  ~HayBloqueado(a) /\ manejador[c].pc # "avisar"
      <4> HIDE DEF a, d, k
      <4> QED BY <2>0, <3>1 DEF Turno, LlamaALock
    <3> QED BY <2>4, <3>1 DEF EnLlamada
  <2>7. ASSUME NEW s \in LockUnlock, SePide(c, s, p, m)
        PROVE  EnCPU(p, c) /\ ~HayResp(a) /\ manejador[c].pc # "avisar"
    <3>2. Pide(d)
      BY <2>7 DEF SePide, Pide, Piden, LockUnlock, ConRespuesta
    <3>1. EnCPU(p, c)
      BY <2>7, <2>8, <3>2 DEF SePide, EnCPU, EnLaCPU, EnPedido
    <3>3. ~HayResp(a)
      <4> HIDE DEF a, d, k
      <4> QED BY <2>0, <3>2 DEF Turno
    <3> QED BY <2>8, <3>1, <3>2, <3>3
  <2> QED BY <2>1, <2>2, <2>5, <2>6, <2>7 DEF SeBloquea, SeConcede
<1> QED BY <1>1, <1>2 DEF Llamadas

\* Without news of any call, the mutexes and what the programs hold, nothing changes.
LEMMA SinNovedades ==
  ASSUME Posesiones, \A c \in CPUs : Quieta(c), posee' = posee, tomador' = tomador, cola' = cola
  PROVE  Posesiones'
<1>0. \A p, m : (EnCola(p, m)' <=> EnCola(p, m)) /\ (Propio(p, m)' <=> Propio(p, m))
  BY DEF EnCola, Propio
<1>1. LoQueCree'
  BY <1>0 DEF Posesiones, LoQueCree, Quieta, LockUnlock
<1>2. LosQueSeBloquean'
  BY <1>0 DEF Posesiones, LosQueSeBloquean, Quieta
<1>3. LosConcedidos'
  BY DEF Posesiones, LosConcedidos, Quieta
<1>4. LosPedidos'
  BY DEF Posesiones, LosPedidos, Quieta, LockUnlock
<1> QED BY <1>1, <1>2, <1>3, <1>4 DEF Posesiones

\* A program that locks what it does not hold, or unlocks what it holds.
LEMMA TrasPedir ==
  ASSUME Posesiones, NEW c \in CPUs, \A d \in CPUs \ {c} : Quieta(d), SinLlamada(c),
         posee' = posee, tomador' = tomador, cola' = cola,
         NEW P \in Procesos, NEW M \in Mutexes, NEW S \in LockUnlock,
         M \in posee[P] <=> S = "MUTEX_UNLOCK",
         \A s \in LockUnlock, p \in Procesos, m \in Mutexes :
           /\ SePide(c, s, p, m)' => EnLlamada(c, s, p, m)'
           /\ EnLlamada(c, s, p, m)' => s = S /\ p = P /\ m = M,
         \A p \in Procesos, m \in Mutexes : ~SeBloquea(c, p, m)' /\ ~SeConcede(c, p, m)'
  PROVE  Posesiones'
<1>0. \A p, m : (EnCola(p, m)' <=> EnCola(p, m)) /\ (Propio(p, m)' <=> Propio(p, m))
  BY DEF EnCola, Propio
<1>1. LoQueCree'
  <2>1. ASSUME NEW p \in Procesos, NEW m \in Mutexes, NEW d \in CPUs, EnLlamada(d, "MUTEX_UNLOCK", p, m)
        PROVE  EnLlamada(d, "MUTEX_UNLOCK", p, m)'
    BY <2>1 DEF SinLlamada, Quieta, LockUnlock
  <2> QED BY <1>0, <2>1 DEF Posesiones, LoQueCree
<1>2. \A d \in CPUs, p \in Procesos, m \in Mutexes :
        /\ SeBloquea(d, p, m)' => SeBloquea(d, p, m)
        /\ SeConcede(d, p, m)' => SeConcede(d, p, m)
  BY DEF Quieta
<1>3. LosQueSeBloquean'
  BY <1>0, <1>2 DEF Posesiones, LosQueSeBloquean
<1>4. LosConcedidos'
  BY <1>2 DEF Posesiones, LosConcedidos
<1>5. LosPedidos'
  <2>1. ASSUME NEW d \in CPUs, d # c, NEW s \in LockUnlock, NEW p \in Procesos, NEW m \in Mutexes,
               SePide(d, s, p, m)'
        PROVE  SePide(d, s, p, m) /\ (EnLlamada(d, s, p, m) => EnLlamada(d, s, p, m)')
    BY <2>1 DEF Quieta
  <2>2. ASSUME NEW p \in Procesos, NEW m \in Mutexes
        PROVE  /\ SePide(c, "MUTEX_LOCK", p, m)' =>
                    EnLlamada(c, "MUTEX_LOCK", p, m)' /\ (m \notin posee[p] \/ tomador[m] = p)
               /\ SePide(c, "MUTEX_UNLOCK", p, m)' => EnLlamada(c, "MUTEX_UNLOCK", p, m)' /\ m \in posee[p]
    BY DEF LockUnlock
  <2>3. ASSUME NEW d \in CPUs, d # c, NEW p \in Procesos, NEW m \in Mutexes
        PROVE  /\ SePide(d, "MUTEX_LOCK", p, m)' =>
                    EnLlamada(d, "MUTEX_LOCK", p, m)' /\ (m \notin posee[p] \/ tomador[m] = p)
               /\ SePide(d, "MUTEX_UNLOCK", p, m)' => EnLlamada(d, "MUTEX_UNLOCK", p, m)' /\ m \in posee[p]
    BY <2>1, <2>3 DEF Posesiones, LosPedidos, LockUnlock
  <2> QED BY <2>2, <2>3 DEF LosPedidos
<1> QED BY <1>1, <1>3, <1>4, <1>5 DEF Posesiones

\* The answer that gives a program the mutex is read.
LEMMA TrasTomar ==
  ASSUME Posesiones, Llamadas, EnUnaCPU, NEW c \in CPUs, \A d \in CPUs \ {c} : Quieta(d), SinLlamada(c)',
         tomador' = tomador, cola' = cola, NEW P \in Procesos, NEW M \in Mutexes,
         SeConcede(c, P, M), EnLlamada(c, "MUTEX_LOCK", P, M),
         \A s \in LockUnlock, p \in Procesos, m \in Mutexes : EnLlamada(c, s, p, m) => s = "MUTEX_LOCK",
         \A p \in Procesos, m \in Mutexes : m \in posee'[p] <=> m \in posee[p] \/ (p = P /\ m = M)
  PROVE  Posesiones'
<1>0. \A p, m : (EnCola(p, m)' <=> EnCola(p, m)) /\ (Propio(p, m)' <=> Propio(p, m))
  BY DEF EnCola, Propio
<1>1. tomador[M] = P /\ \A d \in CPUs : ~SeBloquea(d, P, M)
  BY DEF Posesiones, LosConcedidos
<1>2. \A d \in CPUs, p \in Procesos, m \in Mutexes :
        /\ SeBloquea(d, p, m)' => SeBloquea(d, p, m)
        /\ SeConcede(d, p, m)' => SeConcede(d, p, m)
  BY DEF Quieta, SinLlamada, SeBloquea, SeConcede, LockUnlock
<1>3. LoQueCree'
  <2>1. ASSUME NEW p \in Procesos, NEW m \in Mutexes, NEW d \in CPUs, EnLlamada(d, "MUTEX_UNLOCK", p, m)
        PROVE  EnLlamada(d, "MUTEX_UNLOCK", p, m)'
    BY <2>1 DEF Quieta, LockUnlock
  <2> QED BY <1>0, <1>1, <2>1 DEF Posesiones, LoQueCree
<1>4. LosQueSeBloquean'
  BY <1>0, <1>1, <1>2 DEF Posesiones, LosQueSeBloquean
<1>5. LosConcedidos'
  BY <1>2 DEF Posesiones, LosConcedidos
<1>6. LosPedidos'
  <2>1. ASSUME NEW d \in CPUs, NEW s \in LockUnlock, NEW p \in Procesos, NEW m \in Mutexes, SePide(d, s, p, m)'
        PROVE  d # c /\ SePide(d, s, p, m) /\ (EnLlamada(d, s, p, m) => EnLlamada(d, s, p, m)')
    BY <2>1 DEF Quieta, SinLlamada
  <2> QED BY <1>1, <2>1 DEF Posesiones, LosPedidos, LockUnlock
<1> QED BY <1>3, <1>4, <1>5, <1>6 DEF Posesiones

\* The answer to a release is read.
LEMMA TrasSoltar ==
  ASSUME Posesiones, Llamadas, EnUnaCPU, NEW c \in CPUs, \A d \in CPUs \ {c} : Quieta(d), SinLlamada(c)',
         tomador' = tomador, cola' = cola, NEW P \in Procesos, NEW M \in Mutexes,
         EnLlamada(c, "MUTEX_UNLOCK", P, M),
         \A s \in LockUnlock, p \in Procesos, m \in Mutexes : EnLlamada(c, s, p, m) => p = P /\ m = M,
         \A p \in Procesos, m \in Mutexes : m \in posee'[p] <=> m \in posee[p] /\ ~(p = P /\ m = M)
  PROVE  Posesiones'
<1>0. \A p, m : (EnCola(p, m)' <=> EnCola(p, m)) /\ (Propio(p, m)' <=> Propio(p, m))
  BY DEF EnCola, Propio
<1>1. EnCPU(P, c)
  BY DEF Llamadas
<1>2. \A d \in CPUs, p \in Procesos, m \in Mutexes :
        /\ SeBloquea(d, p, m)' => SeBloquea(d, p, m)
        /\ SeConcede(d, p, m)' => SeConcede(d, p, m)
  BY DEF Quieta, SinLlamada, SeBloquea, SeConcede, LockUnlock
<1>3. LoQueCree'
  <2>1. ASSUME NEW p \in Procesos, NEW m \in Mutexes, NEW d \in CPUs, EnLlamada(d, "MUTEX_UNLOCK", p, m),
               ~(p = P /\ m = M)
        PROVE  EnLlamada(d, "MUTEX_UNLOCK", p, m)'
    BY <2>1 DEF Quieta, LockUnlock
  <2> QED BY <1>0, <2>1 DEF Posesiones, LoQueCree
<1>4. LosQueSeBloquean'
  BY <1>0, <1>2 DEF Posesiones, LosQueSeBloquean
<1>5. LosConcedidos'
  BY <1>2 DEF Posesiones, LosConcedidos
<1>6. LosPedidos'
  <2>1. ASSUME NEW d \in CPUs, NEW s \in LockUnlock, NEW p \in Procesos, NEW m \in Mutexes, SePide(d, s, p, m)'
        PROVE  /\ d # c /\ SePide(d, s, p, m) /\ (EnLlamada(d, s, p, m) => EnLlamada(d, s, p, m)')
               /\ p # P
    <3>1. d # c /\ SePide(d, s, p, m) /\ (EnLlamada(d, s, p, m) => EnLlamada(d, s, p, m)')
      BY <2>1 DEF Quieta, SinLlamada
    <3>2. EnCPU(p, d)
      BY <3>1 DEF Llamadas
    <3> QED BY <1>1, <3>1, <3>2 DEF EnUnaCPU
  <2> QED BY <2>1 DEF Posesiones, LosPedidos, LockUnlock
<1> QED BY <1>3, <1>4, <1>5, <1>6 DEF Posesiones

\* The answer that blocks a program is read: it will own the mutex when it runs again.
LEMMA TrasBloquear ==
  ASSUME Posesiones, Llamadas, EnUnaCPU, NEW c \in CPUs, \A d \in CPUs \ {c} : Quieta(d), SinLlamada(c)',
         tomador' = tomador, cola' = cola, NEW P \in Procesos, NEW M \in Mutexes, SeBloquea(c, P, M),
         \A s \in LockUnlock, p \in Procesos, m \in Mutexes : EnLlamada(c, s, p, m) => s = "MUTEX_LOCK",
         \A p \in Procesos, m \in Mutexes : m \in posee'[p] <=> m \in posee[p] \/ (p = P /\ m = M)
  PROVE  Posesiones'
<1>0. \A p, m : (EnCola(p, m)' <=> EnCola(p, m)) /\ (Propio(p, m)' <=> Propio(p, m))
  BY DEF EnCola, Propio
<1>1. /\ EnCola(P, M) \/ tomador[M] = P
      /\ \A d \in CPUs : SeBloquea(d, P, M) /\ d # c => Propio(P, M)
  BY DEF Posesiones, LosQueSeBloquean
<1>2. \A d \in CPUs, p \in Procesos, m \in Mutexes :
        /\ SeBloquea(d, p, m)' => SeBloquea(d, p, m) /\ d # c
        /\ SeConcede(d, p, m)' => SeConcede(d, p, m)
  BY DEF Quieta, SinLlamada, SeBloquea, SeConcede, LockUnlock
<1>3. LoQueCree'
  <2>1. ASSUME NEW p \in Procesos, NEW m \in Mutexes, NEW d \in CPUs, EnLlamada(d, "MUTEX_UNLOCK", p, m)
        PROVE  EnLlamada(d, "MUTEX_UNLOCK", p, m)'
    BY <2>1 DEF Quieta, LockUnlock
  <2> QED BY <1>0, <1>1, <2>1 DEF Posesiones, LoQueCree
<1>4. LosQueSeBloquean'
  BY <1>0, <1>1, <1>2 DEF Posesiones, LosQueSeBloquean
<1>5. LosConcedidos'
  BY <1>2 DEF Posesiones, LosConcedidos
<1>6. LosPedidos'
  <2>1. ASSUME NEW d \in CPUs, NEW s \in LockUnlock, NEW p \in Procesos, NEW m \in Mutexes, SePide(d, s, p, m)'
        PROVE  /\ SePide(d, s, p, m) /\ (EnLlamada(d, s, p, m) => EnLlamada(d, s, p, m)')
               /\ p = P /\ m = M => tomador[M] = P
    <3>1. d # c /\ SePide(d, s, p, m) /\ (EnLlamada(d, s, p, m) => EnLlamada(d, s, p, m)')
      BY <2>1 DEF Quieta, SinLlamada
    <3>2. EnCPU(p, d)
      BY <3>1 DEF Llamadas
    <3>3. p = P => ~EnCola(P, M)
      BY <3>2 DEF EnUnaCPU
    <3> QED BY <1>1, <3>1, <3>3
  <2> QED BY <2>1 DEF Posesiones, LosPedidos, LockUnlock
<1> QED BY <1>3, <1>4, <1>5, <1>6 DEF Posesiones

\* The call of P on M at the CPU c is attended, and P goes on inside it.
DejaDePedir(c, P, M) ==
  \A s \in LockUnlock, p \in Procesos, m \in Mutexes :
    /\ EnLlamada(c, s, p, m)' <=> EnLlamada(c, s, p, m)
    /\ EnLlamada(c, s, p, m) => p = P /\ m = M
    /\ ~SePide(c, s, p, m)'

\* A free mutex is given to the program that locks it.
LEMMA TrasLockLibre ==
  ASSUME Posesiones, Llamadas, EnUnaCPU, LibreSinEsperas, NEW c \in CPUs,
         \A d \in CPUs \ {c} : Quieta(d), posee' = posee, cola' = cola,
         NEW P \in Procesos, NEW M \in Mutexes, SePide(c, "MUTEX_LOCK", P, M), tomador[M] = Nadie,
         tomador'[M] = P, \A m \in Mutexes : m # M => tomador'[m] = tomador[m],
         DejaDePedir(c, P, M),
         \A p \in Procesos, m \in Mutexes : ~SeBloquea(c, p, m)'
  PROVE  Posesiones'
<1>a. \A s \in LockUnlock, p \in Procesos, m \in Mutexes :
        /\ EnLlamada(c, s, p, m)' <=> EnLlamada(c, s, p, m)
        /\ EnLlamada(c, s, p, m) => p = P /\ m = M
        /\ ~SePide(c, s, p, m)'
  BY DEF DejaDePedir
<1>0. /\ \A p, m : EnCola(p, m)' <=> EnCola(p, m)
      /\ \A p \in Procesos : ~EnCola(p, M)
      /\ \A p \in Procesos : p # Nadie
  <2>1. cola[M] = << >>
    BY DEF LibreSinEsperas
  <2>2. \A p : ~EnCola(p, M)
    BY <2>1 DEF EnCola, Contains
  <2> QED BY <2>2, TablasAssumption DEF EnCola
<1>1. \A d \in CPUs, p \in Procesos, m \in Mutexes :
        /\ SeBloquea(d, p, m)' => SeBloquea(d, p, m) /\ m # M
        /\ SeConcede(d, p, m)' => (SeConcede(d, p, m) /\ m # M) \/ (p = P /\ m = M)
  <2>1. \A d \in CPUs, p \in Procesos, m \in Mutexes :
          /\ SeBloquea(d, p, m) => m # M
          /\ SeConcede(d, p, m) => m # M
    BY <1>0 DEF Posesiones, LosQueSeBloquean, LosConcedidos
  <2>2. \A p \in Procesos, m \in Mutexes : SeConcede(c, p, m)' => p = P /\ m = M
    BY <1>a DEF SeConcede, LockUnlock
  <2> QED BY <2>1, <2>2 DEF Quieta
<1>2. LoQueCree'
  <2>1. ASSUME NEW p \in Procesos, NEW m \in Mutexes, NEW d \in CPUs, EnLlamada(d, "MUTEX_UNLOCK", p, m)
        PROVE  EnLlamada(d, "MUTEX_UNLOCK", p, m)'
    BY <1>a, <2>1 DEF Quieta, LockUnlock
  <2> QED BY <1>0, <2>1 DEF Posesiones, LoQueCree
<1>3. LosQueSeBloquean'
  <2>1. \A p \in Procesos, m \in Mutexes : m # M => (Propio(p, m)' <=> Propio(p, m))
    BY DEF Propio, EnCola
  <2> QED BY <1>0, <1>1, <2>1 DEF Posesiones, LosQueSeBloquean
<1>4. LosConcedidos'
  BY <1>1 DEF Posesiones, LosConcedidos
<1>5. LosPedidos'
  <2>1. ASSUME NEW d \in CPUs, NEW s \in LockUnlock, NEW p \in Procesos, NEW m \in Mutexes, SePide(d, s, p, m)'
        PROVE  SePide(d, s, p, m) /\ (EnLlamada(d, s, p, m) => EnLlamada(d, s, p, m)')
    BY <1>a, <2>1 DEF Quieta
  <2> QED BY <1>0, <2>1 DEF Posesiones, LosPedidos, LockUnlock
<1> QED BY <1>2, <1>3, <1>4, <1>5 DEF Posesiones

\* A program that locks a taken mutex waits for it.
LEMMA TrasLockOcupado ==
  ASSUME Posesiones, Llamadas, EnUnaCPU, NEW c \in CPUs,
         \A d \in CPUs \ {c} : Quieta(d), posee' = posee, tomador' = tomador,
         NEW P \in Procesos, NEW M \in Mutexes, SePide(c, "MUTEX_LOCK", P, M),
         \A p \in Procesos, m \in Mutexes : EnCola(p, m)' <=> EnCola(p, m) \/ (p = P /\ m = M),
         DejaDePedir(c, P, M),
         \A p \in Procesos, m \in Mutexes : ~SeConcede(c, p, m)'
  PROVE  Posesiones'
<1>a. \A s \in LockUnlock, p \in Procesos, m \in Mutexes :
        /\ EnLlamada(c, s, p, m)' <=> EnLlamada(c, s, p, m)
        /\ EnLlamada(c, s, p, m) => p = P /\ m = M
        /\ ~SePide(c, s, p, m)'
  BY DEF DejaDePedir
<1>0. \A p \in Procesos, m \in Mutexes :
        Propio(p, m)' <=> tomador[m] = p /\ (EnCola(p, m) \/ (p = P /\ m = M))
  BY DEF Propio
<1>1. EnCPU(P, c) /\ ~EnCola(P, M) /\ (M \notin posee[P] \/ tomador[M] = P)
  <2>1. EnCPU(P, c)
    BY DEF Llamadas, LockUnlock
  <2> QED BY <2>1 DEF EnUnaCPU, Posesiones, LosPedidos
<1>2. \A d \in CPUs, p \in Procesos, m \in Mutexes :
        /\ SeBloquea(d, p, m)' => (SeBloquea(d, p, m) /\ d # c) \/ (d = c /\ p = P /\ m = M)
        /\ SeConcede(d, p, m)' => SeConcede(d, p, m) /\ d # c
  <2>1. \A p \in Procesos, m \in Mutexes : SeBloquea(c, p, m)' => p = P /\ m = M
    BY <1>a DEF SeBloquea, LockUnlock
  <2> QED BY <1>a, <2>1 DEF Quieta
<1>3. LoQueCree'
  <2>1. ASSUME NEW p \in Procesos, NEW m \in Mutexes, NEW d \in CPUs, EnLlamada(d, "MUTEX_UNLOCK", p, m)
        PROVE  EnLlamada(d, "MUTEX_UNLOCK", p, m)'
    BY <1>a, <2>1 DEF Quieta, LockUnlock
  <2> QED BY <2>1 DEF Posesiones, LoQueCree
<1>4. LosQueSeBloquean'
  <2>1. ASSUME NEW d \in CPUs, NEW p \in Procesos, NEW m \in Mutexes, SeBloquea(d, p, m)'
        PROVE  /\ EnCola(p, m)' \/ tomador[m] = p
               /\ m \notin posee[p] \/ Propio(p, m)'
               /\ \A e \in CPUs : SeBloquea(e, p, m)' /\ e # d => Propio(p, m)'
    <3>1. CASE ~(p = P /\ m = M)
      BY <1>0, <1>2, <2>1, <3>1 DEF Posesiones, LosQueSeBloquean, Propio
    <3>2. CASE p = P /\ m = M
      <4>1. EnCola(P, M)' /\ (M \notin posee[P] \/ Propio(P, M)')
        BY <1>0, <1>1
      <4>2. \A e \in CPUs : SeBloquea(e, P, M)' /\ e # c => tomador[M] = P
        BY <1>1, <1>2 DEF Posesiones, LosQueSeBloquean
      <4> QED BY <1>0, <2>1, <3>2, <4>1, <4>2
    <3> QED BY <3>1, <3>2
  <2> QED BY <2>1 DEF LosQueSeBloquean
<1>5. LosConcedidos'
  <2>1. \A d \in CPUs : d # c => ~SeConcede(d, P, M)
    BY <1>1 DEF Llamadas, EnUnaCPU
  <2> QED BY <1>2, <2>1 DEF Posesiones, LosConcedidos
<1>6. LosPedidos'
  <2>1. ASSUME NEW d \in CPUs, NEW s \in LockUnlock, NEW p \in Procesos, NEW m \in Mutexes, SePide(d, s, p, m)'
        PROVE  SePide(d, s, p, m) /\ (EnLlamada(d, s, p, m) => EnLlamada(d, s, p, m)')
    BY <1>a, <2>1 DEF Quieta
  <2> QED BY <2>1 DEF Posesiones, LosPedidos, LockUnlock
<1> QED BY <1>3, <1>4, <1>5, <1>6 DEF Posesiones

\* The owner releases a mutex, and the first that waits for it is the new owner.
LEMMA TrasUnlock ==
  ASSUME Posesiones, Llamadas, EnUnaCPU, NEW c \in CPUs, \A d \in CPUs : Quieta(d), posee' = posee,
         NEW P \in Procesos, NEW M \in Mutexes, SePide(c, "MUTEX_UNLOCK", P, M), tomador[M] = P,
         \A m \in Mutexes : m # M => tomador'[m] = tomador[m],
         \A p \in Procesos, m \in Mutexes :
           /\ EnCola(p, m)' => EnCola(p, m)
           /\ EnCola(p, m) => EnCola(p, m)' \/ (m = M /\ tomador'[m] = p)
  PROVE  Posesiones'
<1>1. EnCPU(P, c) /\ ~EnCola(P, M) /\ M \in posee[P] /\ EnLlamada(c, "MUTEX_UNLOCK", P, M)
  <2>1. EnCPU(P, c)
    BY DEF Llamadas, LockUnlock
  <2> QED BY <2>1 DEF EnUnaCPU, Posesiones, LosPedidos
\* The owner is calling from c: it neither blocks nor is answered nor locks elsewhere.
<1>2. \A d \in CPUs : ~SeBloquea(d, P, M) /\ ~SeConcede(d, P, M) /\ ~SePide(d, "MUTEX_LOCK", P, M)
  <2>1. ASSUME NEW d \in CPUs, SeBloquea(d, P, M)
        PROVE  FALSE
    BY <1>1, <2>1 DEF Posesiones, LosQueSeBloquean, Propio
  <2>2. ASSUME NEW d \in CPUs, SeConcede(d, P, M) \/ SePide(d, "MUTEX_LOCK", P, M)
        PROVE  FALSE
    <3>1. d = c
      BY <1>1, <2>2 DEF Llamadas, EnUnaCPU, LockUnlock
    <3>2. EnLlamada(c, "MUTEX_LOCK", P, M)
      BY <2>2, <3>1 DEF Posesiones, LosPedidos, SeConcede
    <3> QED BY <1>1, <3>2 DEF EnLlamada
  <2> QED BY <2>1, <2>2
<1>3. ASSUME NEW d \in CPUs, NEW p \in Procesos, NEW m \in Mutexes
      PROVE  /\ SeBloquea(d, p, m)' => SeBloquea(d, p, m) /\ ~(p = P /\ m = M)
             /\ SeConcede(d, p, m)' => SeConcede(d, p, m) /\ ~(p = P /\ m = M)
  BY <1>2 DEF Quieta
<1>4. LoQueCree'
  <2>1. ASSUME NEW p \in Procesos, NEW m \in Mutexes, NEW d \in CPUs, EnLlamada(d, "MUTEX_UNLOCK", p, m)
        PROVE  EnLlamada(d, "MUTEX_UNLOCK", p, m)'
    BY <2>1 DEF Quieta, LockUnlock
  <2>2. ASSUME NEW p \in Procesos, NEW m \in Mutexes, m \in posee[p]
        PROVE  \/ tomador'[m] = p \/ EnCola(p, m)'
               \/ \E d \in CPUs : EnLlamada(d, "MUTEX_UNLOCK", p, m)'
    <3>1. CASE tomador[m] = p
      <4>1. CASE m # M
        BY <3>1, <4>1
      <4>2. CASE m = M
        BY <1>1, <2>1, <3>1, <4>2
      <4> QED BY <4>1, <4>2
    <3>2. CASE EnCola(p, m)
      BY <3>2
    <3>3. CASE \E d \in CPUs : EnLlamada(d, "MUTEX_UNLOCK", p, m)
      BY <2>1, <3>3
    <3> QED BY <2>2, <3>1, <3>2, <3>3 DEF Posesiones, LoQueCree
  <2> QED BY <2>2 DEF LoQueCree
<1>5. LosQueSeBloquean'
  <2>1. ASSUME NEW d \in CPUs, NEW p \in Procesos, NEW m \in Mutexes, SeBloquea(d, p, m)'
        PROVE  /\ EnCola(p, m)' \/ tomador'[m] = p
               /\ m \notin posee[p] \/ Propio(p, m)'
               /\ \A e \in CPUs : SeBloquea(e, p, m)' /\ e # d => Propio(p, m)'
    <3>1. SeBloquea(d, p, m) /\ ~(p = P /\ m = M)
      BY <1>3, <2>1
    <3>2. /\ EnCola(p, m) \/ tomador[m] = p
          /\ m \notin posee[p] \/ Propio(p, m)
          /\ \A e \in CPUs : SeBloquea(e, p, m) /\ e # d => Propio(p, m)
      BY <3>1 DEF Posesiones, LosQueSeBloquean
    <3>3. \A e \in CPUs : SeBloquea(e, p, m)' => SeBloquea(e, p, m)
      BY <1>3
    <3>4. CASE m # M
      <4>1. tomador'[m] = tomador[m] /\ (EnCola(p, m)' <=> EnCola(p, m))
        BY <3>4
      <4>2. Propio(p, m)' <=> Propio(p, m)
        BY <4>1 DEF Propio
      <4> QED BY <3>2, <3>3, <4>1, <4>2
    <3>5. CASE m = M
      <4>1. tomador[m] # p /\ ~Propio(p, m)
        BY <3>1, <3>5 DEF Propio
      <4> QED BY <3>2, <3>3, <4>1
    <3> QED BY <3>4, <3>5
  <2> QED BY <2>1 DEF LosQueSeBloquean
<1>6. LosConcedidos'
  <2>1. ASSUME NEW d \in CPUs, NEW p \in Procesos, NEW m \in Mutexes, SeConcede(d, p, m)'
        PROVE  tomador'[m] = p /\ \A e \in CPUs : ~SeBloquea(e, p, m)'
    <3>1. SeConcede(d, p, m) /\ ~(p = P /\ m = M)
      BY <1>3, <2>1
    <3>2. tomador[m] = p /\ \A e \in CPUs : ~SeBloquea(e, p, m)
      BY <3>1 DEF Posesiones, LosConcedidos
    <3>3. m # M
      BY <3>1, <3>2
    <3> QED BY <1>3, <3>2, <3>3
  <2> QED BY <2>1 DEF LosConcedidos
<1>7. LosPedidos'
  <2>1. ASSUME NEW d \in CPUs, NEW p \in Procesos, NEW m \in Mutexes
        PROVE  /\ SePide(d, "MUTEX_LOCK", p, m)' =>
                    EnLlamada(d, "MUTEX_LOCK", p, m)' /\ (m \notin posee[p] \/ tomador'[m] = p)
               /\ SePide(d, "MUTEX_UNLOCK", p, m)' => EnLlamada(d, "MUTEX_UNLOCK", p, m)' /\ m \in posee[p]
    <3>1. ASSUME NEW s \in LockUnlock, SePide(d, s, p, m)'
          PROVE  SePide(d, s, p, m) /\ (EnLlamada(d, s, p, m) => EnLlamada(d, s, p, m)')
      BY <3>1 DEF Quieta
    <3>2. SePide(d, "MUTEX_LOCK", p, m) => (m = M => p # P)
      BY <1>2
    <3>3. SePide(d, "MUTEX_LOCK", p, m) => m \notin posee[p] \/ (tomador[m] = p /\ m # M)
      BY <3>2 DEF Posesiones, LosPedidos
    <3> QED BY <3>1, <3>3 DEF Posesiones, LosPedidos, LockUnlock
  <2> QED BY <2>1 DEF LosPedidos
<1> QED BY <1>4, <1>5, <1>6, <1>7 DEF Posesiones

\* What a CPU adds to its connection, a call on a mutex apart, asks for no mutex.
LEMMA SigueSinPedir ==
  ASSUME Bien, NEW c \in CPUs,
         \/ deCpu'[c] = deCpu[c]
         \/ \E m \in MensajesDelCPU : deCpu'[c] = Append(deCpu[c], m) /\ m.tipo \notin LockUnlock
  PROVE  \A s \in LockUnlock, p \in Procesos, m \in Mutexes : SePide(c, s, p, m)' => SePide(c, s, p, m)
<1> DEFINE d == deCpu[c]
           d2 == deCpu'[c]
<1>0. d \in Seq(MensajesDelCPU)
  BY DEF Bien, TypeOK
<1>1. CASE d2 = d
  BY <1>1 DEF SePide
<1>2. ASSUME NEW x \in MensajesDelCPU, d2 = Append(d, x), x.tipo \notin LockUnlock
      PROVE  \A s \in LockUnlock, p \in Procesos, m \in Mutexes : SePide(c, s, p, m)' => SePide(c, s, p, m)
  <2>1. \A j \in 1..Len(d2) : d2[j] = x \/ \E i \in 1..Len(d) : d2[j] = d[i]
    <3> HIDE DEF d, d2
    <3>1. \A j \in 1..Len(Append(d, x)) : Append(d, x)[j] = x \/ \E i \in 1..Len(d) : Append(d, x)[j] = d[i]
      BY <1>0, ElementosAgregados
    <3> QED BY <1>2, <3>1
  <2>2. ASSUME NEW s \in LockUnlock, NEW p \in Procesos, NEW m \in Mutexes, SePide(c, s, p, m)'
        PROVE  SePide(c, s, p, m)
    <3>1. PICK j \in 1..Len(d2) : d2[j].tipo = s /\ d2[j].pid = p /\ d2[j].arg = m
      BY <2>2 DEF SePide
    <3>2. PICK i \in 1..Len(d) : d2[j] = d[i]
      BY <1>2, <2>1, <3>1
    <3> QED BY <3>1, <3>2 DEF SePide
  <2> QED BY <2>2
<1> QED BY <1>1, <1>2

\* A CPU that is inside no call on a mutex, before or after, is quiet.
LEMMA QuietaSinLlamada ==
  ASSUME NEW c \in CPUs, SinLlamada(c), SinLlamada(c)'
  PROVE  Quieta(c)
<1>1. \A p \in Procesos, m \in Mutexes : ~SeBloquea(c, p, m)' /\ ~SeConcede(c, p, m)'
  BY DEF SinLlamada, SeBloquea, SeConcede, LockUnlock
<1> QED BY <1>1 DEF SinLlamada, Quieta

\* The steps of a CPU, for the mutexes: nothing, a call, and the three answers.
HaceLlamada(c) ==
  \E P \in Procesos, M \in Mutexes, S \in LockUnlock :
    /\ SinLlamada(c) /\ posee' = posee /\ (M \in posee[P] <=> S = "MUTEX_UNLOCK")
    /\ \A s \in LockUnlock, p \in Procesos, m \in Mutexes :
         /\ SePide(c, s, p, m)' <=> EnLlamada(c, s, p, m)'
         /\ EnLlamada(c, s, p, m)' => s = S /\ p = P /\ m = M
    /\ \A p \in Procesos, m \in Mutexes : ~SeBloquea(c, p, m)' /\ ~SeConcede(c, p, m)'
Unica(c, S, P, M) ==
  \A s \in LockUnlock, p \in Procesos, m \in Mutexes : EnLlamada(c, s, p, m) => s = S /\ p = P /\ m = M
Toma(P, M) == \A p \in Procesos, m \in Mutexes : m \in posee'[p] <=> m \in posee[p] \/ (p = P /\ m = M)
Suelta(P, M) == \A p \in Procesos, m \in Mutexes : m \in posee'[p] <=> m \in posee[p] /\ ~(p = P /\ m = M)
LeeRespuesta(c) ==
  \E P \in Procesos, M \in Mutexes :
    /\ SinLlamada(c)'
    /\ \/ SeConcede(c, P, M) /\ Unica(c, "MUTEX_LOCK", P, M) /\ Toma(P, M)
       \/ SeBloquea(c, P, M) /\ Unica(c, "MUTEX_LOCK", P, M) /\ Toma(P, M)
       \/ /\ EnLlamada(c, "MUTEX_UNLOCK", P, M) /\ HayResp(aCpu[c])
          /\ Unica(c, "MUTEX_UNLOCK", P, M) /\ Suelta(P, M)
DeLaCPU(c) == (Quieta(c) /\ posee' = posee) \/ HaceLlamada(c) \/ LeeRespuesta(c)

\* A CPU that reads a message other than an interrupt is inside no call afterwards.
LEMMA LlamadaAcabada ==
  ASSUME Bien, TurnoCPU, LosPedidos, NEW c \in CPUs, cpu'[c].modo # "respuesta",
         cpu[c].modo = "respuesta" /\ cpu[c].sys \in LockUnlock => HayResp(aCpu[c]),
         \/ deCpu'[c] = deCpu[c]
         \/ \E m \in MensajesDelCPU : deCpu'[c] = Append(deCpu[c], m) /\ m.tipo \notin LockUnlock
  PROVE  SinLlamada(c)'
<1>0. TurnoDe(c)
  BY DEF TurnoCPU
<1>1. ASSUME NEW s \in LockUnlock, NEW p \in Procesos, NEW m \in Mutexes, SePide(c, s, p, m)'
      PROVE  FALSE
  <2>1. SePide(c, s, p, m)
    BY <1>1, SigueSinPedir
  <2>2. EnLlamada(c, s, p, m)
    BY <2>1 DEF LosPedidos, LockUnlock
  <2>3. HayResp(aCpu[c])
    BY <2>2 DEF EnLlamada
  <2>4. Pide(deCpu[c])
    BY <2>1 DEF SePide, Pide, Piden, LockUnlock, ConRespuesta
  <2> QED BY <1>0, <2>3, <2>4 DEF TurnoDe, Turno
<1>2. ASSUME NEW s, NEW p, NEW m
      PROVE  ~EnLlamada(c, s, p, m)'
  BY DEF EnLlamada
<1> QED BY <1>1, <1>2 DEF SinLlamada

\* Without a call in course there is nothing pending.
LEMMA FueraDeLlamada ==
  ASSUME LosPedidos, NEW c \in CPUs, cpu[c].modo # "respuesta" \/ cpu[c].sys \notin LockUnlock
  PROVE  SinLlamada(c)
<1>1. ASSUME NEW s \in LockUnlock, NEW p \in Procesos, NEW m \in Mutexes
      PROVE  ~EnLlamada(c, s, p, m)
  BY DEF EnLlamada
<1> QED BY <1>1 DEF LosPedidos, SinLlamada, LockUnlock

\* What a step of the module of c is for the mutexes, unless the module ends.
LEMMA ModuloMutex ==
  ASSUME Bien, TurnoCPU, LosPedidos, ProgramasCorrectos, NEW c \in CPUs, ModuloCPU(c),
         cpu'[c].modo # "caida"
  PROVE  DeLaCPU(c)
<1> DEFINE e == cpu[c]
           a == aCpu[c]
           d == deCpu[c]
<1>0. /\ e \in EstadoCPU /\ cpu \in [CPUs -> EstadoCPU] /\ deCpu \in [CPUs -> Seq(MensajesDelCPU)]
      /\ a \in Seq(MensajesAlCPU) /\ d \in Seq(MensajesDelCPU) /\ e.pend \in SUBSET MensajesAlCPU
      /\ e.modo \in {"ejecuta", "respuesta", "ack"} => e.pid \in Procesos
      /\ e.modo = "respuesta" => e.sys \in ConRespuesta /\ (e.sys \in DeMutex => e.arg \in Mutexes)
      /\ \A i \in e.pend : i.tipo = "INTERRUPT"
      /\ posee \in [Procesos -> SUBSET Mutexes]
  BY DEF Bien, TypeOK, EstadoCPU, Formas, FormaCPU
<1>1. Turno(Contains(cpusLibres, c), corto.c = c, a, d, e, manejador[c]) /\ OrdenSocket(a)
  BY DEF TurnoCPU, TurnoDe, Turno
<1>a. manejador' = manejador
  BY ModuloSolo
<1>2. ASSUME NEW k2, cpu' = [cpu EXCEPT ![c] = k2]
      PROVE  cpu'[c] = k2
  BY <1>0, <1>2
<1>3. /\ CPUEn("espera").modo = "espera" /\ CPUEn("caida").modo = "caida"
      /\ \A q : [CPUEn("ejecuta") EXCEPT !.pid = q].modo = "ejecuta"
  BY DEF CPUEn
\* A message of the module that is no call on a mutex.
<1>4. ASSUME NEW tipo \in ConRespuesta \cup Bloqueantes \cup {"DONE", "SEG_FAULT", "INTERRUPCION_ATENDIDA"},
             NEW arg \in Args, deCpu' = Pedido(c, tipo, arg), e.pid \in Procesos, tipo \notin DeMutex
      PROVE  \E m \in MensajesDelCPU : deCpu'[c] = Append(d, m) /\ m.tipo \notin LockUnlock
  <2>1. deCpu'[c] = Append(d, Msj(tipo, e.pid, arg))
    BY <1>4, PedidoTipo
  <2>2. Msj(tipo, e.pid, arg) \in MensajesDelCPU /\ Msj(tipo, e.pid, arg).tipo = tipo
    BY <1>4 DEF Msj, MensajesDelCPU
  <2> QED BY <1>4, <2>1, <2>2 DEF LockUnlock, DeMutex
\* Between calls.
<1>5. ASSUME e.modo # "respuesta" \/ e.sys \notin LockUnlock, cpu'[c].modo # "respuesta", posee' = posee,
             \/ deCpu'[c] = d
             \/ \E m \in MensajesDelCPU : deCpu'[c] = Append(d, m) /\ m.tipo \notin LockUnlock
      PROVE  DeLaCPU(c)
  <2>1. SinLlamada(c)
    BY <1>5, FueraDeLlamada
  <2>2. SinLlamada(c)'
    BY <1>5, LlamadaAcabada
  <2> QED BY <1>5, <2>1, <2>2, QuietaSinLlamada DEF DeLaCPU
<1>6. CASE esperarPid(c)
  <2>1. e.modo = "espera" /\ deCpu' = deCpu /\ posee' = posee
    BY <1>6 DEF esperarPid
  <2>2. cpu'[c].modo # "respuesta"
    <3>1. CASE cpu' = cpu
      BY <2>1, <3>1
    <3>2. ASSUME NEW q, cpu' = [cpu EXCEPT ![c] = [CPUEn("ejecuta") EXCEPT !.pid = q]]
          PROVE  cpu'[c].modo # "respuesta"
      BY <1>2, <1>3, <3>2
    <3> QED BY <1>6, <3>1, <3>2 DEF esperarPid
  <2> QED BY <1>5, <2>1, <2>2
<1>7. CASE syscallConRespuesta(c)
  <2> DEFINE Pedida(s, arg) ==
               /\ Permitida(e.pid, s, arg)
               /\ deCpu' = Pedido(c, s, arg)
               /\ cpu' = [cpu EXCEPT ![c].modo = "respuesta", ![c].sys = s, ![c].arg = arg]
  <2>a. \E s \in ConRespuesta : \E arg \in ArgsDe(s) : Pedida(s, arg)
    BY <1>7, Zenon DEF syscallConRespuesta
  <2>b. \A s : \A arg \in ArgsDe(s) : arg \in Args /\ (s \in DeMutex => arg \in Mutexes)
    BY DEF ArgsDe, Args, DeMutex
  <2>c. PICK s \in ConRespuesta, arg \in Args : Pedida(s, arg) /\ (s \in DeMutex => arg \in Mutexes)
    <3> HIDE DEF Pedida
    <3> QED BY <2>a, <2>b
  <2>1. /\ Permitida(e.pid, s, arg) /\ (s \in DeMutex => arg \in Mutexes)
        /\ deCpu' = Pedido(c, s, arg)
        /\ cpu' = [cpu EXCEPT ![c].modo = "respuesta", ![c].sys = s, ![c].arg = arg]
    BY <2>c
  <2> HIDE DEF Pedida
  <2>2. e.modo = "ejecuta" /\ posee' = posee /\ aCpu' = aCpu /\ e.pid \in Procesos
    BY <1>0, <1>7 DEF syscallConRespuesta
  <2>3. /\ cpu'[c].modo = "respuesta" /\ cpu'[c].sys = s /\ cpu'[c].arg = arg /\ cpu'[c].pid = e.pid
    <3> DEFINE k2 == [e EXCEPT !.modo = "respuesta", !.sys = s, !.arg = arg]
    <3>1. /\ cpu' = [cpu EXCEPT ![c] = k2] /\ k2.modo = "respuesta" /\ k2.sys = s /\ k2.arg = arg
          /\ k2.pid = e.pid
      BY <1>0, <2>1 DEF EstadoCPU
    <3> HIDE DEF k2
    <3>2. cpu'[c] = k2
      BY <1>2, <3>1
    <3> QED BY <3>1, <3>2
  <2>4. SinLlamada(c)
    BY <2>2, FueraDeLlamada
  <2>5. d = << >> /\ ~HayResp(a) /\ manejador[c].pc # "avisar"
    <3> HIDE DEF a, d, e
    <3> QED BY <1>1, <2>2 DEF Turno, Quieto, Atendiendo
  <2>7. deCpu'[c] = Append(d, Msj(s, e.pid, arg)) /\ Msj(s, e.pid, arg) \in MensajesDelCPU
    BY <2>1, <2>2, PedidoTipo DEF Msj, MensajesDelCPU
  <2>8. \A s2, p, m : EnLlamada(c, s2, p, m)' <=> s2 = s /\ p = e.pid /\ m = arg
    BY <2>3 DEF EnLlamada
  <2>9. \A s2, p, m : SePide(c, s2, p, m)' <=> s2 = s /\ p = e.pid /\ m = arg
    <3> DEFINE x == Msj(s, e.pid, arg)
               d2 == deCpu'[c]
    <3>1. x.tipo = s /\ x.pid = e.pid /\ x.arg = arg
      BY DEF Msj
    <3>2. d2 = << x >>
      <4>1. d2 = Append(d, x)
        BY <2>7
      <4> HIDE DEF x, d, d2
      <4> QED BY <2>5, <4>1
    <3>3. (\A j \in 1..Len(d2) : d2[j] = x) /\ 1 \in 1..Len(d2)
      <4> HIDE DEF x, d2
      <4> QED BY <3>2
    <3> HIDE DEF x
    <3> QED BY <3>1, <3>3 DEF SePide
  <2>10. CASE s \notin LockUnlock
    <3>1. SinLlamada(c)'
      BY <2>8, <2>9, <2>10 DEF SinLlamada
    <3> QED BY <2>2, <2>4, <3>1, QuietaSinLlamada DEF DeLaCPU
  <2>11. CASE s \in LockUnlock
    <3>1. arg \in Mutexes /\ (arg \in posee[e.pid] <=> s = "MUTEX_UNLOCK")
      BY <2>1, <2>11 DEF LockUnlock, DeMutex, Permitida
    <3>2. ~HayBloqueado(a) /\ ~HayOK(a)
      BY <2>5 DEF HayResp, HayBloqueado, HayOK, Resp
    <3>3. \A p \in Procesos, m \in Mutexes : ~SeBloquea(c, p, m)' /\ ~SeConcede(c, p, m)'
      BY <1>a, <2>2, <2>5, <3>2 DEF SeBloquea, SeConcede
    <3>4. \A s2 \in LockUnlock, p \in Procesos, m \in Mutexes :
            /\ SePide(c, s2, p, m)' <=> EnLlamada(c, s2, p, m)'
            /\ EnLlamada(c, s2, p, m)' => s2 = s /\ p = e.pid /\ m = arg
      BY <2>8, <2>9
    <3>5. HaceLlamada(c)
      <4> DEFINE q == e.pid
      <4>1. q \in Procesos /\ posee' = posee /\ (arg \in posee[q] <=> s = "MUTEX_UNLOCK")
        BY <2>2, <3>1
      <4>2. \A s2 \in LockUnlock, p \in Procesos, m \in Mutexes :
              /\ SePide(c, s2, p, m)' <=> EnLlamada(c, s2, p, m)'
              /\ EnLlamada(c, s2, p, m)' => s2 = s /\ p = q /\ m = arg
        BY <3>4
      <4> HIDE DEF q
      <4> QED BY <2>4, <2>11, <3>1, <3>3, <4>1, <4>2 DEF HaceLlamada
    <3> QED BY <3>5 DEF DeLaCPU
  <2> QED BY <2>10, <2>11
<1>8. CASE syscallBloqueante(c)
  <2>1. PICK s \in Bloqueantes : deCpu' = Pedido(c, s, Nadie)
    BY <1>8 DEF syscallBloqueante
  <2>2. /\ e.modo = "ejecuta" /\ Nadie \in Args /\ cpu' = [cpu EXCEPT ![c] = CPUEn("espera")]
        /\ posee' = posee /\ s \notin DeMutex
    BY <1>8 DEF syscallBloqueante, Args, Bloqueantes, DeMutex
  <2> QED BY <1>0, <1>2, <1>3, <1>4, <1>5, <2>1, <2>2
<1>9. CASE syscallExit(c)
  <2>1. /\ e.modo = "ejecuta" /\ Nadie \in Args /\ cpu' = [cpu EXCEPT ![c] = CPUEn("espera")]
        /\ deCpu' = Pedido(c, "DONE", Nadie) /\ posee' = posee /\ "DONE" \notin DeMutex
    BY <1>9 DEF syscallExit, Args, DeMutex
  <2> QED BY <1>0, <1>2, <1>3, <1>4, <1>5, <2>1
<1>10. CASE manejarSegFault(c)
  <2>1. /\ e.modo = "ejecuta" /\ Nadie \in Args /\ deCpu' = Pedido(c, "SEG_FAULT", Nadie)
        /\ posee' = posee /\ "SEG_FAULT" \notin DeMutex
    BY <1>10 DEF manejarSegFault, Args, DeMutex
  <2>2. cpu'[c].modo = "ack"
    BY <1>0, <1>10 DEF manejarSegFault, EstadoCPU
  <2> QED BY <1>0, <1>4, <1>5, <2>1, <2>2
<1>11. CASE confirmarSegFault(c)
  <2>1. e.modo = "ack" /\ cpu' = [cpu EXCEPT ![c] = CPUEn("espera")] /\ deCpu' = deCpu /\ posee' = posee
    BY <1>11 DEF confirmarSegFault
  <2> QED BY <1>2, <1>3, <1>5, <2>1
<1>12. CASE atenderInterrupcion(c)
  <2>1. e.modo = "ejecuta" /\ Head(a) \in MensajesAlCPU /\ posee' = posee /\ e.pid \in Procesos
    BY <1>0, <1>12, RecibeTipo DEF atenderInterrupcion
  <2>2. CASE /\ Head(a).tipo = "INTERRUPT" /\ deCpu' = Pedido(c, "INTERRUPCION_ATENDIDA", Head(a).arg)
             /\ cpu' = [cpu EXCEPT ![c] = CPUEn("espera")]
    <3>1. Head(a).arg \in Args /\ "INTERRUPCION_ATENDIDA" \notin DeMutex
      BY <2>1, <2>2 DEF MensajesAlCPU, Args, DeMutex
    <3> QED BY <1>2, <1>3, <1>4, <1>5, <2>1, <2>2, <3>1
  <2>3. CASE deCpu' = deCpu /\ cpu' = cpu
    BY <1>5, <2>1, <2>3
  <2>4. CASE cpu' = [cpu EXCEPT ![c] = CPUEn("caida")]
    BY <1>2, <1>3, <2>4
  <2> QED BY <1>12, <2>2, <2>3, <2>4 DEF atenderInterrupcion
<1>13. CASE guardarInterrupcion(c)
  <2>1. /\ deCpu' = deCpu /\ posee' = posee /\ a # << >> /\ Head(a).tipo = "INTERRUPT" /\ aCpu'[c] = Tail(a)
    BY <1>13, RecibeTipo DEF guardarInterrupcion
  <2>2. cpu'[c].modo = e.modo /\ cpu'[c].sys = e.sys /\ cpu'[c].pid = e.pid /\ cpu'[c].arg = e.arg
    BY <1>0, <1>13 DEF guardarInterrupcion, EstadoCPU
  <2>3. HayBloqueado(Tail(a)) => HayBloqueado(a)
    <3> HIDE DEF a
    <3> QED BY <1>0, <1>1, <2>1, SocketRecibido
  <2>4. HayOK(Tail(a)) => HayOK(a)
    <3>1. \A j \in 1..Len(Tail(a)) : \E i \in 1..Len(a) : Tail(a)[j] = a[i]
      <4> HIDE DEF a
      <4> QED BY <1>0, <2>1, ElementosDeCola
    <3> HIDE DEF a
    <3> QED BY <3>1 DEF HayOK
  <2>5. \A s, p, m : (EnLlamada(c, s, p, m)' <=> EnLlamada(c, s, p, m)) /\ (SePide(c, s, p, m)' <=> SePide(c, s, p, m))
    BY <2>1, <2>2 DEF EnLlamada, SePide
  <2>6. Quieta(c)
    BY <1>a, <2>1, <2>3, <2>4, <2>5 DEF Quieta, SeBloquea, SeConcede
  <2> QED BY <2>1, <2>6 DEF DeLaCPU
<1>14. CASE recibirRespuesta(c)
  <2>1. /\ e.modo = "respuesta" /\ e.pid \in Procesos /\ DejaSyscall(c) /\ a # << >>
        /\ Head(a).tipo = "OK" \/ e.sys \in {"MEM_ALLOC", "INIT_PROC"}
        /\ posee' = [posee EXCEPT ![e.pid] = CASE e.sys = "MUTEX_LOCK" -> @ \cup {e.arg}
                                               [] e.sys = "MUTEX_UNLOCK" -> @ \ {e.arg}
                                               [] OTHER -> @]
    BY <1>0, <1>14, RecibeTipo DEF recibirRespuesta, AceptaCualquiera
  <2>2. cpu'[c].modo # "respuesta"
    <3>1. CASE cpu' = [cpu EXCEPT ![c] = [CPUEn("ejecuta") EXCEPT !.pid = e.pid]]
      BY <1>2, <1>3, <3>1
    <3>2. CASE cpu' = [cpu EXCEPT ![c] = CPUEn("espera")]
      BY <1>2, <1>3, <3>2
    <3> QED BY <2>1, <3>1, <3>2 DEF DejaSyscall
  <2>3. \/ deCpu'[c] = d
        \/ \E m \in MensajesDelCPU : deCpu'[c] = Append(d, m) /\ m.tipo \notin LockUnlock
    <3>1. CASE deCpu' # deCpu
      <4>1. PICK i \in e.pend : deCpu' = Pedido(c, "INTERRUPCION_ATENDIDA", i.arg)
        BY <2>1, <3>1 DEF DejaSyscall
      <4>2. i \in MensajesAlCPU /\ i.tipo = "INTERRUPT"
        BY <1>0
      <4>3. i.arg \in Args /\ "INTERRUPCION_ATENDIDA" \notin DeMutex
        BY <4>2 DEF MensajesAlCPU, Args, DeMutex
      <4> QED BY <1>4, <2>1, <4>1, <4>3
    <3> QED BY <3>1
  <2>4. CASE e.sys \notin LockUnlock
    <3>1. posee' = posee
      BY <1>0, <2>1, <2>4 DEF LockUnlock
    <3> QED BY <1>5, <2>2, <2>3, <2>4, <3>1
  <2>5. CASE e.sys \in LockUnlock
    <3>1. Head(a).tipo = "OK" /\ e.arg \in Mutexes
      BY <1>0, <2>1, <2>5 DEF LockUnlock, DeMutex
    <3>2. HayOK(a) /\ HayResp(a)
      <4>1. 1 \in 1..Len(a) /\ Head(a) = a[1]
        <5> HIDE DEF a
        <5> QED BY <1>0, <2>1, HeadTailProperties, LenProperties, EmptySeq
      <4> QED BY <3>1, <4>1 DEF HayOK, HayResp, Resp
    <3>3. SinLlamada(c)'
      BY <2>2, <2>3, <3>2, LlamadaAcabada
    <3>4. Unica(c, e.sys, e.pid, e.arg) /\ EnLlamada(c, e.sys, e.pid, e.arg)
      BY <2>1 DEF Unica, EnLlamada
    <3>5. CASE e.sys = "MUTEX_LOCK"
      <4>1. Toma(e.pid, e.arg)
        BY <1>0, <2>1, <3>1, <3>5 DEF Toma
      <4>2. SeConcede(c, e.pid, e.arg)
        BY <3>2, <3>4, <3>5 DEF SeConcede
      <4>3. LeeRespuesta(c)
        BY <2>1, <3>1, <3>3, <3>4, <3>5, <4>1, <4>2 DEF LeeRespuesta
      <4> QED BY <4>3 DEF DeLaCPU
    <3>6. CASE e.sys = "MUTEX_UNLOCK"
      <4>1. Suelta(e.pid, e.arg)
        BY <1>0, <2>1, <3>1, <3>6 DEF Suelta
      <4>2. LeeRespuesta(c)
        BY <2>1, <3>1, <3>2, <3>3, <3>4, <3>6, <4>1 DEF LeeRespuesta
      <4> QED BY <4>2 DEF DeLaCPU
    <3> QED BY <2>5, <3>5, <3>6 DEF LockUnlock
  <2> QED BY <2>4, <2>5
<1>15. CASE recibirBloqueado(c)
  <2>1. /\ e.modo = "respuesta" /\ e.sys = "MUTEX_LOCK" /\ a # << >> /\ Head(a).tipo = "BLOQUEADO"
        /\ posee' = [posee EXCEPT ![e.pid] = @ \cup {e.arg}] /\ deCpu' = deCpu
        /\ cpu' = [cpu EXCEPT ![c] = CPUEn("espera")]
    BY <1>15, RecibeTipo DEF recibirBloqueado
  <2>2. e.pid \in Procesos /\ e.arg \in Mutexes
    BY <1>0, <2>1 DEF DeMutex
  <2>3. HayBloqueado(a) /\ HayResp(a)
    <3>1. 1 \in 1..Len(a) /\ Head(a) = a[1]
      <4> HIDE DEF a
      <4> QED BY <1>0, <2>1, HeadTailProperties, LenProperties, EmptySeq
    <3> QED BY <2>1, <3>1 DEF HayBloqueado, HayResp, Resp
  <2>4. cpu'[c].modo # "respuesta"
    BY <1>2, <1>3, <2>1
  <2>5. SinLlamada(c)'
    BY <2>1, <2>3, <2>4, LlamadaAcabada
  <2>6. Unica(c, "MUTEX_LOCK", e.pid, e.arg) /\ SeBloquea(c, e.pid, e.arg)
    BY <2>1, <2>3 DEF Unica, SeBloquea, EnLlamada
  <2>7. Toma(e.pid, e.arg)
    BY <1>0, <2>1, <2>2 DEF Toma
  <2>8. LeeRespuesta(c)
    BY <2>2, <2>5, <2>6, <2>7 DEF LeeRespuesta
  <2> QED BY <2>8 DEF DeLaCPU
<1>16. CASE respuestaInesperada(c)
  <2>1. cpu' = [cpu EXCEPT ![c] = CPUEn("caida")]
    BY <1>16 DEF respuestaInesperada
  <2> QED BY <1>2, <1>3, <2>1
<1> QED BY <1>6, <1>7, <1>8, <1>9, <1>10, <1>11, <1>12, <1>13, <1>14, <1>15, <1>16 DEF ModuloCPU

\* The handler is in the middle of the request that compacts the memory.
EsperaAKM(h) == h.pc \in {"confirmaciones", "compactando"}

\* The handlers that are inside a compaction have a CPU that waits for MEM_ALLOC.
CompactanPorMemAlloc ==
  \A c \in CPUs : EsperaAKM(manejador[c]) /\ cpu[c].modo = "respuesta" => cpu[c].sys = "MEM_ALLOC"

\* The CPU c waits for no answer to a MUTEX_LOCK.
EnOtraCosa(c) == cpu[c].modo = "respuesta" => cpu[c].sys # "MUTEX_LOCK"
SinNuevoOK(canal, nuevo) == \A c \in CPUs : HayOK(nuevo[c]) => HayOK(canal[c])

\* Only an OK that is sent adds an OK, to the CPU it is sent to.
LEMMA EnviadoSinOK ==
  ASSUME NEW canal \in Canales, NEW c, NEW m \in MensajesAlCPU
  PROVE  \A d \in CPUs : d # c \/ m.tipo # "OK" => (HayOK(Enviado(canal, c, m)[d]) => HayOK(canal[d]))
<1> DEFINE b == Enviado(canal, c, m)
<1>1. \A d \in CPUs : b[d] = canal[d] \/ (d = c /\ b[d] = Append(canal[d], m))
  BY EnviadoTipo
<1> HIDE DEF b
<1>2. ASSUME NEW d \in CPUs, d # c \/ m.tipo # "OK", HayOK(b[d])
      PROVE  HayOK(canal[d])
  <2> DEFINE a == canal[d]
             s == Append(a, m)
  <2>1. a \in Seq(MensajesAlCPU)
    BY DEF Canales
  <2>2. \A j \in 1..Len(s) : s[j] = m \/ \E i \in 1..Len(a) : s[j] = a[i]
    <3> HIDE DEF a
    <3> QED BY <2>1, ElementosAgregados
  <2> HIDE DEF s
  <2>3. CASE m.tipo # "OK" /\ b[d] = s
    <3>1. PICK j \in 1..Len(s) : s[j].tipo = "OK"
      BY <1>2, <2>3 DEF HayOK
    <3> QED BY <2>2, <2>3, <3>1 DEF HayOK
  <2>4. b[d] = a \/ (d = c /\ b[d] = s)
    BY <1>1 DEF s
  <2> QED BY <1>2, <2>3, <2>4
<1> QED BY <1>2 DEF b

\* The interrupts add none.
LEMMA InterrumpidoSinOK ==
  ASSUME NEW canal \in Canales, NEW nuevo \in Canales, SoloInterrumpe(canal, nuevo)
  PROVE  SinNuevoOK(canal, nuevo)
<1>1. ASSUME NEW c \in CPUs, HayOK(nuevo[c])
      PROVE  HayOK(canal[c])
  <2> DEFINE a == canal[c]
             b == nuevo[c]
  <2>1. /\ Len(a) \in Nat /\ Len(b) \in Nat /\ Len(b) >= Len(a)
        /\ \A i \in 1..Len(a) : b[i] = a[i]
        /\ \A i \in (Len(a) + 1)..Len(b) : b[i] \in Interrupciones
    BY LenProperties DEF Canales, SoloInterrumpe
  <2>0. HayOK(b)
    BY <1>1
  <2> HIDE DEF a, b
  <2>2. \A i \in 1..Len(b) : (i \in 1..Len(a) /\ b[i] = a[i]) \/ b[i].tipo = "INTERRUPT"
    BY <2>1 DEF Interrupciones
  <2>3. HayOK(a)
    BY <2>0, <2>2 DEF HayOK
  <2> QED BY <2>3 DEF a
<1> QED BY <1>1 DEF SinNuevoOK

\* What a CPU that made a call waits for is that call, until it is attended.
LEMMA LlamadaAtendida ==
  ASSUME Bien, TurnoCPU, NEW c \in CPUs, NEW tipo, Atiende(c, tipo), cpu[c].modo = "respuesta"
  PROVE  /\ cpu[c].sys = tipo /\ cpu[c].pid = Head(deCpu[c]).pid /\ cpu[c].arg = Head(deCpu[c]).arg
         /\ Tail(deCpu[c]) = << >>
<1> DEFINE d == deCpu[c]
           k == cpu[c]
           x == Msj(k.sys, k.pid, k.arg)
<1>1. Turno(Contains(cpusLibres, c), corto.c = c, aCpu[c], d, k, manejador[c])
  BY DEF TurnoCPU, TurnoDe
<1>2. d # << >> /\ Head(d).tipo = tipo /\ k.modo = "respuesta"
  BY DEF Atiende
<1>3. d = << x >>
  <2> HIDE DEF d, k
  <2> QED BY <1>1, <1>2 DEF Turno, x
<1>4. x.tipo = k.sys /\ x.pid = k.pid /\ x.arg = k.arg
  BY DEF Msj
<1>5. Head(d) = x /\ Tail(d) = << >>
  <2> HIDE DEF d, x
  <2> QED BY <1>3
<1> QED BY <1>2, <1>4, <1>5

\* The scheduler gives a mutex by its answer only in mutex_lock.
LEMMA PasoOK ==
  ASSUME Bien, TurnoCPU, FdDeLocks, CompactanPorMemAlloc, [Next]_vars, NEW c \in CPUs
  PROVE  \/ ModuloCPU(c) \/ caer(c) \/ (HayOK(aCpu'[c]) => HayOK(aCpu[c]))
         \/ EnOtraCosa(c) \/ mutex_lock_libre(c)
<1>0. t \in Tabla /\ aCpu \in Canales /\ FormaManejador /\ FormaCorto /\ 1 \in Motivos /\ 2 \in Motivos
  BY DEF Bien, TypeOK, Canales, Formas, Motivos
<1>1. \A tipo \in Resp : Respuesta(tipo) \in MensajesAlCPU /\ Respuesta(tipo).tipo = tipo
  BY DEF Respuesta, Msj, MensajesAlCPU, Resp
<1>2. ASSUME NEW x, NEW tipo \in {"OK", "ERROR"}, Responde(x, tipo), x # c \/ tipo # "OK"
      PROVE  HayOK(aCpu'[c]) => HayOK(aCpu[c])
  BY <1>0, <1>1, <1>2, EnviadoSinOK DEF Responde, Resp
<1>3. aCpu' = aCpu => (HayOK(aCpu'[c]) => HayOK(aCpu[c]))
  OBVIOUS
<1>4. ASSUME NEW p \in Procesos, PasarAReady(aCpu, p)
      PROVE  HayOK(aCpu'[c]) => HayOK(aCpu[c])
  BY <1>0, <1>4, PasarAReadyTipo, InterrumpidoSinOK DEF SinNuevoOK
<1>5. CASE UNCHANGED vars
  BY <1>3, <1>5 DEF vars
<1>6. CASE planificadorLargoPlazo
  <2> DEFINE s == t.listas["NEW"]
             q == Head(s)
  <2>1. s \in Seq(Procesos) /\ s # << >> /\ PasarAReady(aCpu, q)
    BY <1>0, <1>6 DEF planificadorLargoPlazo, Tabla, ConLista
  <2>2. q \in Procesos
    <3> HIDE DEF s
    <3> QED BY <2>1, HeadTailProperties
  <2> HIDE DEF q
  <2> QED BY <1>4, <2>1, <2>2
<1>7. CASE Corto
  <2>1. CASE cortoEnvia
    <3> DEFINE m == PidEnviado(corto.p)
    <3>1. corto.p \in Procesos /\ aCpu' = Enviado(aCpu, corto.c, m)
      BY <1>0, <2>1 DEF cortoEnvia, FormaCorto
    <3>2. m \in MensajesAlCPU /\ m.tipo # "OK"
      BY <3>1 DEF PidEnviado, Msj, MensajesAlCPU
    <3> HIDE DEF m
    <3> QED BY <1>0, <3>1, <3>2, EnviadoSinOK
  <2>2. CASE cortoEsperaCompactacion \/ cortoSelecciona \/ cortoDevuelve \/ cortoEjecuta
    BY <1>3, <2>2 DEF cortoEsperaCompactacion, cortoSelecciona, cortoDevuelve, cortoEjecuta
  <2> QED BY <1>7, <2>1, <2>2 DEF Corto
<1>8. ASSUME NEW p \in Procesos, NEW x \in CPUs, Timer(p, x)
      PROVE  HayOK(aCpu'[c]) => HayOK(aCpu[c])
  <2>1. CASE venceQuantum(p, x)
    BY <1>3, <2>1 DEF venceQuantum
  <2>2. CASE interrumpeQuantum(p, x)
    <3> DEFINE m == Interrupcion(p, 0)
    <3>1. aCpu' = Enviado(aCpu, x, m)
      BY <2>2 DEF interrumpeQuantum
    <3>2. m \in MensajesAlCPU /\ m.tipo # "OK"
      BY DEF Interrupcion, Msj, MensajesAlCPU, Motivos
    <3> HIDE DEF m
    <3> QED BY <1>0, <3>1, <3>2, EnviadoSinOK
  <2> QED BY <1>8, <2>1, <2>2 DEF Timer
<1>9. ASSUME NEW p \in Procesos, HiloIO(p)
      PROVE  HayOK(aCpu'[c]) => HayOK(aCpu[c])
  BY <1>3, <1>4, <1>9 DEF HiloIO, hiloBloquea, hiloDesbloquea
<1>10. ASSUME NEW x \in CPUs, Manejador(x)
       PROVE  (HayOK(aCpu'[c]) => HayOK(aCpu[c])) \/ EnOtraCosa(c) \/ mutex_lock_libre(c)
  <2>1. CASE volverAReady(x) \/ despertarSiguiente(x)
    <3>1. manejador[x].pid \in Procesos /\ PasarAReady(aCpu, manejador[x].pid)
      BY <1>0, <2>1 DEF volverAReady, despertarSiguiente, FormaManejador
    <3> QED BY <1>4, <3>1
  <2>2. CASE mutex_lock_ocupado(x)
    <3> DEFINE m == Head(deCpu[x])
               duenio == tomador[m.arg]
               ps == desalojadosPorPrioridad(t, duenio, t.prioridad[m.pid])
               n == Interrumpidas(aCpu, t', ps, 1)
    <3>1. aCpu' = aCpu \/ aCpu' = n
      BY <2>2 DEF mutex_lock_ocupado
    <3>2. t' \in Tabla
      BY <2>2, LockOcupadoEfecto
    <3>3. n \in Canales /\ SoloInterrumpe(aCpu, n)
      <4> HIDE DEF ps
      <4> QED BY <1>0, <3>2, InterrumpidasTipo
    <3> HIDE DEF n
    <3> QED BY <1>0, <3>1, <3>3, InterrumpidoSinOK DEF SinNuevoOK
  <2>12. CASE avisarBloqueado(x)
    <3> DEFINE r == Respuesta("BLOQUEADO")
    <3>1. aCpu' = Enviado(aCpu, t.fdCpu[manejador[x].pid], r)
      BY <2>12 DEF avisarBloqueado, Responde
    <3>2. r \in MensajesAlCPU /\ r.tipo # "OK"
      BY <1>1 DEF Resp
    <3> HIDE DEF r
    <3> QED BY <1>0, <3>1, <3>2, EnviadoSinOK
  <2>3. CASE mutex_unlock(x)
    <3> DEFINE p == Head(deCpu[x]).pid
               r == Respuesta("OK")
               con == Enviado(aCpu, x, r)
               ps == desalojadosPorPrioridad(t, p, PrioridadAlSoltar(p))
               n == Interrumpidas(con, t', ps, 1)
    <3>1. aCpu' = n /\ Atiende(x, "MUTEX_UNLOCK")
      BY <2>3 DEF mutex_unlock
    <3>2. t' \in Tabla
      BY <2>3, UnlockEfecto
    <3>3. r \in MensajesAlCPU
      BY <1>1 DEF Resp
    <3>4. con \in Canales
      BY <1>0, <3>3, EnviadoTipo
    <3>5. n \in Canales /\ SoloInterrumpe(con, n)
      <4> HIDE DEF con, ps
      <4> QED BY <1>0, <3>2, <3>4, InterrumpidasTipo
    <3>6. CASE x = c
      BY <3>1, <3>6, LlamadaAtendida DEF EnOtraCosa
    <3>7. CASE x # c
      <4>1. HayOK(con[c]) => HayOK(aCpu[c])
        BY <1>0, <3>3, <3>7, EnviadoSinOK
      <4> HIDE DEF con, n
      <4> QED BY <3>1, <3>4, <3>5, <4>1, InterrumpidoSinOK DEF SinNuevoOK
    <3> QED BY <3>6, <3>7
  <2>4. CASE desconectar(x) \/ manejar_solicitud_desalojo(x)
    <3>1. PICK u \in Tabla, motivo \in Motivos : \E ps : aCpu' = Interrumpidas(aCpu, u, ps, motivo)
      <4>1. CASE desconectar(x)
        <5>1. t' \in Tabla
          BY <1>0, <4>1, recuperarTipo DEF desconectar
        <5> QED BY <1>0, <4>1, <5>1 DEF desconectar
      <4>2. CASE manejar_solicitud_desalojo(x)
        BY <1>0, <4>2 DEF manejar_solicitud_desalojo
      <4> QED BY <2>4, <4>1, <4>2
    <3>2. PICK ps : aCpu' = Interrumpidas(aCpu, u, ps, motivo)
      BY <3>1
    <3>3. Interrumpidas(aCpu, u, ps, motivo) \in Canales /\ SoloInterrumpe(aCpu, Interrumpidas(aCpu, u, ps, motivo))
      BY <1>0, InterrumpidasTipo
    <3> QED BY <1>0, <3>2, <3>3, InterrumpidoSinOK DEF SinNuevoOK
\* An answer to c itself is the one it waits for.
  <2>5. ASSUME NEW tipo, Atiende(x, tipo), tipo # "MUTEX_LOCK", \E r \in {"OK", "ERROR"} : Responde(x, r)
        PROVE  (HayOK(aCpu'[c]) => HayOK(aCpu[c])) \/ EnOtraCosa(c)
    <3>1. CASE x = c
      BY <2>5, <3>1, LlamadaAtendida DEF EnOtraCosa
    <3>2. CASE x # c
      BY <1>2, <2>5, <3>2
    <3> QED BY <3>1, <3>2
  <2>6. CASE atenderSegFault(x) \/ mutex_create(x) \/ mutex_unlock_ajeno(x)
    BY <2>5, <2>6 DEF atenderSegFault, mutex_create, mutex_unlock_ajeno
  <2>7. CASE crear_proceso(x) \/ km_mem_alloc(x)
    BY <2>5, <2>7 DEF crear_proceso, km_mem_alloc
  <2>8. CASE finCompactacion(x)
    <3>1. PICK r \in {"OK", "ERROR"} : Responde(x, r)
      BY <2>8 DEF finCompactacion
    <3>2. CASE x = c
      BY <2>8, <3>2 DEF finCompactacion, CompactanPorMemAlloc, EsperaAKM, EnOtraCosa
    <3> QED BY <1>2, <3>1, <3>2
  <2>9. CASE mutex_lock_no_existe(x)
    BY <1>2, <2>9 DEF mutex_lock_no_existe
  <2>10. CASE mutex_lock_libre(x)
    <3> DEFINE m == Head(deCpu[x])
    <3>1. t.fdCpu[m.pid] = x
      <4>1. deCpu[x] \in Seq(MensajesDelCPU) /\ deCpu[x] # << >> /\ m.tipo = "MUTEX_LOCK"
        BY <2>10 DEF Bien, TypeOK, mutex_lock_libre, Atiende
      <4>2. 1 \in 1..Len(deCpu[x]) /\ m = deCpu[x][1]
        BY <4>1, HeadTailProperties, LenProperties, EmptySeq
      <4> QED BY <4>1, <4>2 DEF FdDeLocks
    <3>2. Responde(x, "OK")
      BY <2>10, <3>1 DEF mutex_lock_libre
    <3> QED BY <1>2, <2>10, <3>2
  <2>11. CASE \/ conectar(x) \/ atenderDone(x) \/ atenderInterrupcionAtendida(x) \/ volverAlFrente(x)
              \/ bloquearPorMutex(x) \/ atenderSleep(x) \/ esperarConfirmaciones(x)
    BY <1>3, <2>11 DEF conectar, atenderDone, atenderInterrupcionAtendida, volverAlFrente,
       bloquearPorMutex, atenderSleep, esperarConfirmaciones
  <2> QED BY <1>10, <2>1, <2>2, <2>3, <2>4, <2>6, <2>7, <2>8, <2>9, <2>10, <2>11, <2>12 DEF Manejador
<1>11. ASSUME NEW x \in CPUs, ModuloCPU(x) \/ caer(x), x # c
       PROVE  HayOK(aCpu'[c]) => HayOK(aCpu[c])
  BY <1>11, ModuloSolo
<1> QED BY <1>5, <1>6, <1>7, <1>8, <1>9, <1>10, <1>11 DEF Next


\* One handler attends at a time.
LEMMA UnSoloAtiende ==
  ASSUME Bien, NEW c \in CPUs, NEW d \in CPUs, NEW tipo, NEW otro, Atiende(c, tipo), Atiende(d, otro)
  PROVE  c = d
<1> SUFFICES ASSUME c # d
             PROVE  FALSE
  OBVIOUS
<1> DEFINE s == deCpu[d]
<1>1. s \in Seq(MensajesDelCPU) /\ s # << >> /\ deCpu'[d] = s /\ deCpu'[d] = Tail(s)
  BY DEF Bien, TypeOK, Atiende
<1> HIDE DEF s
<1>2. Len(s) \in Nat /\ Len(Tail(s)) = Len(s) - 1
  BY <1>1, HeadTailProperties, LenProperties
<1> QED BY <1>1, <1>2

\* What the programs hold changes in the steps of the CPUs.
LEMMA MarcoPosee ==
  ASSUME [Next]_vars, \A c \in CPUs : ~ModuloCPU(c)
  PROVE  posee' = posee
<1>1. CASE UNCHANGED vars
  BY <1>1 DEF vars, enCPU
<1>2. CASE planificadorLargoPlazo \/ \E p \in Procesos, x \in CPUs : Timer(p, x)
  BY <1>2 DEF enCPU, planificadorLargoPlazo, Timer, venceQuantum, interrumpeQuantum
<1>3. CASE Corto
  BY <1>3 DEF enCPU, Corto, cortoEsperaCompactacion, cortoSelecciona, cortoDevuelve, cortoEjecuta, cortoEnvia
<1>4. CASE \E p \in Procesos : HiloIO(p)
  BY <1>4 DEF enCPU, HiloIO, hiloBloquea, hiloDesbloquea
<1>5. CASE \E c \in CPUs : caer(c)
  BY <1>5 DEF caer
<1>6. ASSUME NEW x \in CPUs, Manejador(x)
      PROVE  posee' = posee
  <2>1. CASE conectar(x) \/ desconectar(x) \/ atenderDone(x) \/ atenderSegFault(x)
             \/ atenderInterrupcionAtendida(x) \/ volverAReady(x) \/ volverAlFrente(x)
    BY <2>1 DEF conectar, desconectar, atenderDone, atenderSegFault, enCPU,
       atenderInterrupcionAtendida, volverAReady, volverAlFrente
  <2>2. CASE mutex_create(x) \/ mutex_lock_no_existe(x) \/ mutex_lock_libre(x) \/ mutex_lock_ocupado(x)
             \/ avisarBloqueado(x) \/ bloquearPorMutex(x) \/ mutex_unlock_ajeno(x) \/ mutex_unlock(x)
             \/ despertarSiguiente(x)
    BY <2>2 DEF mutex_create, mutex_lock_no_existe, mutex_lock_libre, mutex_lock_ocupado, enCPU,
       avisarBloqueado, bloquearPorMutex, mutex_unlock_ajeno, mutex_unlock, despertarSiguiente
  <2>3. CASE \/ atenderSleep(x) \/ crear_proceso(x) \/ km_mem_alloc(x)
             \/ manejar_solicitud_desalojo(x) \/ esperarConfirmaciones(x) \/ finCompactacion(x)
    BY <2>3 DEF atenderSleep, crear_proceso, km_mem_alloc, manejar_solicitud_desalojo,
       esperarConfirmaciones, finCompactacion, enCPU
  <2> QED BY <1>6, <2>1, <2>2, <2>3 DEF Manejador
<1> QED BY <1>1, <1>2, <1>3, <1>4, <1>5, <1>6 DEF Next

\* What the scheduler does with the calls of c.
LEMMA ManejadorMutex ==
  ASSUME Bien, TurnoCPU, FdDeLocks, CompactanPorMemAlloc, [Next]_vars, NEW c \in CPUs,
         ~ModuloCPU(c), ~caer(c)
  PROVE  /\ \A s \in LockUnlock, p \in Procesos, m \in Mutexes :
              /\ EnLlamada(c, s, p, m)' <=> EnLlamada(c, s, p, m)
              /\ SePide(c, s, p, m)' => SePide(c, s, p, m)
         /\ \A p \in Procesos, m \in Mutexes :
              /\ SeBloquea(c, p, m)' => SeBloquea(c, p, m) \/ mutex_lock_ocupado(c)
              /\ SeConcede(c, p, m)' => SeConcede(c, p, m) \/ mutex_lock_libre(c)
<1> DEFINE d == deCpu[c]
           k == cpu[c]
<1>0. /\ d \in Seq(MensajesDelCPU)
      /\ Turno(Contains(cpusLibres, c), corto.c = c, aCpu[c], d, k, manejador[c])
  BY DEF Bien, TypeOK, TurnoCPU, TurnoDe
<1>1. MarcoDe(c)
  BY MarcoDeCPU
<1>2. \A s, p, m : EnLlamada(c, s, p, m)' <=> EnLlamada(c, s, p, m)
  <2>1. CASE cpu'[c] = cpu[c]
    BY <2>1 DEF EnLlamada
  <2>2. CASE conectar(c) /\ cpu'[c] = CPUEn("espera")
    <3>1. k.modo = "desconectada"
      <4>1. manejador[c].pc = "desconectado"
        BY <2>2 DEF conectar
      <4> HIDE DEF d, k
      <4> QED BY <1>0, <4>1 DEF Turno
    <3>2. cpu'[c].modo = "espera"
      BY <2>2 DEF CPUEn
    <3> QED BY <3>1, <3>2 DEF EnLlamada
  <2> QED BY <1>1, <2>1, <2>2 DEF MarcoDe
<1>3. \A s, p, m : SePide(c, s, p, m)' => SePide(c, s, p, m)
  <2>1. CASE deCpu'[c] = d
    BY <2>1 DEF SePide
  <2>2. CASE d # << >> /\ deCpu'[c] = Tail(d)
    <3>1. \A j \in 1..Len(Tail(d)) : \E i \in 1..Len(d) : Tail(d)[j] = d[i]
      <4> HIDE DEF d
      <4> QED BY <1>0, <2>2, ElementosDeCola
    <3> QED BY <2>2, <3>1 DEF SePide
  <2> QED BY <1>1, <2>1, <2>2 DEF MarcoDe
<1>4. \/ mutex_lock_ocupado(c)
      \/ /\ HayBloqueado(aCpu'[c]) => HayBloqueado(aCpu[c]) \/ manejador[c].pc = "avisar"
         /\ manejador'[c].pc = "avisar" => manejador[c].pc = "avisar"
  <2>1. HayBloqueado(aCpu'[c]) => HayBloqueado(aCpu[c]) \/ avisarBloqueado(c)
    BY PasoContinua DEF Continua
  <2>2. avisarBloqueado(c) => manejador[c].pc = "avisar"
    BY DEF avisarBloqueado
  <2>3. manejador'[c].pc = "avisar" => manejador[c].pc = "avisar" \/ mutex_lock_ocupado(c)
    BY MarcoDelManejador DEF ManejadorDe, ManejadorLibre
  <2> QED BY <2>1, <2>2, <2>3
<1>5. \A p, m : SeBloquea(c, p, m)' => SeBloquea(c, p, m) \/ mutex_lock_ocupado(c)
  BY <1>2, <1>4 DEF SeBloquea
<1>6. (HayOK(aCpu'[c]) => HayOK(aCpu[c])) \/ EnOtraCosa(c) \/ mutex_lock_libre(c)
  BY PasoOK
<1>7. EnOtraCosa(c) => \A p, m : ~EnLlamada(c, "MUTEX_LOCK", p, m)
  BY DEF EnOtraCosa, EnLlamada
<1>8. \A p, m : SeConcede(c, p, m)' => SeConcede(c, p, m) \/ mutex_lock_libre(c)
  BY <1>2, <1>6, <1>7 DEF SeConcede
<1> QED BY <1>2, <1>3, <1>5, <1>8

\* A CPU that waits for an answer has just called, or waits for the same as before.
LEMMA ModuloSigueLlamando ==
  ASSUME Bien, NEW c \in CPUs, ModuloCPU(c), cpu'[c].modo = "respuesta"
  PROVE  cpu[c].modo = "ejecuta" \/ (cpu[c].modo = "respuesta" /\ cpu'[c].sys = cpu[c].sys)
<1> DEFINE e == cpu[c]
<1>0. e \in EstadoCPU /\ cpu \in [CPUs -> EstadoCPU]
  BY DEF Bien, TypeOK, EstadoCPU
<1>1. ASSUME NEW k2, cpu' = [cpu EXCEPT ![c] = k2]
      PROVE  cpu'[c] = k2
  BY <1>0, <1>1
<1>2. /\ CPUEn("espera").modo = "espera" /\ CPUEn("caida").modo = "caida"
      /\ \A q : [CPUEn("ejecuta") EXCEPT !.pid = q].modo = "ejecuta"
  BY DEF CPUEn
<1>3. CASE esperarPid(c)
  <2>1. CASE cpu' = cpu
    BY <2>1
  <2>2. ASSUME NEW q, cpu' = [cpu EXCEPT ![c] = [CPUEn("ejecuta") EXCEPT !.pid = q]]
        PROVE  FALSE
    BY <1>1, <1>2, <2>2
  <2> QED BY <1>3, <2>1, <2>2 DEF esperarPid
<1>4. CASE syscallConRespuesta(c) \/ syscallBloqueante(c) \/ syscallExit(c) \/ manejarSegFault(c)
  <2>1. syscallConRespuesta(c) => cpu[c].modo = "ejecuta"
    BY Zenon DEF syscallConRespuesta
  <2>2. syscallBloqueante(c) \/ syscallExit(c) \/ manejarSegFault(c) => cpu[c].modo = "ejecuta"
    BY Zenon DEF syscallBloqueante, syscallExit, manejarSegFault
  <2> QED BY <1>4, <2>1, <2>2
<1>5. CASE confirmarSegFault(c) \/ recibirBloqueado(c)
  <2>1. cpu' = [cpu EXCEPT ![c] = CPUEn("espera")]
    BY <1>5 DEF confirmarSegFault, recibirBloqueado
  <2> QED BY <1>1, <1>2, <2>1
<1>6. CASE atenderInterrupcion(c)
  <2>1. CASE cpu' = cpu
    BY <2>1
  <2>2. CASE cpu' = [cpu EXCEPT ![c] = CPUEn("espera")] \/ cpu' = [cpu EXCEPT ![c] = CPUEn("caida")]
    BY <1>1, <1>2, <2>2
  <2> QED BY <1>6, <2>1, <2>2 DEF atenderInterrupcion
<1>7. CASE guardarInterrupcion(c)
  BY <1>0, <1>7 DEF guardarInterrupcion, EstadoCPU
<1>8. CASE recibirRespuesta(c)
  <2>1. CASE cpu' = [cpu EXCEPT ![c] = [CPUEn("ejecuta") EXCEPT !.pid = e.pid]]
    BY <1>1, <1>2, <2>1
  <2>2. CASE cpu' = [cpu EXCEPT ![c] = CPUEn("espera")]
    BY <1>1, <1>2, <2>2
  <2> QED BY <1>8, <2>1, <2>2 DEF recibirRespuesta, DejaSyscall
<1>9. CASE respuestaInesperada(c)
  <2>1. cpu' = [cpu EXCEPT ![c] = CPUEn("caida")]
    BY <1>9 DEF respuestaInesperada
  <2> QED BY <1>1, <1>2, <2>1
<1> QED BY <1>3, <1>4, <1>5, <1>6, <1>7, <1>8, <1>9 DEF ModuloCPU

\* A module that ends answers no more.
LEMMA CaidaTermina ==
  ASSUME Bien, NEW c \in CPUs, caer(c)
  PROVE  cpu'[c].modo = "caida"
<1>1. cpu \in [CPUs -> EstadoCPU] /\ cpu' = [cpu EXCEPT ![c] = CPUEn("caida")]
  BY DEF Bien, TypeOK, EstadoCPU, caer
<1>2. CPUEn("caida").modo = "caida"
  BY DEF CPUEn
<1>3. cpu'[c] = CPUEn("caida")
  BY <1>1
<1> QED BY <1>2, <1>3

\* A compaction is the business of a CPU that allocates, every step.
LEMMA PasoCompactan ==
  ASSUME Bien, TurnoCPU, CompactanPorMemAlloc, [Next]_vars
  PROVE  CompactanPorMemAlloc'
<1> SUFFICES ASSUME NEW c \in CPUs, EsperaAKM(manejador'[c]), cpu'[c].modo = "respuesta"
             PROVE  cpu'[c].sys = "MEM_ALLOC"
  BY DEF CompactanPorMemAlloc
<1> DEFINE h == manejador[c]
           k == cpu[c]
<1>0. Turno(Contains(cpusLibres, c), corto.c = c, aCpu[c], deCpu[c], k, h)
  BY DEF TurnoCPU, TurnoDe
<1>1. k.modo = "ejecuta" => ~EsperaAKM(h)
  <2> HIDE DEF h, k
  <2> QED BY <1>0 DEF Turno, Quieto, Atendiendo, EsperaAKM
<1>2. CASE caer(c)
  BY <1>2, CaidaTermina
<1>3. CASE ModuloCPU(c)
  <2>1. EsperaAKM(h)
    BY <1>3, ModuloSolo
  <2>2. k.modo = "respuesta" /\ cpu'[c].sys = k.sys
    BY <1>1, <1>3, <2>1, ModuloSigueLlamando
  <2> QED BY <2>1, <2>2 DEF CompactanPorMemAlloc
<1>4. CASE ~ModuloCPU(c) /\ ~caer(c)
  <2>1. cpu'[c] = k
    <3>1. MarcoDe(c)
      BY <1>4, MarcoDeCPU
    <3>2. CPUEn("espera").modo # "respuesta"
      BY DEF CPUEn
    <3> QED BY <3>1, <3>2 DEF MarcoDe
  <2>2. CASE EsperaAKM(h)
    BY <2>1, <2>2 DEF CompactanPorMemAlloc
  <2>3. CASE ~EsperaAKM(h)
    <3>1. manejar_solicitud_desalojo(c)
      <4>1. ManejadorDe(c)
        BY MarcoDelManejador
      <4> QED BY <2>3, <4>1 DEF ManejadorDe, EsperaAKM, ManejadorLibre
    <3>2. Atiende(c, "MEM_ALLOC")
      BY <3>1 DEF manejar_solicitud_desalojo
    <3> QED BY <2>1, <3>2, LlamadaAtendida
  <2> QED BY <2>2, <2>3
<1> QED BY <1>2, <1>3, <1>4

\* A call on a mutex that is attended is the one its CPU waits for, and leaves nothing pending.
LEMMA MutexAtendido ==
  ASSUME Bien, TurnoCPU, CadaUnoEnSuSitio, LosPedidos, SinCaidas, NEW c \in CPUs, NEW tipo \in LockUnlock,
         Atiende(c, tipo)
  PROVE  LET P == Head(deCpu[c]).pid
             M == Head(deCpu[c]).arg
         IN
         /\ P \in Procesos /\ M \in Mutexes /\ SePide(c, tipo, P, M)
         /\ \A s \in LockUnlock, p \in Procesos, m \in Mutexes :
              /\ EnLlamada(c, s, p, m) => p = P /\ m = M
              /\ ~SePide(c, s, p, m)'
         /\ \A p \in Procesos, m \in Mutexes : ~SeBloquea(c, p, m) /\ ~SeConcede(c, p, m)
<1> DEFINE d == deCpu[c]
           P == Head(d).pid
           M == Head(d).arg
<1>1. tipo \in DeMutex
  BY DEF LockUnlock, DeMutex
<1>2. P \in Procesos /\ M \in Mutexes
  BY <1>1, AtiendeMutex
<1>3. d \in Seq(MensajesDelCPU) /\ d # << >> /\ Head(d).tipo = tipo /\ deCpu'[c] = Tail(d)
  BY DEF Bien, TypeOK, Atiende
<1>4. SePide(c, tipo, P, M)
  <2>1. 1 \in 1..Len(d) /\ Head(d) = d[1]
    <3> HIDE DEF d
    <3> QED BY <1>3, HeadTailProperties, LenProperties, EmptySeq
  <2> QED BY <1>3, <2>1 DEF SePide
<1>5. cpu[c].modo = "respuesta"
  BY <1>2, <1>4 DEF LosPedidos, EnLlamada, LockUnlock
<1>6. cpu[c].pid = P /\ cpu[c].arg = M /\ Tail(d) = << >>
  BY <1>5, LlamadaAtendida
<1>7. \A s, p, m : ~SePide(c, s, p, m)'
  <2>1. deCpu'[c] = << >>
    BY <1>3, <1>6
  <2> QED BY <2>1 DEF SePide
<1>8. \A p \in Procesos, m \in Mutexes : ~SeBloquea(c, p, m) /\ ~SeConcede(c, p, m)
  <2>1. Llamadas
    BY LugarDeLlamadas
  <2> QED BY <1>2, <1>4, <2>1 DEF Llamadas
<1> QED BY <1>2, <1>4, <1>6, <1>7, <1>8 DEF EnLlamada

\* Every step of the scheduler and of the programs keeps what they believe of the mutexes.
LEMMA PasoPosesiones ==
  ASSUME Bien, TurnoCPU, ColasSinRepetir, CadaUnoEnSuSitio, FdDeLocks, LibreSinEsperas, CompactanPorMemAlloc,
         SinCaidas, SinCaidas', ProgramasCorrectos, Posesiones, [Next]_vars
  PROVE  Posesiones'
<1>0. /\ Llamadas /\ EnUnaCPU /\ LosPedidos
      /\ tomador \in [Mutexes -> Procesos \cup {Nadie}] /\ cola \in [Mutexes -> Seq(Procesos)]
  BY LugarDeLlamadas DEF Posesiones, Bien, TypeOK
<1>1. \A c \in CPUs : ~caer(c)
  BY CaidaTermina DEF SinCaidas
<1>2. ASSUME NEW c \in CPUs, ModuloCPU(c)
      PROVE  Posesiones'
  <2>1. /\ cola' = cola /\ manejador' = manejador
        /\ \A x \in CPUs \ {c} : aCpu'[x] = aCpu[x] /\ deCpu'[x] = deCpu[x] /\ cpu'[x] = cpu[x]
    BY <1>2, ModuloSolo
  <2>2. tomador' = tomador
    <3>1. CASE esperarPid(c) \/ syscallConRespuesta(c) \/ syscallBloqueante(c) \/ syscallExit(c)
               \/ manejarSegFault(c) \/ confirmarSegFault(c)
      <4>1. syscallConRespuesta(c) \/ syscallBloqueante(c) => UNCHANGED enMutex
        BY Zenon DEF syscallConRespuesta, syscallBloqueante
      <4>2. esperarPid(c) \/ syscallExit(c) \/ manejarSegFault(c) \/ confirmarSegFault(c) => UNCHANGED enMutex
        BY Zenon DEF esperarPid, syscallExit, manejarSegFault, confirmarSegFault
      <4> QED BY <3>1, <4>1, <4>2 DEF enMutex
    <3>2. CASE atenderInterrupcion(c) \/ guardarInterrupcion(c) \/ recibirRespuesta(c)
               \/ recibirBloqueado(c) \/ respuestaInesperada(c)
      BY <3>2 DEF atenderInterrupcion, guardarInterrupcion, recibirRespuesta, recibirBloqueado,
         respuestaInesperada, enMutex
    <3> QED BY <1>2, <3>1, <3>2 DEF ModuloCPU
  <2>3. \A d \in CPUs \ {c} : Quieta(d)
    BY <2>1 DEF Quieta, EnLlamada, SePide, SeBloquea, SeConcede
  <2>4. DeLaCPU(c)
    BY <1>0, <1>2, ModuloMutex DEF SinCaidas
  <2>5. CASE Quieta(c) /\ posee' = posee
    BY <2>1, <2>2, <2>3, <2>5, SinNovedades
  <2>6. CASE HaceLlamada(c)
    BY <2>1, <2>2, <2>3, <2>6, TrasPedir DEF HaceLlamada
  <2>7. CASE LeeRespuesta(c)
    <3>1. PICK P \in Procesos, M \in Mutexes :
            /\ SinLlamada(c)'
            /\ \/ SeConcede(c, P, M) /\ Unica(c, "MUTEX_LOCK", P, M) /\ Toma(P, M)
               \/ SeBloquea(c, P, M) /\ Unica(c, "MUTEX_LOCK", P, M) /\ Toma(P, M)
               \/ /\ EnLlamada(c, "MUTEX_UNLOCK", P, M) /\ HayResp(aCpu[c])
                  /\ Unica(c, "MUTEX_UNLOCK", P, M) /\ Suelta(P, M)
      BY <2>7 DEF LeeRespuesta
    <3>2. CASE SeConcede(c, P, M) /\ Unica(c, "MUTEX_LOCK", P, M) /\ Toma(P, M)
      <4>1. EnLlamada(c, "MUTEX_LOCK", P, M)
        BY <3>2 DEF SeConcede
      <4> QED BY <1>0, <2>1, <2>2, <2>3, <3>1, <3>2, <4>1, TrasTomar DEF Unica, Toma
    <3>3. CASE SeBloquea(c, P, M) /\ Unica(c, "MUTEX_LOCK", P, M) /\ Toma(P, M)
      <4>1. \A d \in CPUs \ {c} : Quieta(d)
        BY <2>3
      <4>2. SinLlamada(c)' /\ tomador' = tomador /\ cola' = cola /\ SeBloquea(c, P, M)
        BY <2>1, <2>2, <3>1, <3>3
      <4>3. /\ \A s \in LockUnlock, p \in Procesos, m \in Mutexes : EnLlamada(c, s, p, m) => s = "MUTEX_LOCK"
            /\ \A p \in Procesos, m \in Mutexes : m \in posee'[p] <=> m \in posee[p] \/ (p = P /\ m = M)
        BY <3>3 DEF Unica, Toma
      <4> QED BY <1>0, <4>1, <4>2, <4>3, TrasBloquear
    <3>4. CASE EnLlamada(c, "MUTEX_UNLOCK", P, M) /\ Unica(c, "MUTEX_UNLOCK", P, M) /\ Suelta(P, M)
      BY <1>0, <2>1, <2>2, <2>3, <3>1, <3>4, TrasSoltar DEF Unica, Suelta
    <3> QED BY <3>1, <3>2, <3>3, <3>4
  <2> QED BY <2>4, <2>5, <2>6, <2>7 DEF DeLaCPU
<1>3. CASE \A c \in CPUs : ~ModuloCPU(c)
  <2>1. posee' = posee
    BY <1>3, MarcoPosee
  <2>2. ASSUME NEW c \in CPUs, ~mutex_lock_libre(c), ~mutex_lock_ocupado(c)
        PROVE  Quieta(c)
    BY <1>1, <1>3, <2>2, ManejadorMutex DEF Quieta
  <2>3. ASSUME NEW c \in CPUs, NEW tipo, Atiende(c, tipo)
        PROVE  /\ \A d \in CPUs \ {c} : Quieta(d)
               /\ tipo = "MUTEX_UNLOCK" => Quieta(c)
    <3>1. ASSUME NEW d \in CPUs, mutex_lock_libre(d) \/ mutex_lock_ocupado(d)
          PROVE  d = c /\ tipo = "MUTEX_LOCK"
      <4>1. Atiende(d, "MUTEX_LOCK")
        BY <3>1 DEF mutex_lock_libre, mutex_lock_ocupado
      <4>2. d = c
        BY <2>3, <4>1, UnSoloAtiende
      <4> QED BY <2>3, <4>1, <4>2 DEF Atiende
    <3> QED BY <2>2, <3>1
  <2>4. ASSUME NEW c \in CPUs, mutex_lock_libre(c)
        PROVE  Posesiones'
    <3> DEFINE P == Head(deCpu[c]).pid
               M == Head(deCpu[c]).arg
    <3>1. Atiende(c, "MUTEX_LOCK") /\ "MUTEX_LOCK" \in LockUnlock
      BY <2>4 DEF mutex_lock_libre, LockUnlock
    <3>2. /\ P \in Procesos /\ M \in Mutexes /\ SePide(c, "MUTEX_LOCK", P, M)
          /\ \A s \in LockUnlock, p \in Procesos, m \in Mutexes :
               /\ EnLlamada(c, s, p, m) => p = P /\ m = M
               /\ ~SePide(c, s, p, m)'
          /\ \A p \in Procesos, m \in Mutexes : ~SeBloquea(c, p, m) /\ ~SeConcede(c, p, m)
      BY <1>0, <3>1, MutexAtendido
    <3>3. tomador[M] = Nadie /\ tomador' = [tomador EXCEPT ![M] = P] /\ cola' = cola /\ ~mutex_lock_ocupado(c)
      BY <2>4 DEF mutex_lock_libre, mutex_lock_ocupado
    <3>4. /\ \A s \in LockUnlock, p \in Procesos, m \in Mutexes :
               EnLlamada(c, s, p, m)' <=> EnLlamada(c, s, p, m)
          /\ \A p \in Procesos, m \in Mutexes : SeBloquea(c, p, m)' => SeBloquea(c, p, m)
      BY <1>1, <1>3, <3>3, ManejadorMutex
    <3>5. \A d \in CPUs \ {c} : Quieta(d)
      BY <2>3, <3>1
    <3> HIDE DEF P, M
    <3>6. tomador'[M] = P /\ \A m \in Mutexes : m # M => tomador'[m] = tomador[m]
      BY <1>0, <3>2, <3>3
    <3>7. DejaDePedir(c, P, M)
      BY <3>2, <3>4 DEF DejaDePedir
    <3>8. \A p \in Procesos, m \in Mutexes : ~SeBloquea(c, p, m)'
      BY <3>2, <3>4
    <3>9. SePide(c, "MUTEX_LOCK", P, M) /\ P \in Procesos /\ M \in Mutexes /\ tomador[M] = Nadie /\ cola' = cola
      BY <3>2, <3>3
    <3> QED BY <1>0, <2>1, <3>5, <3>6, <3>7, <3>8, <3>9, TrasLockLibre
  <2>5. ASSUME NEW c \in CPUs, mutex_lock_ocupado(c)
        PROVE  Posesiones'
    <3> DEFINE P == Head(deCpu[c]).pid
               M == Head(deCpu[c]).arg
    <3>1. Atiende(c, "MUTEX_LOCK") /\ "MUTEX_LOCK" \in LockUnlock
      BY <2>5 DEF mutex_lock_ocupado, LockUnlock
    <3>2. /\ P \in Procesos /\ M \in Mutexes /\ SePide(c, "MUTEX_LOCK", P, M)
          /\ \A s \in LockUnlock, p \in Procesos, m \in Mutexes :
               /\ EnLlamada(c, s, p, m) => p = P /\ m = M
               /\ ~SePide(c, s, p, m)'
          /\ \A p \in Procesos, m \in Mutexes : ~SeBloquea(c, p, m) /\ ~SeConcede(c, p, m)
      BY <1>0, <3>1, MutexAtendido
    <3>3. tomador' = tomador /\ cola' = [cola EXCEPT ![M] = Append(cola[M], P)] /\ ~mutex_lock_libre(c)
      <4>1. cola' = [cola EXCEPT ![M] = Append(cola[M], P)]
        BY <2>5, LockOcupadoEfecto
      <4>2. tomador' = tomador /\ tomador[M] # Nadie
        BY <2>5 DEF mutex_lock_ocupado
      <4>3. mutex_lock_libre(c) => tomador[M] = Nadie
        BY DEF mutex_lock_libre
      <4> QED BY <4>1, <4>2, <4>3
    <3>4. /\ \A s \in LockUnlock, p \in Procesos, m \in Mutexes :
               EnLlamada(c, s, p, m)' <=> EnLlamada(c, s, p, m)
          /\ \A p \in Procesos, m \in Mutexes : SeConcede(c, p, m)' => SeConcede(c, p, m)
      BY <1>1, <1>3, <3>3, ManejadorMutex
    <3>5. \A d \in CPUs \ {c} : Quieta(d)
      BY <2>3, <3>1
    <3> HIDE DEF P, M
    <3>6. \A p \in Procesos, m \in Mutexes : EnCola(p, m)' <=> EnCola(p, m) \/ (p = P /\ m = M)
      <4> DEFINE s == cola[M]
                 r == Append(s, P)
      <4>1. s \in Seq(Procesos)
        BY <1>0, <3>2
      <4>2. \A p : Contains(r, p) <=> Contains(s, p) \/ p = P
        <5> HIDE DEF s
        <5> QED BY <3>2, <4>1, ContieneAppend
      <4>3. \A m \in Mutexes : cola'[m] = IF m = M THEN r ELSE cola[m]
        BY <1>0, <3>2, <3>3
      <4> HIDE DEF r
      <4> QED BY <4>2, <4>3 DEF EnCola
    <3>7. DejaDePedir(c, P, M)
      BY <3>2, <3>4 DEF DejaDePedir
    <3>8. \A p \in Procesos, m \in Mutexes : ~SeConcede(c, p, m)'
      BY <3>2, <3>4
    <3> QED BY <1>0, <2>1, <3>2, <3>3, <3>5, <3>6, <3>7, <3>8, TrasLockOcupado
  <2>6. ASSUME NEW c \in CPUs, mutex_unlock(c)
        PROVE  Posesiones'
    <3> DEFINE P == Head(deCpu[c]).pid
               M == Head(deCpu[c]).arg
               s == cola[M]
               h == Head(s)
               r == Tail(s)
    <3>1. Atiende(c, "MUTEX_UNLOCK") /\ "MUTEX_UNLOCK" \in LockUnlock
      BY <2>6 DEF mutex_unlock, LockUnlock
    <3>2. P \in Procesos /\ M \in Mutexes /\ SePide(c, "MUTEX_UNLOCK", P, M)
      BY <1>0, <3>1, MutexAtendido
    <3>3. /\ tomador[M] = P
          /\ \/ s = << >> /\ tomador' = [tomador EXCEPT ![M] = Nadie] /\ cola' = cola
             \/ /\ s # << >> /\ h \in Procesos /\ tomador' = [tomador EXCEPT ![M] = h]
                /\ cola' = [cola EXCEPT ![M] = r]
      BY <2>6, UnlockEfecto
    <3>4. \A d \in CPUs : Quieta(d)
      BY <2>3, <3>1
    <3>5. s \in Seq(Procesos)
      BY <1>0, <3>2
    <3>6. s # << >> => /\ \A p : Contains(r, p) => Contains(s, p)
                       /\ \A p : Contains(s, p) => Contains(r, p) \/ p = h
      <4> HIDE DEF s
      <4>1. CASE s # << >>
        <5>1. /\ \A i \in 1..Len(s) : s[i] = h \/ \E j \in 1..Len(r) : r[j] = s[i]
              /\ \A j \in 1..Len(r) : \E i \in 1..Len(s) : r[j] = s[i]
          BY <3>5, <4>1, ElementosDeCola
        <5> HIDE DEF h, r
        <5> QED BY <5>1 DEF Contains
      <4> QED BY <4>1
    <3> HIDE DEF P, M, h, r
    <3>7. \A m \in Mutexes : m # M => tomador'[m] = tomador[m]
      BY <1>0, <3>2, <3>3
    <3>8. \A p \in Procesos, m \in Mutexes :
            /\ EnCola(p, m)' => EnCola(p, m)
            /\ EnCola(p, m) => EnCola(p, m)' \/ (m = M /\ tomador'[m] = p)
      <4>1. CASE s = << >> /\ tomador' = [tomador EXCEPT ![M] = Nadie] /\ cola' = cola
        BY <4>1 DEF EnCola
      <4>2. CASE s # << >> /\ tomador' = [tomador EXCEPT ![M] = h] /\ cola' = [cola EXCEPT ![M] = r]
        <5>1. tomador'[M] = h /\ \A m \in Mutexes : cola'[m] = IF m = M THEN r ELSE cola[m]
          BY <1>0, <3>2, <4>2
        <5> QED BY <3>6, <4>2, <5>1 DEF EnCola, s
      <4> QED BY <3>3, <4>1, <4>2
    <3> QED BY <1>0, <2>1, <3>2, <3>3, <3>4, <3>7, <3>8, TrasUnlock
  <2>7. CASE ~\E c \in CPUs : mutex_lock_libre(c) \/ mutex_lock_ocupado(c) \/ mutex_unlock(c)
    <3>1. tomador' = tomador /\ cola' = cola
      BY <2>7, MarcoPrioridad
    <3> QED BY <2>1, <2>2, <2>7, <3>1, SinNovedades
  <2> QED BY <2>4, <2>5, <2>6, <2>7
<1> QED BY <1>2, <1>3

-----------------------------------------------------------------------------
(* The invariant.                                                           *)

\* A connection is served until its CPU module ends, and a module that is not connected
\* has not ended.
CaidasYConexiones ==
  \A c \in CPUs :
    /\ manejador[c].pc = "terminado" => cpu[c].modo = "caida"
    /\ manejador[c].pc = "desconectado" => cpu[c].modo = "desconectada"

\* A module that has ended, or not begun, does nothing.
LEMMA ModuloVivo ==
  ASSUME NEW c \in CPUs, ModuloCPU(c) \/ caer(c)
  PROVE  cpu[c].modo \notin {"desconectada", "caida"}
<1>1. CASE esperarPid(c) \/ syscallBloqueante(c) \/ syscallExit(c) \/ manejarSegFault(c)
           \/ confirmarSegFault(c) \/ atenderInterrupcion(c)
  <2>1. cpu[c].modo \in {"espera", "ejecuta", "ack"}
    <3>1. esperarPid(c) => cpu[c].modo = "espera"
      BY Zenon DEF esperarPid
    <3>2. confirmarSegFault(c) => cpu[c].modo = "ack"
      BY Zenon DEF confirmarSegFault
    <3>3. syscallBloqueante(c) \/ syscallExit(c) => cpu[c].modo = "ejecuta"
      BY Zenon DEF syscallBloqueante, syscallExit
    <3>4. manejarSegFault(c) \/ atenderInterrupcion(c) => cpu[c].modo = "ejecuta"
      BY Zenon DEF manejarSegFault, atenderInterrupcion
    <3> QED BY <1>1, <3>1, <3>2, <3>3, <3>4
  <2> QED BY <2>1
<1>2. CASE syscallConRespuesta(c)
  <2>1. cpu[c].modo = "ejecuta"
    BY <1>2, Zenon DEF syscallConRespuesta
  <2> QED BY <2>1
<1>3. CASE guardarInterrupcion(c) \/ recibirRespuesta(c) \/ recibirBloqueado(c) \/ respuestaInesperada(c)
  <2>1. cpu[c].modo = "respuesta"
    BY <1>3, Zenon DEF guardarInterrupcion, recibirRespuesta, recibirBloqueado, respuestaInesperada
  <2> QED BY <2>1
<1>4. CASE caer(c)
  BY <1>4 DEF caer, Conectadas
<1> QED BY <1>1, <1>2, <1>3, <1>4 DEF ModuloCPU

\* What has ended stays so.
LEMMA CaidasQuedan ==
  ASSUME Bien, CaidasYConexiones, [Next]_vars
  PROVE  CaidasYConexiones' /\ (SinCaidas' => SinCaidas)
<1>1. ASSUME NEW c \in CPUs, cpu[c].modo \in {"desconectada", "caida"}
      PROVE  \/ cpu'[c] = cpu[c]
             \/ manejador[c].pc = "desconectado" /\ cpu[c].modo = "desconectada" /\ conectar(c)
  <2>1. MarcoDe(c)
    BY <1>1, MarcoDeCPU, ModuloVivo
  <2>2. conectar(c) => manejador[c].pc = "desconectado"
    BY DEF conectar
  <2> QED BY <2>1, <2>2 DEF MarcoDe, CaidasYConexiones
<1>2. SinCaidas' => SinCaidas
  <2>1. ASSUME NEW c \in CPUs, cpu[c].modo = "caida"
        PROVE  cpu'[c].modo = "caida"
    BY <1>1, <2>1
  <2> QED BY <2>1 DEF SinCaidas
<1>3. ASSUME NEW c \in CPUs
      PROVE  /\ manejador'[c].pc = "terminado" => cpu'[c].modo = "caida"
             /\ manejador'[c].pc = "desconectado" => cpu'[c].modo = "desconectada"
  <2> DEFINE h == manejador[c]
             r == manejador'[c]
  <2>1. /\ r = h \/ r.pc \notin {"terminado", "desconectado"} \/ (desconectar(c) /\ r.pc = "terminado")
    BY MarcoDelManejador DEF ManejadorDe, ManejadorLibre
  <2>2. conectar(c) => r.pc = "libre"
    <3>1. manejador \in [CPUs -> EstadoManejador]
      BY DEF Bien, TypeOK, EstadoManejador
    <3> QED BY <3>1 DEF conectar, ManejadorLibre
  <2>3. CASE r.pc = "terminado"
    <3>1. cpu[c].modo = "caida"
      BY <2>1, <2>3 DEF CaidasYConexiones, desconectar
    <3>2. cpu'[c] = cpu[c]
      BY <1>1, <3>1
    <3> QED BY <2>3, <3>1, <3>2
  <2>4. CASE r.pc = "desconectado"
    <3>1. cpu[c].modo = "desconectada"
      BY <2>1, <2>4 DEF CaidasYConexiones
    <3>2. cpu'[c] = cpu[c]
      BY <1>1, <2>2, <2>4, <3>1
    <3> QED BY <2>4, <3>1, <3>2
  <2> QED BY <2>3, <2>4
<1> QED BY <1>2, <1>3 DEF CaidasYConexiones

\* Everything that is invariant of the mutexes: while no module ends and no unlock overtakes
\* a handler, what the programs believe of them.
InvarianteDePosesiones ==
  /\ InvariantePlanificador /\ PrioridadHeredadaConMutex /\ LibreSinEsperas /\ CaidasYConexiones
  /\ SinCaidas /\ SinAdelantos => Posesiones /\ CompactanPorMemAlloc

\* Nobody has called, holds or waits for anything initially.
LEMMA InitPosesiones ==
  ASSUME Init
  PROVE  InvarianteDePosesiones
<1>1. InvariantePlanificador
  BY InitPlanificador
<1>2. PrioridadHeredadaConMutex /\ LibreSinEsperas
  <2>1. t.prioridad = PrioridadOriginal /\ PrioridadOriginal \in [Procesos -> Int]
    BY TablasAssumption DEF Init
  <2>2. \A m \in Mutexes : cola[m] = << >>
    BY DEF Init
  <2> QED BY <2>1, <2>2 DEF PrioridadHeredadaConMutex, LibreSinEsperas
<1>3. \A c \in CPUs : /\ manejador[c].pc = "desconectado" /\ cpu[c].modo = "desconectada"
                      /\ aCpu[c] = << >> /\ deCpu[c] = << >>
  BY DEF Init, CPUEn, ManejadorLibre
<1>4. CaidasYConexiones /\ CompactanPorMemAlloc
  BY <1>3 DEF CaidasYConexiones, CompactanPorMemAlloc
<1>5. \A p \in Procesos : posee[p] = {}
  BY DEF Init
<1>6. \A c \in CPUs : \A s, p, m : ~EnLlamada(c, s, p, m) /\ ~SePide(c, s, p, m)
  BY <1>3 DEF EnLlamada, SePide
<1>7. Posesiones
  BY <1>5, <1>6 DEF Posesiones, LoQueCree, LosQueSeBloquean, LosConcedidos, LosPedidos, SeBloquea, SeConcede
<1> QED BY <1>1, <1>2, <1>4, <1>7 DEF InvarianteDePosesiones

\* Every step keeps it, with programs that lock and unlock in order.
LEMMA PasoInvarianteDePosesiones ==
  ASSUME ProgramasCorrectos, InvarianteDePosesiones, [Next]_vars
  PROVE  InvarianteDePosesiones'
<1>1. Bien
  BY DEF InvarianteDePosesiones, InvariantePlanificador
<1>2. InvariantePlanificador'
  BY PasoPlanificador DEF InvarianteDePosesiones
<1>3. PrioridadHeredadaConMutex' /\ LibreSinEsperas'
  BY <1>1, PasoMutexes DEF InvarianteDePosesiones
<1>4. CaidasYConexiones' /\ (SinCaidas' => SinCaidas)
  BY <1>1, CaidasQuedan DEF InvarianteDePosesiones
<1>5. ASSUME SinCaidas', SinAdelantos'
      PROVE  Posesiones' /\ CompactanPorMemAlloc'
  <2>2. Ordenado
    <3>1. SinDesconexiones'
      BY <1>4, <1>5 DEF CaidasYConexiones, SinCaidas, SinDesconexiones
    <3> QED BY <1>1, <1>5, <3>1, OrdenQueda DEF Ordenado
  <2>1. SinCaidas /\ Posesiones /\ CompactanPorMemAlloc /\ LibreSinEsperas
    BY <1>4, <1>5, <2>2 DEF InvarianteDePosesiones, Ordenado
  <2>3. TurnoCPU /\ ColasSinRepetir /\ CadaUnoEnSuSitio /\ FdDeQuienLoTiene /\ Avisos
    BY <2>2 DEF InvarianteDePosesiones, InvariantePlanificador, Lugares, Sitios
  <2>4. FdDeLocks
    BY <1>1, <2>3, LocksDesdeSuCPU
  <2>5. CompactanPorMemAlloc'
    BY <1>1, <2>1, <2>3, PasoCompactan
  <2>6. Posesiones'
    BY <1>1, <1>5, <2>1, <2>3, <2>4, PasoPosesiones
  <2> QED BY <2>5, <2>6
<1> QED BY <1>2, <1>3, <1>4, <1>5 DEF InvarianteDePosesiones

\* Mutual exclusion, seen by the programs: while no CPU module ends and no unlock overtakes
\* the handler that blocks its waiter, a program that executes and is not releasing a mutex
\* is, for the scheduler, the owner of every mutex it believes it holds; with any number of
\* CPUs, and programs that lock what they do not hold, unlock what they hold, and exit
\* without mutexes.
THEOREM PosesionRealSiempre ==
  ASSUME ProgramasCorrectos
  PROVE  Spec => []PosesionReal
<1>1. InvarianteDePosesiones => PosesionReal
  <2>1. ASSUME InvarianteDePosesiones, SinCaidas, SinAdelantos, NEW c \in CPUs, NEW p \in Procesos, NEW m \in Mutexes,
               Ejecuta(c, p), cpu[c].sys # "MUTEX_UNLOCK", m \in posee[p]
        PROVE  tomador[m] = p
    <3>1. Ordenado /\ Bien /\ LoQueCree /\ LosQueSeBloquean
      BY <2>1 DEF InvarianteDePosesiones, InvariantePlanificador, CaidasYConexiones, SinCaidas,
         SinDesconexiones, Ordenado, Posesiones
    <3>2. TurnoCPU /\ CadaUnoEnSuSitio /\ Avisos
      BY <2>1, <3>1 DEF InvarianteDePosesiones, InvariantePlanificador, Lugares, Sitios
    <3>3. Llamadas /\ EnUnaCPU
      BY <3>1, <3>2, LugarDeLlamadas
    <3>4. cpu[c].modo \in {"ejecuta", "respuesta"} /\ cpu[c].pid = p /\ ~HayBloqueado(aCpu[c])
      <4> DEFINE a == aCpu[c]
      <4>1. a \in Seq(MensajesAlCPU)
        BY <3>1 DEF Bien, TypeOK
      <4>2. DOMAIN a = 1..Len(a)
        <5> HIDE DEF a
        <5> QED BY <4>1, LenProperties
      <4> QED BY <2>1, <4>2 DEF Ejecuta, EnViaje, HayBloqueado
    <3>7. CASE manejador[c].pc # "avisar"
      <4>1. EnCPU(p, c)
        BY <3>4, <3>7 DEF EnCPU, EnLaCPU, Corre
      <4>2. ASSUME NEW d \in CPUs, EnLlamada(d, "MUTEX_UNLOCK", p, m)
            PROVE  FALSE
        <5>1. d = c
          BY <3>3, <4>1, <4>2 DEF Llamadas, EnUnaCPU
        <5> QED BY <2>1, <4>2, <5>1 DEF EnLlamada
      <4>3. ~EnCola(p, m)
        BY <3>3, <4>1 DEF EnUnaCPU
      <4> QED BY <2>1, <3>1, <4>2, <4>3 DEF LoQueCree
    \* The process waits already, and its CPU has not been told.
    <3>8. CASE manejador[c].pc = "avisar"
      <4> DEFINE h == manejador[c]
      <4>1. LlamaALock(cpu[c], h) /\ h.pid = p /\ h.arg \in Mutexes /\ EnCola(p, h.arg)
        <5>1. TurnoDe(c) /\ Aviso(c)
          BY <3>2, <3>8 DEF TurnoCPU, Avisos, EnLaLlamada
        <5> QED BY <3>4, <3>8, <5>1 DEF TurnoDe, Turno, LlamaALock, Aviso
      <4>2. ASSUME NEW d \in CPUs, EnLlamada(d, "MUTEX_UNLOCK", p, m)
            PROVE  FALSE
        <5>1. EnCPU(p, d)
          BY <3>3, <4>2 DEF Llamadas
        <5> QED BY <3>3, <4>1, <5>1 DEF EnUnaCPU
      <4>3. EnCola(p, m) => m = h.arg
        <5>1. EnCola(p, m) => EnSitio(p, "cola", m) /\ EnSitio(p, "cola", h.arg)
          BY <4>1 DEF EnSitio
        <5> QED BY <3>2, <5>1 DEF CadaUnoEnSuSitio, UnSitio
      <4>4. m = h.arg => tomador[m] = p
        <5>1. SeBloquea(c, p, h.arg)
          BY <3>4, <3>8, <4>1 DEF SeBloquea, EnLlamada, LlamaALock
        <5> QED BY <2>1, <3>1, <4>1, <5>1 DEF LosQueSeBloquean, Propio
      <4> QED BY <2>1, <3>1, <4>2, <4>3, <4>4 DEF LoQueCree
    <3> QED BY <3>7, <3>8
  <2> QED BY <2>1 DEF PosesionReal
<1>2. InvarianteDePosesiones /\ [Next]_vars => InvarianteDePosesiones'
  BY PasoInvarianteDePosesiones
<1> QED BY <1>1, <1>2, InitPosesiones, PTL DEF Spec

-----------------------------------------------------------------------------
(* The wait queues, with one CPU.  With a second one an unlock may overtake *)
(* the handler that blocks the waiter, and a CPU may execute a process that *)
(* was woken up before its own CPU has read that it blocks; it makes the    *)
(* call again, and so waits for the mutex it has been given.                *)

\* There is at most one CPU.
ConUnaCPU == \A c, d \in CPUs : c = d

\* Only mutexes that exist have an owner.
SoloCreados == \A m \in Mutexes : tomador[m] # Nadie => m \in creados

\* A process believes it holds what it owns or waits for, or is calling MUTEX_LOCK for it.
Poseidos ==
  \A p \in Procesos, m \in Mutexes : tomador[m] = p \/ EnCola(p, m) =>
    m \in posee[p] \/ \E c \in CPUs : EnLlamada(c, "MUTEX_LOCK", p, m)

\* A process that unlocks a mutex is its owner only until the call is served.
Soltados ==
  \A c \in CPUs, p \in Procesos, m \in Mutexes :
    EnLlamada(c, "MUTEX_UNLOCK", p, m) /\ tomador[m] = p => SePide(c, "MUTEX_UNLOCK", p, m)

\* Nobody asks for a mutex that is his.
NoPideLoSuyo ==
  \A c \in CPUs, p \in Procesos, m \in Mutexes : SePide(c, "MUTEX_LOCK", p, m) => tomador[m] # p

\* Nobody waits for a mutex that is his.
NadieEsperaLoSuyo == \A p \in Procesos, m \in Mutexes : EnCola(p, m) => tomador[m] # p

\* A handler that blocks a waiter is the only one, so no unlock overtakes it.
LEMMA UnaCPUSinAdelantos ==
  ASSUME ConUnaCPU, SinAdelantos, [Next]_vars
  PROVE  SinAdelantos'
<1>1. ASSUME NEW c \in CPUs, mutex_unlock(c)
      PROVE  ~SinBloquear(Head(cola[Head(deCpu[c]).arg]))
  <2>1. manejador[c].pc = "libre"
    BY <1>1 DEF mutex_unlock, Atiende
  <2> QED BY <2>1 DEF ConUnaCPU, SinBloquear
<1>2. ASSUME NEW c \in CPUs, mutex_unlock(c)
      PROVE  ~adelantado'
  BY <1>1, <1>2 DEF mutex_unlock, SinAdelantos
<1> QED BY <1>2, MarcoDeColas DEF SinAdelantos

\* Nobody waits for two mutexes.
UnaCola == \A p \in Procesos, m, n \in Mutexes : EnCola(p, m) /\ EnCola(p, n) => m = n

\* The modules of the CPUs do not touch the mutexes of the scheduler.
LEMMA ModuloSinMutex ==
  ASSUME NEW c \in CPUs, ModuloCPU(c) \/ caer(c)
  PROVE  tomador' = tomador /\ cola' = cola /\ creados' = creados
<1>1. syscallConRespuesta(c) \/ syscallBloqueante(c) => UNCHANGED enMutex
  BY Zenon DEF syscallConRespuesta, syscallBloqueante
<1>2. esperarPid(c) \/ syscallExit(c) \/ manejarSegFault(c) \/ confirmarSegFault(c) => UNCHANGED enMutex
  BY Zenon DEF esperarPid, syscallExit, manejarSegFault, confirmarSegFault
<1>3. CASE atenderInterrupcion(c) \/ guardarInterrupcion(c) \/ recibirRespuesta(c)
           \/ recibirBloqueado(c) \/ respuestaInesperada(c) \/ caer(c)
  BY <1>3 DEF atenderInterrupcion, guardarInterrupcion, recibirRespuesta, recibirBloqueado,
     respuestaInesperada, caer, enMutex
<1> QED BY <1>1, <1>2, <1>3 DEF ModuloCPU, enMutex

\* No mutex is ever destroyed.
LEMMA CreadosCrecen ==
  ASSUME [Next]_vars
  PROVE  creados \subseteq creados'
<1>1. CASE UNCHANGED vars
  BY <1>1 DEF vars, enMutex
<1>2. CASE planificadorLargoPlazo \/ \E p \in Procesos, x \in CPUs : Timer(p, x)
  BY <1>2 DEF enMutex, planificadorLargoPlazo, Timer, venceQuantum, interrumpeQuantum
<1>3. CASE Corto
  BY <1>3 DEF enMutex, Corto, cortoEsperaCompactacion, cortoSelecciona, cortoDevuelve, cortoEjecuta, cortoEnvia
<1>4. CASE \E p \in Procesos : HiloIO(p)
  BY <1>4 DEF enMutex, HiloIO, hiloBloquea, hiloDesbloquea
<1>5. CASE \E c \in CPUs : ModuloCPU(c) \/ caer(c)
  BY <1>5, ModuloSinMutex
<1>6. ASSUME NEW x \in CPUs, Manejador(x)
      PROVE  creados \subseteq creados'
  <2>1. CASE conectar(x) \/ desconectar(x) \/ atenderDone(x) \/ atenderSegFault(x)
             \/ atenderInterrupcionAtendida(x) \/ volverAReady(x) \/ volverAlFrente(x)
    BY <2>1 DEF conectar, desconectar, atenderDone, atenderSegFault, enMutex,
       atenderInterrupcionAtendida, volverAReady, volverAlFrente
  <2>2. CASE mutex_create(x) \/ mutex_lock_no_existe(x) \/ mutex_lock_libre(x) \/ mutex_lock_ocupado(x)
             \/ avisarBloqueado(x) \/ bloquearPorMutex(x) \/ mutex_unlock_ajeno(x) \/ mutex_unlock(x)
             \/ despertarSiguiente(x)
    BY <2>2 DEF mutex_create, mutex_lock_no_existe, mutex_lock_libre, mutex_lock_ocupado, enMutex,
       avisarBloqueado, bloquearPorMutex, mutex_unlock_ajeno, mutex_unlock, despertarSiguiente
  <2>3. CASE \/ atenderSleep(x) \/ crear_proceso(x) \/ km_mem_alloc(x)
             \/ manejar_solicitud_desalojo(x) \/ esperarConfirmaciones(x) \/ finCompactacion(x)
    BY <2>3 DEF atenderSleep, crear_proceso, km_mem_alloc, manejar_solicitud_desalojo,
       esperarConfirmaciones, finCompactacion, enMutex
  <2> QED BY <1>6, <2>1, <2>2, <2>3 DEF Manejador
<1> QED BY <1>1, <1>2, <1>3, <1>4, <1>5, <1>6 DEF Next

\* What mutex_unlock does to the mutex: it is free, or passes to the first that waits.
LEMMA UnlockPasa ==
  ASSUME Bien, ColasSinRepetir, NEW c \in CPUs, mutex_unlock(c)
  PROVE  LET P == Head(deCpu[c]).pid
             M == Head(deCpu[c]).arg
         IN
         /\ Atiende(c, "MUTEX_UNLOCK") /\ P \in Procesos /\ M \in Mutexes /\ M \in creados /\ tomador[M] = P
         /\ \A m \in Mutexes : m # M => tomador'[m] = tomador[m] /\ cola'[m] = cola[m]
         /\ \/ tomador'[M] = Nadie /\ cola' = cola
            \/ /\ tomador'[M] \in Procesos /\ EnCola(tomador'[M], M)
               /\ \A p : Contains(cola'[M], p) <=> Contains(cola[M], p) /\ p # tomador'[M]
<1> DEFINE P == Head(deCpu[c]).pid
           M == Head(deCpu[c]).arg
           s == cola[M]
           h == Head(s)
           r == Tail(s)
<1>1. Atiende(c, "MUTEX_UNLOCK") /\ M \in creados
  BY DEF mutex_unlock
<1>2. /\ P \in Procesos /\ M \in Mutexes /\ tomador[M] = P
      /\ \/ tomador' = [tomador EXCEPT ![M] = Nadie] /\ cola' = cola
         \/ /\ s # << >> /\ h \in Procesos /\ tomador' = [tomador EXCEPT ![M] = h]
            /\ cola' = [cola EXCEPT ![M] = r]
  BY UnlockEfecto
<1>3. tomador \in [Mutexes -> Procesos \cup {Nadie}] /\ cola \in [Mutexes -> Seq(Procesos)]
  BY DEF Bien, TypeOK
<1>4. s \in Seq(Procesos) /\ \A i, j \in 1..Len(s) : s[i] = s[j] => i = j
  BY <1>2, <1>3 DEF ColasSinRepetir, SinRepetir
<1>5. s # << >> => Contains(s, h) /\ \A x : Contains(r, x) <=> Contains(s, x) /\ x # h
  <2> HIDE DEF s
  <2> QED BY <1>4, ContieneTail
<1> HIDE DEF P, M, h, r
<1>6. \A m \in Mutexes : m # M => tomador'[m] = tomador[m] /\ cola'[m] = cola[m]
  BY <1>2, <1>3
<1>7. CASE tomador' = [tomador EXCEPT ![M] = Nadie] /\ cola' = cola
  BY <1>1, <1>2, <1>3, <1>6, <1>7 DEF P, M
<1>8. CASE s # << >> /\ h \in Procesos /\ tomador' = [tomador EXCEPT ![M] = h] /\ cola' = [cola EXCEPT ![M] = r]
  <2>1. tomador'[M] = h /\ cola'[M] = r
    BY <1>2, <1>3, <1>8
  <2>2. EnCola(h, M)
    BY <1>5, <1>8 DEF EnCola, s
  <2>3. \A p : Contains(cola'[M], p) <=> Contains(cola[M], p) /\ p # h
    BY <1>5, <1>8, <2>1 DEF s
  <2> QED BY <1>1, <1>2, <1>6, <1>8, <2>1, <2>2, <2>3 DEF P, M
<1> QED BY <1>2, <1>7, <1>8

\* What mutex_lock does to a free mutex.
LEMMA LibreToma ==
  ASSUME Bien, LibreSinEsperas, NEW c \in CPUs, mutex_lock_libre(c)
  PROVE  LET P == Head(deCpu[c]).pid
             M == Head(deCpu[c]).arg
         IN
         /\ Atiende(c, "MUTEX_LOCK") /\ P \in Procesos /\ M \in Mutexes /\ M \in creados
         /\ tomador'[M] = P /\ \A m \in Mutexes : m # M => tomador'[m] = tomador[m]
         /\ cola' = cola /\ \A p : ~EnCola(p, M)
<1> DEFINE P == Head(deCpu[c]).pid
           M == Head(deCpu[c]).arg
<1>1. /\ Atiende(c, "MUTEX_LOCK") /\ M \in creados /\ tomador[M] = Nadie
      /\ tomador' = [tomador EXCEPT ![M] = P] /\ cola' = cola
  BY DEF mutex_lock_libre
<1>2. P \in Procesos /\ M \in Mutexes
  <2>1. "MUTEX_LOCK" \in DeMutex
    BY DEF DeMutex
  <2> QED BY <1>1, <2>1, AtiendeMutex
<1>3. tomador \in [Mutexes -> Procesos \cup {Nadie}]
  BY DEF Bien, TypeOK
<1>4. cola[M] = << >>
  BY <1>1, <1>2 DEF LibreSinEsperas
<1>5. \A p : ~EnCola(p, M)
  BY <1>4 DEF EnCola, Contains
<1> HIDE DEF P, M
<1> QED BY <1>1, <1>2, <1>3, <1>5 DEF P, M

\* What mutex_lock does to a mutex that is taken.
LEMMA OcupadoEspera ==
  ASSUME Bien, NEW c \in CPUs, mutex_lock_ocupado(c)
  PROVE  LET P == Head(deCpu[c]).pid
             M == Head(deCpu[c]).arg
         IN
         /\ Atiende(c, "MUTEX_LOCK") /\ P \in Procesos /\ M \in Mutexes /\ tomador' = tomador
         /\ \A p \in Procesos, m \in Mutexes : EnCola(p, m)' <=> EnCola(p, m) \/ (p = P /\ m = M)
<1> DEFINE P == Head(deCpu[c]).pid
           M == Head(deCpu[c]).arg
           s == cola[M]
           r == Append(s, P)
<1>1. Atiende(c, "MUTEX_LOCK") /\ tomador' = tomador
  BY DEF mutex_lock_ocupado
<1>2. P \in Procesos /\ M \in Mutexes /\ cola' = [cola EXCEPT ![M] = r]
  BY LockOcupadoEfecto
<1>3. cola \in [Mutexes -> Seq(Procesos)] /\ s \in Seq(Procesos)
  BY <1>2 DEF Bien, TypeOK
<1>4. \A p : Contains(r, p) <=> Contains(s, p) \/ p = P
  <2> HIDE DEF s, P
  <2> QED BY <1>2, <1>3, ContieneAppend
<1> HIDE DEF P, M, r
<1>5. \A m \in Mutexes : cola'[m] = IF m = M THEN r ELSE cola[m]
  BY <1>2, <1>3
<1>6. \A p \in Procesos, m \in Mutexes : EnCola(p, m)' <=> EnCola(p, m) \/ (p = P /\ m = M)
  BY <1>4, <1>5 DEF EnCola, s
<1> QED BY <1>1, <1>2, <1>6 DEF P, M

\* A mutex has an owner only after it was created, and it stays.
LEMMA PasoCreados ==
  ASSUME Bien, ColasSinRepetir, LibreSinEsperas, SoloCreados, [Next]_vars
  PROVE  SoloCreados'
<1>1. creados \subseteq creados'
  BY CreadosCrecen
<1>2. CASE \E c \in CPUs : mutex_lock_libre(c)
  <2>1. PICK c \in CPUs : mutex_lock_libre(c)
    BY <1>2
  <2> QED BY <1>1, <2>1, LibreToma DEF SoloCreados
<1>3. CASE \E c \in CPUs : mutex_lock_ocupado(c)
  <2>1. tomador' = tomador
    BY <1>3 DEF mutex_lock_ocupado
  <2> QED BY <1>1, <2>1 DEF SoloCreados
<1>4. CASE \E c \in CPUs : mutex_unlock(c)
  <2>1. PICK c \in CPUs : mutex_unlock(c)
    BY <1>4
  <2> QED BY <1>1, <2>1, UnlockPasa DEF SoloCreados
<1>5. CASE ~\E c \in CPUs : mutex_lock_libre(c) \/ mutex_lock_ocupado(c) \/ mutex_unlock(c)
  <2>1. tomador' = tomador
    BY <1>5, MarcoPrioridad
  <2> QED BY <1>1, <2>1 DEF SoloCreados
<1> QED BY <1>2, <1>3, <1>4, <1>5

\* The first message of a connection is one that it asks for.
LEMMA AtiendeLoPedido ==
  ASSUME Bien, NEW c \in CPUs, NEW tipo, Atiende(c, tipo)
  PROVE  SePide(c, tipo, Head(deCpu[c]).pid, Head(deCpu[c]).arg)
<1> DEFINE d == deCpu[c]
<1>1. d \in Seq(MensajesDelCPU) /\ d # << >> /\ Head(d).tipo = tipo
  BY DEF Bien, TypeOK, Atiende
<1>2. 1 \in 1..Len(d) /\ Head(d) = d[1]
  <2> HIDE DEF d
  <2> QED BY <1>1, HeadTailProperties, LenProperties, EmptySeq
<1> QED BY <1>1, <1>2 DEF SePide

\* A MUTEX_LOCK that is pending is the only message of its CPU.
LEMMA LockSolo ==
  ASSUME Bien, TurnoCPU, NEW c \in CPUs, NEW p, NEW m, SePide(c, "MUTEX_LOCK", p, m)
  PROVE  /\ Tail(deCpu[c]) = << >>
         /\ \A tipo : Atiende(c, tipo) => tipo = "MUTEX_LOCK" /\ Head(deCpu[c]).pid = p /\ Head(deCpu[c]).arg = m
<1> DEFINE d == deCpu[c]
           k == cpu[c]
<1>1. d \in Seq(MensajesDelCPU) /\ Turno(Contains(cpusLibres, c), corto.c = c, aCpu[c], d, k, manejador[c])
  BY DEF Bien, TypeOK, TurnoCPU, TurnoDe
<1>2. PICK i \in 1..Len(d) : d[i].tipo = "MUTEX_LOCK" /\ d[i].pid = p /\ d[i].arg = m
  BY DEF SePide
<1>3. Len(d) = 1
  <2> HIDE DEF d, k
  <2> QED BY <1>1, <1>2 DEF Turno
<1>4. i = 1 /\ Head(d) = d[1] /\ Tail(d) = << >>
  <2> HIDE DEF d
  <2>1. i = 1
    BY <1>3
  <2>2. d # << >>
    BY <1>1, <1>3, EmptySeq
  <2>3. Tail(d) \in Seq(MensajesDelCPU) /\ Len(Tail(d)) = 0 /\ Head(d) = d[1]
    BY <1>1, <1>3, <2>2, HeadTailProperties
  <2> QED BY <2>1, <2>3, EmptySeq
<1>5. \A tipo : Atiende(c, tipo) => Head(d).tipo = tipo
  BY DEF Atiende
<1> QED BY <1>2, <1>4, <1>5

\* What the scheduler leaves in a connection was there.
LEMMA PedidoQueda ==
  ASSUME Bien, [Next]_vars, NEW c \in CPUs, ~ModuloCPU(c), ~caer(c),
         NEW s, NEW p, NEW m, SePide(c, s, p, m)'
  PROVE  SePide(c, s, p, m)
<1> DEFINE d == deCpu[c]
           d2 == deCpu'[c]
<1>1. d2 = d \/ (d # << >> /\ d2 = Tail(d))
  <2>1. MarcoDe(c)
    BY MarcoDeCPU
  <2> QED BY <2>1 DEF MarcoDe
<1>2. d \in Seq(MensajesDelCPU)
  BY DEF Bien, TypeOK
<1>3. CASE d # << >> /\ d2 = Tail(d)
  <2>1. \A j \in 1..Len(Tail(d)) : \E i \in 1..Len(d) : Tail(d)[j] = d[i]
    <3> HIDE DEF d
    <3> QED BY <1>2, <1>3, ElementosDeCola
  <2> QED BY <1>3, <2>1 DEF SePide
<1>4. CASE d2 = d
  BY <1>4 DEF SePide
<1> QED BY <1>1, <1>3, <1>4

\* The scheduler gives no mutex to a process that asks for it.
LEMMA ManejadorNoPide ==
  ASSUME Bien, TurnoCPU, ConUnaCPU, ColasSinRepetir, LibreSinEsperas, NoPideLoSuyo, [Next]_vars,
         \A c \in CPUs : ~ModuloCPU(c) /\ ~caer(c)
  PROVE  NoPideLoSuyo'
<1> SUFFICES ASSUME NEW c \in CPUs, NEW p \in Procesos, NEW m \in Mutexes, SePide(c, "MUTEX_LOCK", p, m)'
             PROVE  tomador'[m] # p
  BY DEF NoPideLoSuyo
<1>1. SePide(c, "MUTEX_LOCK", p, m)
  BY PedidoQueda
<1>2. tomador[m] # p
  BY <1>1 DEF NoPideLoSuyo
<1>3. ASSUME NEW x \in CPUs, NEW tipo, Atiende(x, tipo)
      PROVE  FALSE
  <2>1. x = c
    BY DEF ConUnaCPU
  <2>2. deCpu'[c] = << >>
    <3>1. deCpu'[c] = Tail(deCpu[c])
      BY <1>3, <2>1 DEF Atiende, Bien, TypeOK
    <3> QED BY <1>1, <3>1, LockSolo
  <2> QED BY <2>2 DEF SePide
<1>4. ~\E x \in CPUs : mutex_lock_libre(x) \/ mutex_lock_ocupado(x) \/ mutex_unlock(x)
  BY <1>3 DEF mutex_lock_libre, mutex_lock_ocupado, mutex_unlock
<1> QED BY <1>2, <1>4, MarcoPrioridad

\* Nobody comes to wait for a mutex that is his, or becomes the owner of one he waits for.
LEMMA PasoNadieEspera ==
  ASSUME Bien, ColasSinRepetir, LibreSinEsperas, NoPideLoSuyo, NadieEsperaLoSuyo, [Next]_vars
  PROVE  NadieEsperaLoSuyo'
<1>1. CASE \E c \in CPUs : mutex_lock_libre(c)
  <2>1. PICK c \in CPUs : mutex_lock_libre(c)
    BY <1>1
  <2> DEFINE P == Head(deCpu[c]).pid
             M == Head(deCpu[c]).arg
  <2>2. /\ tomador'[M] = P /\ \A m \in Mutexes : m # M => tomador'[m] = tomador[m]
        /\ cola' = cola /\ \A p : ~EnCola(p, M)
    BY <2>1, LibreToma
  <2> HIDE DEF P, M
  <2>3. \A p, m : EnCola(p, m)' <=> EnCola(p, m)
    BY <2>2 DEF EnCola
  <2> QED BY <2>2, <2>3 DEF NadieEsperaLoSuyo
<1>2. CASE \E c \in CPUs : mutex_lock_ocupado(c)
  <2>1. PICK c \in CPUs : mutex_lock_ocupado(c)
    BY <1>2
  <2> DEFINE P == Head(deCpu[c]).pid
             M == Head(deCpu[c]).arg
  <2>2. /\ Atiende(c, "MUTEX_LOCK") /\ P \in Procesos /\ M \in Mutexes /\ tomador' = tomador
        /\ \A p \in Procesos, m \in Mutexes : EnCola(p, m)' <=> EnCola(p, m) \/ (p = P /\ m = M)
    BY <2>1, OcupadoEspera
  <2>3. tomador[M] # P
    BY <2>2, AtiendeLoPedido DEF NoPideLoSuyo
  <2> HIDE DEF P, M
  <2> QED BY <2>2, <2>3 DEF NadieEsperaLoSuyo
<1>3. CASE \E c \in CPUs : mutex_unlock(c)
  <2>1. PICK c \in CPUs : mutex_unlock(c)
    BY <1>3
  <2> DEFINE P == Head(deCpu[c]).pid
             M == Head(deCpu[c]).arg
  <2>2. /\ M \in Mutexes
        /\ \A m \in Mutexes : m # M => tomador'[m] = tomador[m] /\ cola'[m] = cola[m]
        /\ \/ tomador'[M] = Nadie /\ cola' = cola
           \/ /\ tomador'[M] \in Procesos
              /\ \A p : Contains(cola'[M], p) <=> Contains(cola[M], p) /\ p # tomador'[M]
    BY <2>1, UnlockPasa
  <2> HIDE DEF P, M
  <2>3. ASSUME NEW p \in Procesos, NEW m \in Mutexes, EnCola(p, m)'
        PROVE  tomador'[m] # p
    <3>1. CASE m # M
      BY <2>2, <2>3, <3>1 DEF NadieEsperaLoSuyo, EnCola
    <3>2. CASE m = M
      <4>1. Nadie # p
        BY TablasAssumption
      <4> QED BY <2>2, <2>3, <3>2, <4>1 DEF EnCola
    <3> QED BY <3>1, <3>2
  <2> QED BY <2>3 DEF NadieEsperaLoSuyo
<1>4. CASE ~\E c \in CPUs : mutex_lock_libre(c) \/ mutex_lock_ocupado(c) \/ mutex_unlock(c)
  <2>1. tomador' = tomador /\ cola' = cola
    BY <1>4, MarcoPrioridad
  <2> QED BY <2>1 DEF NadieEsperaLoSuyo, EnCola
<1> QED BY <1>1, <1>2, <1>3, <1>4

\* Whoever becomes the owner of a mutex, or waits for it, is calling MUTEX_LOCK or waited.
LEMMA ManejadorPoseidos ==
  ASSUME Bien, TurnoCPU, ColasSinRepetir, FdDeLocks, LibreSinEsperas, CompactanPorMemAlloc, LosPedidos,
         Poseidos, [Next]_vars, \A c \in CPUs : ~ModuloCPU(c) /\ ~caer(c)
  PROVE  Poseidos'
<1>1. posee' = posee
  BY MarcoPosee
<1>2. \A c \in CPUs, p \in Procesos, m \in Mutexes :
        EnLlamada(c, "MUTEX_LOCK", p, m)' <=> EnLlamada(c, "MUTEX_LOCK", p, m)
  <2>1. "MUTEX_LOCK" \in LockUnlock
    BY DEF LockUnlock
  <2> QED BY <2>1, ManejadorMutex
<1> SUFFICES ASSUME NEW p \in Procesos, NEW m \in Mutexes, tomador'[m] = p \/ EnCola(p, m)'
             PROVE  \/ tomador[m] = p \/ EnCola(p, m)
                    \/ \E c \in CPUs : EnLlamada(c, "MUTEX_LOCK", p, m)
  BY <1>1, <1>2 DEF Poseidos
<1>3. ASSUME NEW c \in CPUs, Atiende(c, "MUTEX_LOCK"), Head(deCpu[c]).pid = p, Head(deCpu[c]).arg = m
      PROVE  EnLlamada(c, "MUTEX_LOCK", p, m)
  BY <1>3, AtiendeLoPedido DEF LosPedidos
<1>4. ASSUME NEW c \in CPUs, mutex_lock_libre(c)
      PROVE  tomador[m] = p \/ EnCola(p, m) \/ EnLlamada(c, "MUTEX_LOCK", p, m)
  <2> DEFINE P == Head(deCpu[c]).pid
             M == Head(deCpu[c]).arg
  <2>1. /\ Atiende(c, "MUTEX_LOCK") /\ tomador'[M] = P
        /\ \A n \in Mutexes : n # M => tomador'[n] = tomador[n]
        /\ cola' = cola
    BY <1>4, LibreToma
  <2>2. p = P /\ m = M => EnLlamada(c, "MUTEX_LOCK", p, m)
    BY <1>3, <2>1
  <2> HIDE DEF P, M
  <2> QED BY <2>1, <2>2 DEF EnCola
<1>5. ASSUME NEW c \in CPUs, mutex_lock_ocupado(c)
      PROVE  tomador[m] = p \/ EnCola(p, m) \/ EnLlamada(c, "MUTEX_LOCK", p, m)
  <2> DEFINE P == Head(deCpu[c]).pid
             M == Head(deCpu[c]).arg
  <2>1. /\ Atiende(c, "MUTEX_LOCK") /\ tomador' = tomador
        /\ EnCola(p, m)' <=> EnCola(p, m) \/ (p = P /\ m = M)
    BY <1>5, OcupadoEspera
  <2>2. p = P /\ m = M => EnLlamada(c, "MUTEX_LOCK", p, m)
    BY <1>3, <2>1
  <2> HIDE DEF P, M
  <2> QED BY <2>1, <2>2
<1>6. ASSUME NEW c \in CPUs, mutex_unlock(c)
      PROVE  tomador[m] = p \/ EnCola(p, m)
  <2> DEFINE M == Head(deCpu[c]).arg
  <2>1. /\ M \in Mutexes
        /\ \A n \in Mutexes : n # M => tomador'[n] = tomador[n] /\ cola'[n] = cola[n]
        /\ \/ tomador'[M] = Nadie /\ cola' = cola
           \/ /\ EnCola(tomador'[M], M)
              /\ \A x : Contains(cola'[M], x) <=> Contains(cola[M], x) /\ x # tomador'[M]
    BY <1>6, UnlockPasa
  <2> HIDE DEF M
  <2>2. Nadie # p
    BY TablasAssumption
  <2>3. CASE m # M
    BY <2>1, <2>3 DEF EnCola
  <2>4. CASE m = M
    BY <2>1, <2>2, <2>4 DEF EnCola
  <2> QED BY <2>3, <2>4
<1>7. CASE ~\E c \in CPUs : mutex_lock_libre(c) \/ mutex_lock_ocupado(c) \/ mutex_unlock(c)
  <2>1. tomador' = tomador /\ cola' = cola
    BY <1>7, MarcoPrioridad
  <2> QED BY <2>1 DEF EnCola
<1> QED BY <1>4, <1>5, <1>6, <1>7

\* A MUTEX_UNLOCK is served by mutex_unlock.
LEMMA AtiendeUnlock ==
  ASSUME NEW c \in CPUs, Manejador(c), Head(deCpu[c]).tipo = "MUTEX_UNLOCK", deCpu'[c] # deCpu[c]
  PROVE  mutex_unlock(c) \/ mutex_unlock_ajeno(c)
<1>1. \A tipo : Atiende(c, tipo) => tipo = "MUTEX_UNLOCK"
  BY DEF Atiende
<1>2. CASE conectar(c) \/ desconectar(c) \/ volverAReady(c) \/ volverAlFrente(c) \/ avisarBloqueado(c)
           \/ bloquearPorMutex(c) \/ despertarSiguiente(c) \/ esperarConfirmaciones(c) \/ finCompactacion(c)
  BY <1>2 DEF conectar, desconectar, volverAReady, volverAlFrente, avisarBloqueado, bloquearPorMutex,
     despertarSiguiente, esperarConfirmaciones, finCompactacion, enCPU
<1>3. CASE atenderDone(c) \/ atenderSegFault(c) \/ atenderInterrupcionAtendida(c) \/ atenderSleep(c)
  BY <1>1, <1>3 DEF atenderDone, atenderSegFault, atenderInterrupcionAtendida, atenderSleep
<1>4. CASE mutex_create(c) \/ mutex_lock_no_existe(c) \/ mutex_lock_libre(c) \/ mutex_lock_ocupado(c)
  BY <1>1, <1>4 DEF mutex_create, mutex_lock_no_existe, mutex_lock_libre, mutex_lock_ocupado
<1>5. CASE crear_proceso(c) \/ km_mem_alloc(c) \/ manejar_solicitud_desalojo(c)
  BY <1>1, <1>5 DEF crear_proceso, km_mem_alloc, manejar_solicitud_desalojo
<1> QED BY <1>2, <1>3, <1>4, <1>5 DEF Manejador

\* A MUTEX_UNLOCK that is pending is the call of its CPU, and its only message.
LEMMA UnlockSolo ==
  ASSUME Bien, TurnoCPU, NEW c \in CPUs, NEW p \in Procesos, NEW m \in Mutexes,
         EnLlamada(c, "MUTEX_UNLOCK", p, m), SePide(c, "MUTEX_UNLOCK", p, m)
  PROVE  Head(deCpu[c]).tipo = "MUTEX_UNLOCK" /\ Head(deCpu[c]).pid = p /\ Head(deCpu[c]).arg = m
<1> DEFINE d == deCpu[c]
           k == cpu[c]
           x == Msj(k.sys, k.pid, k.arg)
<1>1. Turno(Contains(cpusLibres, c), corto.c = c, aCpu[c], d, k, manejador[c])
  BY DEF TurnoCPU, TurnoDe
<1>2. d # << >>
  <2>1. PICK i \in 1..Len(d) : TRUE
    BY DEF SePide
  <2> HIDE DEF d
  <2> QED BY <2>1
<1>3. k.modo = "respuesta" /\ k.sys = "MUTEX_UNLOCK" /\ k.pid = p /\ k.arg = m
  BY DEF EnLlamada
<1>4. d = << x >>
  <2> HIDE DEF d, k
  <2> QED BY <1>1, <1>2, <1>3 DEF Turno, x
<1>5. Head(d) = x
  <2> HIDE DEF d, x
  <2> QED BY <1>4
<1> QED BY <1>3, <1>5 DEF Msj

\* The owner that unlocks a mutex stays so until the call is served, and not after.
LEMMA ManejadorSoltados ==
  ASSUME Bien, TurnoCPU, ConUnaCPU, ColasSinRepetir, CadaUnoEnSuSitio, FdDeLocks, LibreSinEsperas,
         CompactanPorMemAlloc, LosPedidos, SoloCreados, NadieEsperaLoSuyo,
         Soltados, [Next]_vars, \A c \in CPUs : ~ModuloCPU(c) /\ ~caer(c)
  PROVE  Soltados'
<1>1. Llamadas /\ EnUnaCPU
  BY LugarDeLlamadas
<1> SUFFICES ASSUME NEW c \in CPUs, NEW p \in Procesos, NEW m \in Mutexes,
                    EnLlamada(c, "MUTEX_UNLOCK", p, m)', tomador'[m] = p
             PROVE  SePide(c, "MUTEX_UNLOCK", p, m)'
  BY DEF Soltados
<1>2. EnLlamada(c, "MUTEX_UNLOCK", p, m)
  <2>1. "MUTEX_UNLOCK" \in LockUnlock
    BY DEF LockUnlock
  <2> QED BY <2>1, ManejadorMutex
<1>3. \A n \in Mutexes : ~EnCola(p, n)
  BY <1>1, <1>2 DEF Llamadas, EnUnaCPU
<1>4. Nadie # p
  BY TablasAssumption
<1>5. \A x \in CPUs : ~mutex_lock_libre(x)
  <2>1. ASSUME NEW x \in CPUs, mutex_lock_libre(x)
        PROVE  FALSE
    <3> DEFINE P == Head(deCpu[x]).pid
               M == Head(deCpu[x]).arg
    <3>1. Atiende(x, "MUTEX_LOCK") /\ P \in Procesos /\ M \in Mutexes
      BY <2>1, LibreToma
    <3>2. SePide(x, "MUTEX_LOCK", P, M)
      BY <3>1, AtiendeLoPedido
    <3> HIDE DEF P, M
    <3>3. EnLlamada(x, "MUTEX_LOCK", P, M)
      BY <3>1, <3>2 DEF LosPedidos
    <3>4. x = c
      BY DEF ConUnaCPU
    <3> QED BY <1>2, <3>3, <3>4 DEF EnLlamada
  <2> QED BY <2>1
<1>6. /\ tomador[m] = p
      /\ \A x \in CPUs : mutex_unlock(x) => Head(deCpu[x]).arg # m
  <2>1. ASSUME NEW x \in CPUs, mutex_unlock(x)
        PROVE  tomador[m] = p /\ Head(deCpu[x]).arg # m
    <3> DEFINE M == Head(deCpu[x]).arg
    <3>1. /\ \A n \in Mutexes : n # M => tomador'[n] = tomador[n]
          /\ tomador'[M] = Nadie \/ EnCola(tomador'[M], M)
          /\ M \in Mutexes
      BY <2>1, UnlockPasa
    <3> HIDE DEF M
    <3>2. M # m
      BY <1>3, <1>4, <3>1
    <3> QED BY <3>1, <3>2 DEF M
  <2>2. CASE \E x \in CPUs : mutex_unlock(x)
    <3>1. tomador[m] = p
      BY <2>1, <2>2
    <3> QED BY <2>1, <3>1
  <2>3. CASE \E x \in CPUs : mutex_lock_ocupado(x)
    <3>1. tomador' = tomador
      BY <2>3 DEF mutex_lock_ocupado
    <3> QED BY <2>1, <3>1
  <2>4. CASE ~\E x \in CPUs : mutex_lock_libre(x) \/ mutex_lock_ocupado(x) \/ mutex_unlock(x)
    <3>1. tomador' = tomador
      BY <2>4, MarcoPrioridad
    <3> QED BY <2>4, <3>1
  <2> QED BY <1>5, <2>2, <2>3, <2>4
<1>7. SePide(c, "MUTEX_UNLOCK", p, m)
  BY <1>2, <1>6 DEF Soltados
<1>8. CASE deCpu'[c] = deCpu[c]
  BY <1>7, <1>8 DEF SePide
<1>9. CASE deCpu'[c] # deCpu[c]
  <2>1. Manejador(c)
    BY <1>9, QuienAtiende
  <2>2. Head(deCpu[c]).tipo = "MUTEX_UNLOCK" /\ Head(deCpu[c]).pid = p /\ Head(deCpu[c]).arg = m
    BY <1>2, <1>7, UnlockSolo
  <2>3. mutex_unlock(c) \/ mutex_unlock_ajeno(c)
    BY <1>9, <2>1, <2>2, AtiendeUnlock
  <2>4. mutex_unlock_ajeno(c) => m \notin creados \/ tomador[m] # p
    BY <2>2 DEF mutex_unlock_ajeno
  <2> QED BY <1>4, <1>6, <2>2, <2>3, <2>4 DEF SoloCreados
<1> QED BY <1>8, <1>9

\* A module that ends asks for nothing.
LEMMA CaidaSinPedir ==
  ASSUME Bien, NEW c \in CPUs, ModuloCPU(c) \/ caer(c), cpu'[c].modo = "caida"
  PROVE  deCpu' = deCpu
<1>1. cpu \in [CPUs -> EstadoCPU]
  BY DEF Bien, TypeOK, EstadoCPU
<1>2. CPUEn("espera").modo = "espera" /\ \A p : [CPUEn("ejecuta") EXCEPT !.pid = p].modo = "ejecuta"
  BY DEF CPUEn
<1>3. CASE syscallConRespuesta(c) \/ manejarSegFault(c)
  <2>1. CASE syscallConRespuesta(c)
    <3>1. PICK s, arg : cpu' = [cpu EXCEPT ![c].modo = "respuesta", ![c].sys = s, ![c].arg = arg]
      BY <2>1, Zenon DEF syscallConRespuesta
    <3>2. cpu'[c].modo = "respuesta"
      BY <1>1, <3>1 DEF EstadoCPU
    <3> QED BY <3>2
  <2>2. CASE manejarSegFault(c)
    <3>1. cpu' = [cpu EXCEPT ![c].modo = "ack"]
      BY <2>2 DEF manejarSegFault
    <3>2. cpu'[c].modo = "ack"
      BY <1>1, <3>1 DEF EstadoCPU
    <3> QED BY <3>2
  <2> QED BY <1>3, <2>1, <2>2
<1>4. CASE syscallBloqueante(c) \/ syscallExit(c)
  <2>1. cpu' = [cpu EXCEPT ![c] = CPUEn("espera")]
    BY <1>4 DEF syscallBloqueante, syscallExit
  <2> QED BY <1>1, <1>2, <2>1
<1>5. CASE atenderInterrupcion(c)
  <2>1. cpu' = [cpu EXCEPT ![c] = CPUEn("espera")] \/ deCpu' = deCpu
    BY <1>5, Zenon DEF atenderInterrupcion
  <2> QED BY <1>1, <1>2, <2>1
<1>6. CASE recibirRespuesta(c)
  <2>1. \E p : \/ cpu' = [cpu EXCEPT ![c] = [CPUEn("ejecuta") EXCEPT !.pid = p]]
               \/ cpu' = [cpu EXCEPT ![c] = CPUEn("espera")]
    <3>1. DejaSyscall(c)
      BY <1>6 DEF recibirRespuesta
    <3> QED BY <3>1, Zenon DEF DejaSyscall
  <2> QED BY <1>1, <1>2, <2>1
<1>7. CASE \/ esperarPid(c) \/ confirmarSegFault(c) \/ guardarInterrupcion(c) \/ recibirBloqueado(c)
           \/ respuestaInesperada(c) \/ caer(c)
  BY <1>7 DEF esperarPid, confirmarSegFault, guardarInterrupcion, recibirBloqueado, respuestaInesperada, caer
<1> QED BY <1>3, <1>4, <1>5, <1>6, <1>7 DEF ModuloCPU

\* The requests of a module are behind those it made.
LEMMA ModuloPideMas ==
  ASSUME Bien, NEW c \in CPUs, ModuloCPU(c) \/ caer(c), NEW s, NEW p, NEW m, SePide(c, s, p, m)
  PROVE  SePide(c, s, p, m)'
<1> DEFINE d == deCpu[c]
           d2 == deCpu'[c]
<1>1. d2 = d \/ \E x \in MensajesDelCPU : d2 = Append(d, x)
  <2>1. DicePermitido(c)
    BY ModuloDice DEF ModuloBien
  <2> QED BY <2>1 DEF DicePermitido
<1>2. d \in Seq(MensajesDelCPU)
  BY DEF Bien, TypeOK
<1>3. CASE d2 = d
  BY <1>3 DEF SePide
<1>4. ASSUME NEW x \in MensajesDelCPU, d2 = Append(d, x)
      PROVE  SePide(c, s, p, m)'
  <2>1. Mantiene(d, d2)
    <3>1. Mantiene(d, Append(d, x))
      BY <1>2, ElementosAgregados
    <3> QED BY <1>4, <3>1
  <2> QED BY <2>1 DEF SePide, Mantiene
<1> QED BY <1>1, <1>3, <1>4

\* The module of the only CPU, while it lives: what it asks for, has got and gives back.
LEMMA ModuloEsperas ==
  ASSUME Bien, TurnoCPU, ConUnaCPU, CadaUnoEnSuSitio, ProgramasCorrectos, Posesiones, Poseidos, Soltados,
         NEW c \in CPUs, ModuloCPU(c), cpu'[c].modo # "caida", NoPideLoSuyo
  PROVE  Poseidos' /\ Soltados' /\ NoPideLoSuyo'
<1>0. /\ Llamadas /\ EnUnaCPU /\ LosPedidos /\ \A d \in CPUs : d = c
  BY LugarDeLlamadas DEF Posesiones, ConUnaCPU
<1>1. tomador' = tomador /\ \A p, m : EnCola(p, m)' <=> EnCola(p, m)
  BY ModuloSinMutex DEF EnCola
<1>2. DeLaCPU(c)
  BY <1>0, ModuloMutex
<1>3. \A p \in Procesos, m \in Mutexes : tomador[m] = p \/ EnCola(p, m) =>
        m \in posee[p] \/ EnLlamada(c, "MUTEX_LOCK", p, m)
  BY <1>0 DEF Poseidos
<1>4. "MUTEX_LOCK" \in LockUnlock /\ "MUTEX_UNLOCK" \in LockUnlock
  BY DEF LockUnlock
<1>5. CASE Quieta(c) /\ posee' = posee
  <2>1. /\ \A s \in LockUnlock, p \in Procesos, m \in Mutexes :
             /\ EnLlamada(c, s, p, m)' <=> EnLlamada(c, s, p, m)
             /\ SePide(c, s, p, m)' <=> SePide(c, s, p, m)
    BY <1>5, ModuloPideMas DEF Quieta
  <2>2. Poseidos'
    BY <1>1, <1>3, <1>4, <1>5, <2>1 DEF Poseidos
  <2>3. Soltados'
    BY <1>0, <1>1, <1>4, <2>1 DEF Soltados
  <2>4. NoPideLoSuyo'
    BY <1>0, <1>1, <1>4, <2>1 DEF NoPideLoSuyo
  <2> QED BY <2>2, <2>3, <2>4
<1>6. CASE HaceLlamada(c)
  <2>1. PICK P \in Procesos, M \in Mutexes, S \in LockUnlock :
          /\ SinLlamada(c) /\ posee' = posee /\ (M \in posee[P] <=> S = "MUTEX_UNLOCK")
          /\ \A s \in LockUnlock, p \in Procesos, m \in Mutexes :
               /\ SePide(c, s, p, m)' <=> EnLlamada(c, s, p, m)'
               /\ EnLlamada(c, s, p, m)' => s = S /\ p = P /\ m = M
    BY <1>6 DEF HaceLlamada
  <2>2. \A p \in Procesos, m \in Mutexes : tomador[m] = p \/ EnCola(p, m) => m \in posee[p]
    BY <1>3, <1>4, <2>1 DEF SinLlamada
  <2>3. Poseidos'
    BY <1>1, <2>1, <2>2 DEF Poseidos
  <2>4. Soltados'
    BY <1>0, <1>4, <2>1 DEF Soltados
  <2>5. NoPideLoSuyo'
    <3>1. ASSUME NEW p \in Procesos, NEW m \in Mutexes, SePide(c, "MUTEX_LOCK", p, m)'
          PROVE  tomador[m] # p
      <4>1. p = P /\ m = M /\ S = "MUTEX_LOCK"
        BY <1>4, <2>1, <3>1
      <4> QED BY <2>1, <2>2, <4>1
    <3> QED BY <1>0, <1>1, <3>1 DEF NoPideLoSuyo
  <2> QED BY <2>3, <2>4, <2>5
<1>7. CASE LeeRespuesta(c)
  <2>1. PICK P \in Procesos, M \in Mutexes :
          /\ SinLlamada(c)'
          /\ \/ SeConcede(c, P, M) /\ Unica(c, "MUTEX_LOCK", P, M) /\ Toma(P, M)
             \/ SeBloquea(c, P, M) /\ Unica(c, "MUTEX_LOCK", P, M) /\ Toma(P, M)
             \/ /\ EnLlamada(c, "MUTEX_UNLOCK", P, M) /\ HayResp(aCpu[c])
                /\ Unica(c, "MUTEX_UNLOCK", P, M) /\ Suelta(P, M)
    BY <1>7 DEF LeeRespuesta
  <2>2. Soltados' /\ NoPideLoSuyo'
    BY <1>0, <1>4, <2>1 DEF SinLlamada, Soltados, NoPideLoSuyo
  <2>3. CASE Unica(c, "MUTEX_LOCK", P, M) /\ Toma(P, M)
    <3>1. \A p \in Procesos, m \in Mutexes : EnLlamada(c, "MUTEX_LOCK", p, m) => p = P /\ m = M
      BY <1>4, <2>3 DEF Unica
    <3>2. \A p \in Procesos, m \in Mutexes : tomador[m] = p \/ EnCola(p, m) => m \in posee'[p]
      BY <1>3, <2>3, <3>1 DEF Toma
    <3> QED BY <1>1, <2>2, <3>2 DEF Poseidos
  <2>4. CASE /\ EnLlamada(c, "MUTEX_UNLOCK", P, M) /\ HayResp(aCpu[c])
             /\ Unica(c, "MUTEX_UNLOCK", P, M) /\ Suelta(P, M)
    <3>1. ~EnCola(P, M)
      BY <1>0, <2>4 DEF Llamadas, EnUnaCPU
    <3>2. ~SePide(c, "MUTEX_UNLOCK", P, M)
      <4> DEFINE a == aCpu[c]
                 d == deCpu[c]
      <4>1. ~(HayResp(a) /\ Pide(d))
        BY DEF TurnoCPU, TurnoDe, Turno
      <4>2. ~Pide(d)
        BY <2>4, <4>1
      <4>3. SePide(c, "MUTEX_UNLOCK", P, M) => Pide(d)
        BY DEF SePide, Pide, Piden, ConRespuesta
      <4> QED BY <4>2, <4>3
    <3>3. tomador[M] # P
      BY <2>4, <3>2 DEF Soltados
    <3>4. \A p \in Procesos, m \in Mutexes : ~EnLlamada(c, "MUTEX_LOCK", p, m)
      BY <2>4 DEF EnLlamada
    <3>5. \A p \in Procesos, m \in Mutexes : tomador[m] = p \/ EnCola(p, m) => m \in posee'[p]
      BY <1>3, <2>4, <3>1, <3>3, <3>4 DEF Suelta
    <3> QED BY <1>1, <2>2, <3>5 DEF Poseidos
  <2> QED BY <2>1, <2>3, <2>4
<1> QED BY <1>2, <1>5, <1>6, <1>7 DEF DeLaCPU

\* Once the connection of the only CPU is lost no mutex changes hands.
LEMMA ParadosSinMutex ==
  ASSUME Bien, ConUnaCPU, [Next]_vars, ~SinDesconexiones'
  PROVE  tomador' = tomador /\ cola' = cola
<1>1. PICK c \in CPUs : manejador'[c].pc = "terminado"
  BY DEF SinDesconexiones
<1>2. \A d \in CPUs : d = c
  BY DEF ConUnaCPU
<1>3. manejador \in [CPUs -> EstadoManejador]
  BY DEF Bien, TypeOK, EstadoManejador
<1>4. ASSUME mutex_lock_libre(c) \/ mutex_lock_ocupado(c) \/ mutex_unlock(c)
      PROVE  FALSE
  <2>1. manejador[c].pc = "libre"
    BY <1>4 DEF mutex_lock_libre, mutex_lock_ocupado, mutex_unlock, Atiende
  <2>2. mutex_lock_libre(c) => manejador' = manejador
    BY DEF mutex_lock_libre
  <2>3. mutex_lock_ocupado(c) => manejador'[c].pc = "avisar"
    BY <1>3 DEF mutex_lock_ocupado, Sigue
  <2>4. mutex_unlock(c) => manejador' = manejador \/ manejador'[c].pc = "despertar"
    BY <1>3 DEF mutex_unlock, Sigue
  <2> QED BY <1>1, <1>4, <2>1, <2>2, <2>3, <2>4
<1>5. ~\E d \in CPUs : mutex_lock_libre(d) \/ mutex_lock_ocupado(d) \/ mutex_unlock(d)
  BY <1>2, <1>4
<1> QED BY <1>5, MarcoPrioridad

-----------------------------------------------------------------------------
(* The invariant of the wait queues.                                        *)

InvarianteDeEsperas ==
  /\ InvarianteDePosesiones /\ SoloCreados /\ SinAdelantos
  /\ SinCaidas => Poseidos /\ Soltados
  /\ SinDesconexiones => NoPideLoSuyo
  /\ NadieEsperaLoSuyo /\ ColasSinRepetir /\ UnaCola

\* No mutex exists initially.
LEMMA InitEsperas ==
  ASSUME Init
  PROVE  InvarianteDeEsperas
<1>1. InvarianteDePosesiones
  BY InitPosesiones
<1>2. /\ \A m \in Mutexes : tomador[m] = Nadie /\ cola[m] = << >>
      /\ \A c \in CPUs : deCpu[c] = << >> /\ cpu[c].modo = "desconectada"
      /\ SinAdelantos
  BY DEF Init, CPUEn, SinAdelantos
<1>3. \A p, m : m \in Mutexes => ~EnCola(p, m)
  BY <1>2 DEF EnCola, Contains
<1>4. \A p \in Procesos : Nadie # p
  BY TablasAssumption
<1>5. \A c \in CPUs : \A s, p, m : ~SePide(c, s, p, m) /\ ~EnLlamada(c, s, p, m)
  BY <1>2 DEF SePide, EnLlamada
<1>6. SoloCreados /\ Poseidos /\ Soltados /\ NoPideLoSuyo
  BY <1>2, <1>3, <1>4, <1>5 DEF SoloCreados, Poseidos, Soltados, NoPideLoSuyo
<1>7. NadieEsperaLoSuyo /\ UnaCola
  BY <1>3 DEF NadieEsperaLoSuyo, UnaCola
<1>8. ColasSinRepetir
  BY <1>2 DEF ColasSinRepetir, SinRepetir
<1> QED BY <1>1, <1>2, <1>6, <1>7, <1>8 DEF InvarianteDeEsperas

\* Nobody is in two places, so nobody is in two queues.
LEMMA UnaColaPorSitio ==
  ASSUME CadaUnoEnSuSitio
  PROVE  UnaCola
<1> SUFFICES ASSUME NEW p \in Procesos, NEW m \in Mutexes, NEW n \in Mutexes, EnCola(p, m), EnCola(p, n)
             PROVE  m = n
  BY DEF UnaCola
<1>1. UnSitio(p)
  BY DEF CadaUnoEnSuSitio
<1>2. EnSitio(p, "cola", m) /\ EnSitio(p, "cola", n)
  BY DEF EnSitio
<1> QED BY <1>1, <1>2 DEF UnSitio

\* Every step keeps it, with one CPU and programs that lock and unlock in order.
LEMMA PasoEsperas ==
  ASSUME ProgramasCorrectos, ConUnaCPU, InvarianteDeEsperas, [Next]_vars
  PROVE  InvarianteDeEsperas'
<1>1. /\ InvarianteDePosesiones /\ Bien /\ LibreSinEsperas /\ CaidasYConexiones
      /\ SoloCreados /\ NadieEsperaLoSuyo /\ ColasSinRepetir /\ UnaCola
  BY DEF InvarianteDeEsperas, InvarianteDePosesiones, InvariantePlanificador
<1>2. InvarianteDePosesiones'
  BY <1>1, PasoInvarianteDePosesiones
<1>3. SoloCreados'
  BY <1>1, PasoCreados
<1>7. SinAdelantos /\ SinAdelantos'
  BY UnaCPUSinAdelantos DEF InvarianteDeEsperas
<1>4. CaidasYConexiones' /\ (SinCaidas' => SinCaidas) /\ (SinDesconexiones' => Sitios')
  <2>1. InvariantePlanificador'
    BY <1>2 DEF InvarianteDePosesiones
  <2>2. Lugares'
    BY <2>1 DEF InvariantePlanificador
  <2> QED BY <1>1, <1>7, <2>2, CaidasQuedan DEF Lugares, Ordenado
<1>5. CASE ~SinDesconexiones'
  <2>1. tomador' = tomador /\ cola' = cola
    BY <1>1, <1>5, ParadosSinMutex
  <2>2. ~SinCaidas'
    BY <1>4, <1>5 DEF CaidasYConexiones, SinCaidas, SinDesconexiones
  <2>3. NadieEsperaLoSuyo'
    BY <1>1, <2>1 DEF NadieEsperaLoSuyo, EnCola
  <2>4. ColasSinRepetir' /\ UnaCola'
    BY <1>1, <2>1 DEF ColasSinRepetir, UnaCola, EnCola
  <2> QED BY <1>2, <1>3, <1>5, <1>7, <2>2, <2>3, <2>4 DEF InvarianteDeEsperas
<1>6. CASE SinDesconexiones'
  <2>1. SinDesconexiones
    BY <1>1, <1>6, DesconectadoQueda
  <2>2. TurnoCPU /\ CadaUnoEnSuSitio /\ FdDeQuienLoTiene /\ Avisos /\ NoPideLoSuyo
    BY <1>1, <1>7, <2>1 DEF InvarianteDeEsperas, InvarianteDePosesiones, InvariantePlanificador, Lugares,
       Sitios, Ordenado
  <2>3. FdDeLocks
    BY <1>1, <2>2, LocksDesdeSuCPU
  <2>4. ColasSinRepetir' /\ UnaCola'
    <3>1. Sitios'
      BY <1>4, <1>6
    <3>2. UnaCola'
      <4>1. CadaUnoEnSuSitio'
        BY <3>1 DEF Sitios
      <4>2. CadaUnoEnSuSitio' => UnaCola'
        BY UnaColaPorSitio, PTL
      <4> QED BY <4>1, <4>2
    <3> QED BY <3>1, <3>2 DEF Sitios
  <2>5. NadieEsperaLoSuyo'
    BY <1>1, <2>2, PasoNadieEspera
  <2>6. ASSUME NEW c \in CPUs, ModuloCPU(c) \/ caer(c)
        PROVE  /\ NoPideLoSuyo' /\ (SinCaidas' => Poseidos' /\ Soltados')
    <3>1. /\ \A d \in CPUs : d = c
          /\ SinCaidas
      <4>1. \A d \in CPUs : d = c
        BY DEF ConUnaCPU
      <4> QED BY <2>6, <4>1, ModuloVivo DEF SinCaidas
    <3>2. Posesiones /\ Poseidos /\ Soltados
      BY <1>1, <1>7, <3>1 DEF InvarianteDeEsperas, InvarianteDePosesiones
    <3>3. CASE cpu'[c].modo = "caida"
      <4>1. deCpu' = deCpu /\ tomador' = tomador
        BY <1>1, <2>6, <3>3, CaidaSinPedir, ModuloSinMutex
      <4>2. NoPideLoSuyo'
        BY <2>2, <4>1 DEF NoPideLoSuyo, SePide
      <4> QED BY <3>3, <4>2 DEF SinCaidas
    <3>4. CASE cpu'[c].modo # "caida"
      <4>1. ModuloCPU(c)
        BY <1>1, <2>6, <3>4, CaidaTermina
      <4> QED BY <1>1, <2>2, <3>2, <3>4, <4>1, ModuloEsperas
    <3> QED BY <3>3, <3>4
  <2>7. ASSUME \A c \in CPUs : ~ModuloCPU(c) /\ ~caer(c)
        PROVE  NoPideLoSuyo' /\ (SinCaidas' => Poseidos' /\ Soltados')
    <3>1. NoPideLoSuyo'
      BY <1>1, <2>2, <2>7, ManejadorNoPide
    <3>2. ASSUME SinCaidas'
          PROVE  Poseidos' /\ Soltados'
      <4>1. SinCaidas
        BY <1>4, <3>2
      <4>2. Poseidos /\ Soltados /\ LosPedidos /\ CompactanPorMemAlloc
        BY <1>1, <1>7, <4>1 DEF InvarianteDeEsperas, InvarianteDePosesiones, Posesiones
      <4>3. Poseidos'
        BY <1>1, <2>2, <2>3, <2>7, <4>2, ManejadorPoseidos
      <4>4. Soltados'
        BY <1>1, <2>2, <2>3, <2>7, <4>2, ManejadorSoltados
      <4> QED BY <4>3, <4>4
    <3> QED BY <3>1, <3>2
  <2>8. NoPideLoSuyo' /\ (SinCaidas' => Poseidos' /\ Soltados')
    BY <2>6, <2>7
  <2> QED BY <1>2, <1>3, <1>7, <2>4, <2>5, <2>8 DEF InvarianteDeEsperas
<1> QED BY <1>5, <1>6

\* The wait queues are sound: with one CPU, and programs that lock what they do not hold and
\* unlock what they hold, a free mutex has no waiters, and a process waits for one mutex at
\* most, once, and is not its owner.
THEOREM EsperasCoherentesSiempre ==
  ASSUME ProgramasCorrectos, ConUnaCPU
  PROVE  Spec => []EsperasCoherentes
<1>1. InvarianteDeEsperas => EsperasCoherentes
  <2>1. ASSUME InvarianteDeEsperas, NEW p \in Procesos, NEW m \in Mutexes, NEW n \in Mutexes,
               Contains(cola[m], p)
        PROVE  /\ Apariciones(cola[m], p) = 1 /\ tomador[m] # p
               /\ Contains(cola[n], p) => m = n
    <3>1. NadieEsperaLoSuyo /\ ColasSinRepetir /\ UnaCola /\ cola \in [Mutexes -> Seq(Procesos)]
      BY <2>1 DEF InvarianteDeEsperas, InvarianteDePosesiones, InvariantePlanificador, Bien, TypeOK
    <3>2. cola[m] \in Seq(Procesos) /\ SinRepetir(cola[m])
      BY <3>1 DEF ColasSinRepetir
    <3>3. Apariciones(cola[m], p) = 1
      BY <2>1, <3>2, AparicionesUnaONinguna DEF Apariciones
    <3> QED BY <2>1, <3>1, <3>3 DEF NadieEsperaLoSuyo, UnaCola, EnCola
  <2>2. InvarianteDeEsperas => LibreSinEsperas
    BY DEF InvarianteDeEsperas, InvarianteDePosesiones
  <2> QED BY <2>1, <2>2 DEF EsperasCoherentes, LibreSinEsperas
<1>2. InvarianteDeEsperas /\ [Next]_vars => InvarianteDeEsperas'
  BY PasoEsperas
<1>3. Init => InvarianteDeEsperas
  BY InitEsperas
<1> QED BY <1>1, <1>2, <1>3, PTL DEF Spec
=============================================================================
