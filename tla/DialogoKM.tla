----------------------------- MODULE DialogoKM -----------------------------
(***************************************************************************)
(* The socket between the Kernel Scheduler and Kernel Memory: the threads  *)
(* of the scheduler that make requests under mutex_km, the thread of       *)
(* Kernel Memory that answers them, the eviction in the middle of a        *)
(* MEM_ALLOC, the notice of a lost Memory Stick that another thread of     *)
(* Kernel Memory writes to the same socket, and the thread of the          *)
(* scheduler that peeks for it (kernel_scheduler/src/funciones_ks.c and    *)
(* kernel_scheduler.c, kernel_memory/src/handlers).                        *)
(*                                                                         *)
(* What Kernel Memory writes is a sequence of words of four bytes, of      *)
(* which the last one of a frame may be short: the header with its length  *)
(* and its body are two sends.  What the scheduler writes is one request   *)
(* with its arguments: they are sent under mutex_km, and Kernel Memory     *)
(* drops as unknown those of a request it did not expect (no PID, segment  *)
(* or size of an instance is the code of a request).  What a request does  *)
(* to the memory is in KernelMemory; here it may have any answer.          *)
(***************************************************************************)
EXTENDS Integers, Sequences

CONSTANTS
  Hilos,            \* threads of the scheduler
  Nadie,
  Pedidos,          \* the requests of each thread, in order
  Textos,           \* bound: what a STDOUT may read of a process: its bytes and its words
  MaxCompactaciones, \* bound: MEM_ALLOC that ask for an eviction
  MaxCaidas         \* bound: Memory Sticks that are lost, at most one

Simples == {"CREAR_PROCESO", "EXIT", "MEM_FREE", "SUSPENDER", "DESUSPENDER"}
Operaciones == Simples \cup {"MEM_ALLOC", "STDIN", "STDOUT"}

Palabras(n) == (n + 3) \div 4

ASSUME DialogoKMAssumption ==
  /\ Nadie \notin Hilos
  /\ Pedidos \in [Hilos -> Seq(Operaciones)]
  /\ \A x \in Textos : x.bytes \in Nat /\ x.palabras \in [1..Palabras(x.bytes) -> Nat]
  /\ MaxCompactaciones \in Nat /\ MaxCaidas \in {0, 1}

\* op_code, and the answer of recibir_mensaje once the other side has closed.
OK == 10
ERROR == 11
MEMORIA_CORRUPTA == 29
SOLICITAR_DESALOJO == 30
SEG_FAULT == 34
SIN_MEMORIA == 44
NULO == -1
TamCodigo == 4

VARIABLES
  hilo,      \* each thread: where it is in its dialogue
  mutexKM,   \* who holds mutex_km
  enCompactacion,
  aKM,       \* socket: requests for Kernel Memory
  deKM,      \* socket: words for the scheduler
  km,        \* the thread of Kernel Memory that serves the scheduler
  cierre,    \* notificar_memoria_corrupta_a_ks: how far it has come
  ks,        \* whether the scheduler runs, or what ended it
  usos,      \* compactions so far
  desvios    \* what has happened that the design does not foresee

\* The values of desvios: "desalojo", a request is made while another thread has released
\* mutex_km to evict; "largo", a frame has as many bytes as the code of the notice; "cuerpo",
\* the text of a STDOUT, which is memory of the process, has that code as one of its words;
\* "cierre", the socket is closed under a recv that sleeps, in the middle of a dialogue.
vars == <<hilo, mutexKM, enCompactacion, aKM, deKM, km, cierre, ks, usos, desvios>>
SoloHilo == UNCHANGED <<km, cierre, usos>>
\* Everything goes on until something ends the scheduler.
Corre == ks = "corre"

HiloLibre == [pc |-> "libre", linea |-> 1, fase |-> 1, falta |-> 0, valor |-> NULO, compacta |-> FALSE]

Init ==
  /\ hilo = [h \in Hilos |-> HiloLibre]
  /\ mutexKM = Nadie /\ enCompactacion = FALSE
  /\ aKM = <<>> /\ deKM = <<>>
  /\ km = [pc |-> "lee", tras |-> "lee", de |-> Nadie, envio |-> <<>>, dormido |-> FALSE]
  /\ cierre = "no" /\ ks = "corre" /\ usos = 0 /\ desvios = {}

-----------------------------------------------------------------------------
(* The socket.                                                              *)

\* The two sends of enviar_mensaje: each one a sequence of words.
Largo(n, de) == <<[t |-> "largo", valor |-> n, de |-> de]>>
Codigo(c, de) == <<Largo(TamCodigo, de), <<[t |-> "cuerpo", valor |-> c, de |-> de]>> >>
Datos(x, de) ==
  <<Largo(x.bytes, de),
    [i \in 1..Palabras(x.bytes) |-> [t |-> "cuerpo", valor |-> x.palabras[i], de |-> de]]>>
\* The parts of a frame, its length or its body, with a word that is the code of the notice.
Confunde(send) == {send[i].t : i \in {j \in 1..Len(send) : send[j].valor = MEMORIA_CORRUPTA}}

\* Kernel Memory closes its end: a recv that is asleep on it keeps the socket open.
Cerrado == cierre = "cerrado" /\ ~km.dormido
\* The scheduler reads the end of the stream.
Fin == Cerrado /\ deKM = <<>>
\* What is sent to a socket closed on the other side is lost, or the signal ends the scheduler.
Envia(pedido) ==
  \/ aKM' = (IF Cerrado THEN aKM ELSE Append(aKM, pedido)) /\ ks' = ks
  \/ Cerrado /\ ks' = "SIGPIPE" /\ aKM' = aKM

-----------------------------------------------------------------------------
(* The threads of the scheduler.                                            *)

Operacion(h) == Pedidos[h][hilo[h].linea]
EnDesalojo(h) == hilo[h].pc \in {"desalojo", "vuelve"}
Leyendo(h) == hilo[h].pc \in {"largo", "cuerpo"}

\* km_crear_proceso, km_notificar_exit, km_mem_alloc, km_mem_free, km_suspender_proceso,
\* km_desuspender_proceso, atender_stdin_ks and atender_stdout_ks begin alike.
pedir(h) ==
  /\ Corre /\ hilo[h].pc = "libre" /\ hilo[h].linea \in DOMAIN Pedidos[h]
  /\ mutexKM = Nadie /\ mutexKM' = h
  /\ Envia([op |-> Operacion(h), de |-> h])
  /\ hilo' = [hilo EXCEPT ![h].pc = "largo", ![h].fase = 1]
  /\ desvios' = IF \E g \in Hilos : EnDesalojo(g) THEN desvios \cup {"desalojo"} ELSE desvios
  /\ SoloHilo /\ UNCHANGED <<deKM, enCompactacion>>

\* The request of the thread is over, whatever the answer.
Terminado(h) == [HiloLibre EXCEPT !.linea = hilo[h].linea + 1]

\* Mutation: the content of a STDOUT is read after mutex_km is released.
recibido_sueltaEntreTramas(h, valor) ==
  IF Operacion(h) = "MEM_ALLOC" /\ valor = SOLICITAR_DESALOJO
  THEN /\ mutexKM' = Nadie /\ enCompactacion' = TRUE
       /\ hilo' = [hilo EXCEPT ![h].pc = "desalojo", ![h].compacta = TRUE]
  ELSE IF Operacion(h) = "STDOUT" /\ hilo[h].fase = 1 /\ valor = OK
  THEN /\ hilo' = [hilo EXCEPT ![h].pc = "largo", ![h].fase = 2]
       /\ mutexKM' = Nadie /\ UNCHANGED enCompactacion
  ELSE /\ mutexKM' = (IF mutexKM = h THEN Nadie ELSE mutexKM) /\ hilo' = [hilo EXCEPT ![h] = Terminado(h)]
       /\ enCompactacion' = (enCompactacion /\ ~hilo[h].compacta)
\* Mutation: mutex_km is held while the CPUs are evicted.
recibido_noSuelta(h, valor) ==
  IF Operacion(h) = "MEM_ALLOC" /\ valor = SOLICITAR_DESALOJO
  THEN /\ mutexKM' = mutexKM /\ enCompactacion' = TRUE
       /\ hilo' = [hilo EXCEPT ![h].pc = "desalojo", ![h].compacta = TRUE]
  ELSE IF Operacion(h) = "STDOUT" /\ hilo[h].fase = 1 /\ valor = OK
  THEN hilo' = [hilo EXCEPT ![h].pc = "largo", ![h].fase = 2] /\ UNCHANGED <<mutexKM, enCompactacion>>
  ELSE /\ mutexKM' = Nadie /\ hilo' = [hilo EXCEPT ![h] = Terminado(h)]
       /\ enCompactacion' = (enCompactacion /\ ~hilo[h].compacta)
\* A message has come, NULO if the stream ended.  MEM_ALLOC releases mutex_km to evict, a
\* STDOUT that went well reads one more frame.
recibido(h, valor) ==
  IF Operacion(h) = "MEM_ALLOC" /\ valor = SOLICITAR_DESALOJO
  THEN /\ mutexKM' = Nadie /\ enCompactacion' = TRUE
       /\ hilo' = [hilo EXCEPT ![h].pc = "desalojo", ![h].compacta = TRUE]
  ELSE IF Operacion(h) = "STDOUT" /\ hilo[h].fase = 1 /\ valor = OK
  THEN hilo' = [hilo EXCEPT ![h].pc = "largo", ![h].fase = 2] /\ UNCHANGED <<mutexKM, enCompactacion>>
  ELSE /\ mutexKM' = Nadie /\ hilo' = [hilo EXCEPT ![h] = Terminado(h)]
       /\ enCompactacion' = (enCompactacion /\ ~hilo[h].compacta)

\* recibir_mensaje: the length, and then as many words, or those that were left.
leerLargo(h) ==
  /\ Corre /\ hilo[h].pc = "largo"
  /\ \/ /\ deKM # <<>>
        /\ hilo' = [hilo EXCEPT ![h].pc = "cuerpo", ![h].falta = Palabras(Head(deKM).valor),
                                ![h].valor = NULO]
        /\ deKM' = Tail(deKM) /\ UNCHANGED <<mutexKM, enCompactacion>>
     \/ Fin /\ recibido(h, NULO) /\ UNCHANGED deKM
  /\ SoloHilo /\ UNCHANGED <<aKM, ks, desvios>>

leerCuerpo(h) ==
  /\ Corre /\ hilo[h].pc = "cuerpo"
  /\ \/ /\ hilo[h].falta > 0 /\ deKM # <<>>
        /\ hilo' = [hilo EXCEPT ![h].falta = @ - 1,
                                ![h].valor = IF @ = NULO THEN Head(deKM).valor ELSE @]
        /\ deKM' = Tail(deKM) /\ UNCHANGED <<mutexKM, enCompactacion>>
     \/ (hilo[h].falta = 0 \/ Fin) /\ recibido(h, hilo[h].valor) /\ UNCHANGED deKM
  /\ SoloHilo /\ UNCHANGED <<aKM, ks, desvios>>

\* The last confirmation has come, and MSG_DESALOJO_REALIZADO goes under mutex_km.
manejar_solicitud_desalojo(h) ==
  /\ Corre /\ hilo[h].pc = "desalojo" /\ mutexKM = Nadie
  /\ Envia([op |-> "DESALOJO_REALIZADO", de |-> h])
  /\ hilo' = [hilo EXCEPT ![h].pc = "vuelve"]
  /\ SoloHilo /\ UNCHANGED <<mutexKM, enCompactacion, deKM, desvios>>

\* lock again, and km_mem_alloc waits for the answer that comes after the compaction.
seguirEsperando(h) ==
  /\ Corre /\ hilo[h].pc = "vuelve" /\ mutexKM = Nadie /\ mutexKM' = h
  /\ hilo' = [hilo EXCEPT ![h].pc = "largo"]
  /\ SoloHilo /\ UNCHANGED <<enCompactacion, aKM, deKM, ks, desvios>>

Hilo(h) ==
  \/ pedir(h) \/ leerLargo(h) \/ leerCuerpo(h)
  \/ manejar_solicitud_desalojo(h) \/ seguirEsperando(h)

\* The thread that looks at the first word nobody has read: the notice has no header.
\* Mutation: an empty socket is taken for a closed one.
hilo_monitor_km_sinErrno ==
  /\ Corre /\ (deKM = <<>> \/ Head(deKM).valor = MEMORIA_CORRUPTA)
  /\ ks' = "BSOD"
  /\ SoloHilo /\ UNCHANGED <<hilo, mutexKM, enCompactacion, aKM, deKM, desvios>>
\* bsod ends the scheduler with all of its processes.
hilo_monitor_km ==
  /\ Corre /\ (Fin \/ (deKM # <<>> /\ Head(deKM).valor = MEMORIA_CORRUPTA))
  /\ ks' = "BSOD"
  /\ SoloHilo /\ UNCHANGED <<hilo, mutexKM, enCompactacion, aKM, deKM, desvios>>

-----------------------------------------------------------------------------
(* Kernel Memory.                                                           *)

SoloKM == UNCHANGED <<hilo, mutexKM, enCompactacion, cierre, ks>>
\* The answers a request may have, each the sends it takes.
Respuestas(op, de) ==
  CASE op \in Simples -> {Codigo(OK, de), Codigo(ERROR, de)}
    [] op = "MEM_ALLOC" -> {Codigo(OK, de), Codigo(SIN_MEMORIA, de), Codigo(ERROR, de)}
    [] op = "STDIN" -> {Codigo(OK, de), Codigo(SEG_FAULT, de), Codigo(ERROR, de)}
    [] op = "STDOUT" -> {Codigo(SEG_FAULT, de), Codigo(ERROR, de)}
                          \cup {Codigo(OK, de) \o Datos(x, de) : x \in Textos}

\* The thread reads the next request, in its loop or in the middle of a MEM_ALLOC.
Recibe(pc) == Corre /\ km.pc = pc /\ cierre # "cerrado" /\ aKM # <<>> /\ aKM' = Tail(aKM)
Responde(de, envio, tras) ==
  km' = [km EXCEPT !.pc = "escribe", !.tras = tras, !.de = de, !.envio = envio]

atender_kernel_scheduler ==
  LET pedido == Head(aKM) IN
  /\ Recibe("lee")
  /\ IF pedido.op \in Operaciones
     THEN \E envio \in Respuestas(pedido.op, pedido.de) : Responde(pedido.de, envio, "lee")
     ELSE UNCHANGED km
  /\ SoloKM /\ UNCHANGED <<deKM, usos, desvios>>

solicitar_desalojo_por_compactacion ==
  LET pedido == Head(aKM) IN
  /\ Recibe("lee") /\ pedido.op = "MEM_ALLOC" /\ usos < MaxCompactaciones
  /\ Responde(pedido.de, Codigo(SOLICITAR_DESALOJO, pedido.de), "espera")
  /\ usos' = usos + 1
  /\ SoloKM /\ UNCHANGED <<deKM, desvios>>

\* Anything else than the confirmation fails the MEM_ALLOC, whoever sent it.
atender_creacion_segmento ==
  /\ Recibe("espera")
  /\ \E envio \in IF Head(aKM).op = "DESALOJO_REALIZADO" THEN Respuestas("MEM_ALLOC", km.de)
                  ELSE {Codigo(ERROR, km.de)} :
       Responde(km.de, envio, "lee")
  /\ SoloKM /\ UNCHANGED <<deKM, usos, desvios>>

\* One send of enviar_mensaje; there is nobody to read it once the socket is closed.
enviar_mensaje ==
  /\ Corre /\ km.pc = "escribe"
  /\ IF km.envio = <<>>
     THEN km' = [km EXCEPT !.pc = km.tras] /\ UNCHANGED <<deKM, desvios>>
     ELSE /\ km' = [km EXCEPT !.envio = Tail(@)]
          /\ deKM' = IF cierre = "cerrado" THEN deKM ELSE deKM \o Head(km.envio)
          /\ desvios' = desvios \cup Confunde(Head(km.envio))
  /\ SoloKM /\ UNCHANGED <<aKM, usos>>

\* recv on a closed descriptor fails, and so does the second one of recibir_mensaje.
terminar ==
  /\ Corre /\ km.pc \in {"lee", "espera"} /\ cierre = "cerrado" /\ (km.dormido => aKM # <<>>)
  /\ km' = [km EXCEPT !.pc = "fin", !.dormido = FALSE]
  /\ SoloKM /\ UNCHANGED <<aKM, deKM, usos, desvios>>

Manejador ==
  \/ atender_kernel_scheduler \/ solicitar_desalojo_por_compactacion
  \/ atender_creacion_segmento \/ enviar_mensaje \/ terminar

\* A Memory Stick disconnects and its thread tells the scheduler: a word, without a header.
perderStick ==
  /\ Corre /\ cierre = "no" /\ MaxCaidas = 1
  /\ cierre' = "envia"
  /\ UNCHANGED <<hilo, mutexKM, enCompactacion, aKM, deKM, km, ks, usos, desvios>>
notificar_memoria_corrupta_a_ks ==
  /\ Corre /\ cierre = "envia"
  /\ deKM' = Append(deKM, [t |-> "aviso", valor |-> MEMORIA_CORRUPTA, de |-> Nadie])
  /\ cierre' = "cierra"
  /\ UNCHANGED <<hilo, mutexKM, enCompactacion, aKM, km, ks, usos, desvios>>
\* Mutation: the socket stays open.
cerrar_nada ==
  /\ Corre /\ cierre = "cierra" /\ cierre' = "abierto"
  /\ UNCHANGED <<hilo, mutexKM, enCompactacion, aKM, deKM, km, ks, usos, desvios>>
\* close, with the other thread asleep in its recv or not: it may have answered a request
\* since the notice was sent, and whoever reads the notice as a length waits for more.
cerrar ==
  /\ Corre /\ cierre = "cierra" /\ cierre' = "cerrado"
  /\ \E dormido \in BOOLEAN :
       /\ dormido => km.pc \in {"lee", "espera"} /\ aKM = <<>>
       /\ km' = [km EXCEPT !.dormido = dormido]
       /\ desvios' = IF dormido /\ (\E h \in Hilos : hilo[h].pc # "libre")
                    THEN desvios \cup {"cierre"} ELSE desvios
  /\ UNCHANGED <<hilo, mutexKM, enCompactacion, aKM, deKM, ks, usos>>

Notificador == notificar_memoria_corrupta_a_ks \/ cerrar

-----------------------------------------------------------------------------
Next ==
  \/ \E h \in Hilos : Hilo(h)
  \/ hilo_monitor_km
  \/ Manejador
  \/ perderStick \/ Notificador

\* Every thread goes on; no stick has to fail.
Justicia ==
  /\ \A h \in Hilos : WF_vars(Hilo(h))
  /\ WF_vars(hilo_monitor_km) /\ WF_vars(Manejador) /\ WF_vars(Notificador)

Spec == Init /\ [][Next]_vars
EspecificacionJusta == Spec /\ Justicia

-----------------------------------------------------------------------------
(* Properties.                                                              *)

Corrupta == cierre # "no"
Terminaron == \A h \in Hilos : hilo[h].linea \notin DOMAIN Pedidos[h]

\* Unless somebody made a request while mutex_km was released for an eviction, a thread
\* reads the answer to what it asked for, and no part of the answer to another.
RespuestaPropia ==
  "desalojo" \notin desvios /\ ~Corrupta =>
    \A h \in Hilos : Leyendo(h) /\ deKM # <<>> => Head(deKM).de = h

\* A text of as many bytes as the code of the notice, or with a word that is that code: the
\* monitor may peek the one before the reader has its length, the other between the two recv.
TextosAviso == {"largo", "cuerpo"}

\* The scheduler only ends if a stick was lost or the text of a STDOUT looked like the
\* notice: no code of an answer, no other length and no empty socket is taken for it.
BSODSoloPorCorrupcion == ~Corre => Corrupta \/ desvios \cap TextosAviso # {}

\* Unless somebody asked during an eviction or the socket was closed under a sleeping recv,
\* every request is answered or the scheduler ends: nobody keeps mutex_km for ever, and the
\* dispatcher is let go after a compaction.
PedidosTerminan ==
  [](desvios \subseteq TextosAviso)
    => /\ \A h \in Hilos : hilo[h].pc # "libre" ~> hilo[h].pc = "libre" \/ ~Corre
       /\ enCompactacion ~> ~enCompactacion \/ ~Corre

\* With the same reserve, a lost stick ends the scheduler whoever reads the notice, unless
\* there is nothing left to run.
CorrupcionTerminaKS ==
  [](desvios \subseteq TextosAviso) => (Corrupta ~> ~Corre \/ Terminaron)
=============================================================================
