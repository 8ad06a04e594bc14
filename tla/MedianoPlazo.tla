---------------------------- MODULE MedianoPlazo ----------------------------
(***************************************************************************)
(* Mid-term scheduling in the Kernel Scheduler: the threads of the         *)
(* blocking IO with the pools of devices, the timers that suspend a        *)
(* blocked process, and the passes that resume the suspended ones          *)
(* (kernel_scheduler/src/funciones_ks.c), over what Kernel Memory keeps of *)
(* each process.                                                           *)
(*                                                                         *)
(* A step is one critical section over mutex_listas with the sem_post that *)
(* follows it, one wait on a semaphore, one exchange with a device, or one *)
(* dialogue with Kernel Memory (mutex_km).  A process asks for one segment *)
(* at most, so Kernel Memory brings all of it back or nothing.  A device   *)
(* that disconnects counts as one that answers at once, as it does for the *)
(* threads.  The dispatcher and the CPUs are those of Planificador, cut    *)
(* down to which processes are being run; which CPU the answer of a        *)
(* MUTEX_LOCK that blocks reaches is there, and not here.                  *)
(***************************************************************************)
EXTENDS Tablas, FiniteSets

CONSTANTS
  Tipos,         \* the calls that use a device: subset of SLEEP, STDIN, STDOUT
  Dispositivos,  \* number of IO modules of each type
  Tam,           \* size of the segment each program asks for
  Capacidad,     \* bytes of user memory
  Reintentos,    \* REINTENTOS_DESUSPENSION_IO
  Programa,      \* the system calls of each program, in order
  MaxFallas,     \* bound: suspensions Kernel Memory fails
  MaxSegFault,   \* bound: STDIN and STDOUT that leave the segment
  MaxPasadas,    \* bound: passes of intentar_desuspender_procesos at a time
  MaxCarreras    \* bound: kinds of race between two sections in one behaviour

ASSUME MedianoPlazoAssumption ==
  /\ Procesos \subseteq Nat /\ IsFiniteSet(Procesos)
  /\ Tipos \subseteq {"SLEEP", "STDIN", "STDOUT"}
  /\ Programa \in
       [Procesos -> Seq(Tipos \cup {"MEM_ALLOC", "MEM_FREE", "MUTEX_LOCK", "MUTEX_UNLOCK", "EXIT"})]
  /\ Dispositivos \in [Tipos -> Nat \ {0}]
  /\ Tam \in [Procesos -> Nat] /\ Capacidad \in Nat
  /\ \A p \in Procesos : Tam[p] <= Capacidad
  /\ Reintentos \in Nat \ {0} /\ MaxPasadas \in Nat \ {0}
  /\ MaxFallas \in Nat /\ MaxSegFault \in Nat
  /\ MaxCarreras \in Nat

VARIABLES
  t,         \* the tables under mutex_listas
  km,        \* Kernel Memory: processes by where their segment is
  libres,    \* listaIOsLibres, by type
  sem,       \* sem_hay_sleep_libre, sem_hay_stdin_libre, sem_hay_stdout_libre
  hilo,      \* the thread that serves the last blocking call of each process
  timers,    \* number of timer_suspension threads of each PID at each stage
  pasadas,   \* the passes of intentar_desuspender_procesos in progress
  corre,     \* processes a CPU is running
  tomador,   \* pid_tomador of the mutex
  cola,      \* cola_bloqueados of the mutex
  bloqueando, \* handlers that have queued the process there and have yet to put it in BLOCK
  linea,     \* the next call of each program
  fallas,    \* suspensions failed and accesses out of the segment so far
  desvios    \* what has happened that the design does not foresee

enKS == <<t, hilo, timers, pasadas>>
enIO == <<libres, sem>>
enMutex == <<tomador, cola, bloqueando>>
enPrograma == <<corre, enMutex, linea>>
vars == <<enKS, km, enIO, enPrograma, fallas, desvios>>

Etapas == {"dormido", "visto", "pedido", "hecho"}
HiloLibre == [pc |-> "ninguno", tipo |-> Nadie, intentos |-> 0]
PasadaLibre == [pc |-> "libre", cand |-> <<>>]
Carreras == {"timer", "pasada"}

\* The processes, created one after the other, are READY.
ColasIniciales ==
  {listos \in [Colas -> SetToAllKPermutations(Procesos)] :
     \A k \in Colas :
       /\ ToSet(listos[k]) = {p \in Procesos : Algoritmo = "CMN" => PrioridadOriginal[p] = k}
       /\ \A i, j \in DOMAIN listos[k] : i < j => listos[k][i] < listos[k][j]}

Init ==
  /\ \E listos \in ColasIniciales :
     t = [ estado    |-> [p \in Procesos |-> "READY"],
           prioridad |-> PrioridadOriginal,
           fdCpu     |-> [p \in Procesos |-> Nadie],
           orden     |-> [p \in Procesos |-> 0],
           enSwap    |-> [p \in Procesos |-> FALSE],
           listas    |-> [l \in ConLista |-> <<>>],
           ready     |-> listos,
           reloj     |-> 0 ]
  /\ km = [mem |-> {}, swap |-> {}, perdidos |-> {}, muertos |-> {}]
  /\ libres = [d \in Tipos |-> 0] /\ sem = [d \in Tipos |-> 0]
  /\ hilo = [p \in Procesos |-> HiloLibre]
  /\ timers = [p \in Procesos |-> [e \in Etapas |-> 0]]
  /\ pasadas = [i \in 1..MaxPasadas |-> PasadaLibre]
  /\ corre = {} /\ tomador = Nadie /\ cola = <<>> /\ bloqueando = [p \in Procesos |-> 0]
  /\ linea = [p \in Procesos |-> 1]
  /\ fallas = [suspension |-> 0, segFault |-> 0]
  /\ desvios = {}

-----------------------------------------------------------------------------
(* Kernel Memory: what a dialogue does with the segment of p.               *)

Ocupado == FoldSet(LAMBDA p, n : n + Tam[p], 0, km.mem \cup km.perdidos)
Cabe(p) == Ocupado + Tam[p] <= Capacidad
Acepta(p) == p \notin km.muertos /\ (p \in km.swap => Cabe(p))
Traida(p) == IF p \in km.swap THEN [km EXCEPT !.mem = @ \cup {p}, !.swap = @ \ {p}] ELSE km
Bajada(p) == IF p \in km.mem THEN [km EXCEPT !.mem = @ \ {p}, !.swap = @ \cup {p}] ELSE km
Destruida(p) == [km EXCEPT !.mem = @ \ {p}, !.swap = @ \ {p}, !.muertos = @ \cup {p}]

-----------------------------------------------------------------------------
(* Helpers of the scheduler.                                                *)

Hilo(p, pc) == hilo' = [hilo EXCEPT ![p].pc = pc]
HiloTermina(p) == hilo' = [hilo EXCEPT ![p] = HiloLibre]
\* A thread acts on a state that is not the one it read, or resumes a process out of turn.
\* The values: "timer", a suspension of a process that was not in BLOCK any more; "pasada",
\* one pass resumes what another one had resumed; "asegurar", an IO that ends on a suspended
\* process; "mutex", a suspended waiter is woken up; "bloqueo", the waiter is woken up before
\* the handler of its MUTEX_LOCK puts it in BLOCK.
Desvio(hubo, cual) ==
  /\ desvios' = IF hubo THEN desvios \cup {cual} ELSE desvios
  /\ Cardinality(desvios' \cap Carreras) <= MaxCarreras

Pasar(p, nuevo) == t' = actualizarEstado(t, p, nuevo)

\* Entering BLOCK starts one more timer of suspension.
Bloquear(p) ==
  /\ Pasar(p, "BLOCK")
  /\ timers' = IF t.estado[p] = "EXIT" THEN timers ELSE [timers EXCEPT ![p]["dormido"] = @ + 1]

LugaresLibres == {i \in DOMAIN pasadas : pasadas[i].pc = "libre"}
\* The thread goes on to run intentar_desuspender_procesos.
EmpezarPasada ==
  /\ LugaresLibres # {}
  /\ pasadas' = [pasadas EXCEPT ![Min(LugaresLibres)].pc = "reunir"]

-----------------------------------------------------------------------------
(* IO modules and their pools.                                              *)

identificar_io_ks(d) ==
  /\ libres[d] + Cardinality({p \in Procesos : hilo[p].pc = "usa" /\ hilo[p].tipo = d})
       < Dispositivos[d]
  /\ libres' = [libres EXCEPT ![d] = @ + 1] /\ sem' = [sem EXCEPT ![d] = @ + 1]
  /\ UNCHANGED <<enKS, km, enPrograma, fallas, desvios>>

\* sem_wait on the semaphore of the type.
esperarIO(p) ==
  LET d == hilo[p].tipo IN
  /\ hilo[p].pc = "espera" /\ sem[d] > 0
  /\ sem' = [sem EXCEPT ![d] = @ - 1]
  /\ Hilo(p, "saca")
  /\ UNCHANGED <<t, timers, pasadas, km, libres, enPrograma, fallas, desvios>>

\* sacar_io_libre_por_tipo, and the order to the module.
sacar_io_libre_por_tipo(p) ==
  LET d == hilo[p].tipo IN
  /\ hilo[p].pc = "saca" /\ libres[d] > 0
  /\ libres' = [libres EXCEPT ![d] = @ - 1]
  /\ Hilo(p, "usa")
  /\ UNCHANGED <<t, timers, pasadas, km, sem, enPrograma, fallas, desvios>>

\* Mutation: the semaphore is posted for every type.
liberar_io_todos(p) ==
  /\ hilo[p].pc = "usa"
  /\ libres' = [libres EXCEPT ![hilo[p].tipo] = @ + 1]
  /\ sem' = [d \in Tipos |-> sem[d] + 1]
  /\ Hilo(p, IF hilo[p].tipo = "STDIN" THEN "asegurar" ELSE "fin")
  /\ UNCHANGED <<t, timers, pasadas, km, enPrograma, fallas, desvios>>

\* The module answers, and liberar_io puts it back in the list.
liberar_io(p) ==
  LET d == hilo[p].tipo IN
  /\ hilo[p].pc = "usa"
  /\ libres' = [libres EXCEPT ![d] = @ + 1] /\ sem' = [sem EXCEPT ![d] = @ + 1]
  /\ Hilo(p, IF d = "STDIN" THEN "asegurar" ELSE "fin")
  /\ UNCHANGED <<t, timers, pasadas, km, enPrograma, fallas, desvios>>

-----------------------------------------------------------------------------
(* The threads of SLEEP, STDIN and STDOUT.                                  *)

\* The process is blocked after its CPU was freed; STDOUT reads the memory first.
bloquear(p) ==
  /\ hilo[p].pc = "inicio"
  /\ Bloquear(p)
  /\ Hilo(p, IF hilo[p].tipo = "STDOUT" THEN "asegurar" ELSE "espera")
  /\ UNCHANGED <<pasadas, km, enIO, enPrograma, fallas, desvios>>

asegurar_proceso_en_memoria(p) ==
  /\ hilo[p].pc = "asegurar"
  /\ Hilo(p, IF t.estado[p] \in {"SUSP_BLOCK", "SUSP_READY"} THEN "traer" ELSE "km")
  /\ UNCHANGED <<t, timers, pasadas, km, enIO, enPrograma, fallas, desvios>>

\* One of the tries: refused for the last time, the IO ends without the access.
traer(p) ==
  /\ hilo[p].pc = "traer"
  /\ IF Acepta(p)
     THEN km' = Traida(p) /\ Hilo(p, "traido")
     ELSE /\ km' = km
          /\ hilo' = [hilo EXCEPT ![p].intentos = @ + 1,
                                  ![p].pc = IF hilo[p].intentos + 1 = Reintentos THEN "fin" ELSE @]
  /\ UNCHANGED <<t, timers, pasadas, enIO, enPrograma, fallas, desvios>>

\* Mutation: a process that is back in memory becomes READY, as in a resumption.
traido_aReady(p) ==
  /\ hilo[p].pc = "traido"
  /\ Pasar(p, "READY")
  /\ Hilo(p, "km")
  /\ Desvio(TRUE, "asegurar")
  /\ UNCHANGED <<timers, pasadas, km, enIO, enPrograma, fallas>>
\* Back to BLOCK, with a timer of its own and en_swap as it was.
traido(p) ==
  /\ hilo[p].pc = "traido"
  /\ Bloquear(p)
  /\ Hilo(p, "km")
  /\ Desvio(TRUE, "asegurar")
  /\ UNCHANGED <<pasadas, km, enIO, enPrograma, fallas>>

\* MSG_STDIN and MSG_STDOUT: Kernel Memory resumes the process if it has to.
accederMemoria(p) ==
  /\ hilo[p].pc = "km"
  /\ km' = IF Acepta(p) THEN Traida(p) ELSE km
  /\ \/ Hilo(p, IF hilo[p].tipo = "STDOUT" THEN "espera" ELSE "fin") /\ fallas' = fallas
     \/ /\ p \in km'.mem /\ fallas.segFault < MaxSegFault
        /\ fallas' = [fallas EXCEPT !.segFault = @ + 1]
        /\ Hilo(p, "exitKM")
  /\ UNCHANGED <<t, timers, pasadas, enIO, enPrograma, desvios>>

\* Mutation: SUSP_BLOCK is not told from BLOCK.
finalizar_io_siempreReady(p) ==
  /\ hilo[p].pc = "fin"
  /\ Hilo(p, "aReady")
  /\ UNCHANGED <<t, timers, pasadas, km, enIO, enPrograma, fallas, desvios>>
\* finalizar_io_y_desbloquear reads the state in one section...
finalizar_io(p) ==
  /\ hilo[p].pc = "fin"
  /\ Hilo(p, IF t.estado[p] = "SUSP_BLOCK" THEN "aSuspReady" ELSE "aReady")
  /\ UNCHANGED <<t, timers, pasadas, km, enIO, enPrograma, fallas, desvios>>

\* ...and moves the process in another one.
desbloquearSuspendido(p) ==
  /\ hilo[p].pc = "aSuspReady"
  /\ Pasar(p, "SUSP_READY") /\ HiloTermina(p)
  /\ EmpezarPasada
  /\ UNCHANGED <<timers, km, enIO, enPrograma, fallas, desvios>>

desbloquear(p) ==
  /\ hilo[p].pc = "aReady"
  /\ Pasar(p, "READY") /\ HiloTermina(p)
  /\ UNCHANGED <<timers, pasadas, km, enIO, enPrograma, fallas, desvios>>

\* finalizar_proceso: Kernel Memory first.  No pass follows.
km_notificar_exit(p) ==
  /\ hilo[p].pc = "exitKM"
  /\ km' = Destruida(p) /\ Hilo(p, "exit")
  /\ UNCHANGED <<t, timers, pasadas, enIO, enPrograma, fallas, desvios>>
finalizar_proceso(p) ==
  /\ hilo[p].pc = "exit"
  /\ Pasar(p, "EXIT") /\ HiloTermina(p)
  /\ corre' = corre \ {p}
  /\ UNCHANGED <<timers, pasadas, km, enIO, enMutex, linea, fallas, desvios>>

HiloIO(p) ==
  \/ bloquear(p) \/ esperarIO(p) \/ sacar_io_libre_por_tipo(p) \/ liberar_io(p)
  \/ asegurar_proceso_en_memoria(p) \/ traer(p) \/ traido(p) \/ accederMemoria(p)
  \/ finalizar_io(p) \/ desbloquearSuspendido(p) \/ desbloquear(p)
  \/ km_notificar_exit(p) \/ finalizar_proceso(p)

-----------------------------------------------------------------------------
(* timer_suspension: all it carries is the PID, so it may have been started *)
(* by an earlier wait of the process.                                       *)

TimerEn(p, e) == timers[p][e] > 0
Avanza(p, e, f) == timers' = [timers EXCEPT ![p][e] = @ - 1, ![p][f] = @ + 1]
TimerTermina(p, e) == timers' = [timers EXCEPT ![p][e] = @ - 1]

venceTimer(p) ==
  /\ TimerEn(p, "dormido")
  /\ IF t.estado[p] = "BLOCK" THEN Avanza(p, "dormido", "visto") ELSE TimerTermina(p, "dormido")
  /\ UNCHANGED <<t, hilo, pasadas, km, enIO, enPrograma, fallas, desvios>>

\* The process may have left BLOCK, or the thread of its IO have taken it for blocked.
suspender(p) ==
  /\ TimerEn(p, "visto")
  /\ Pasar(p, "SUSP_BLOCK")
  /\ Avanza(p, "visto", "pedido")
  /\ Desvio(t.estado[p] # "BLOCK" \/ hilo[p].pc = "aReady", "timer")
  /\ UNCHANGED <<hilo, pasadas, km, enIO, enPrograma, fallas>>

\* On a failure the segment is in no table and its bytes stay taken.
km_suspender_proceso(p) ==
  /\ TimerEn(p, "pedido")
  /\ \/ p \notin km.muertos /\ km' = Bajada(p) /\ fallas' = fallas /\ Avanza(p, "pedido", "hecho")
     \/ p \in km.muertos /\ UNCHANGED <<km, fallas>> /\ TimerTermina(p, "pedido")
     \/ /\ p \in km.mem /\ fallas.suspension < MaxFallas
        /\ km' = [km EXCEPT !.mem = @ \ {p}, !.perdidos = @ \cup {p}]
        /\ fallas' = [fallas EXCEPT !.suspension = @ + 1]
        /\ TimerTermina(p, "pedido")
  /\ UNCHANGED <<t, hilo, pasadas, enIO, enPrograma, desvios>>

\* Mutation: a process that is not in SUSP_BLOCK any more is left alone.
marcarEnSwap_soloSuspBlock(p) ==
  /\ TimerEn(p, "hecho") /\ TimerTermina(p, "hecho")
  /\ t' = [t EXCEPT !.enSwap[p] = @ \/ t.estado[p] = "SUSP_BLOCK"]
  /\ UNCHANGED <<hilo, pasadas, km, enIO, enPrograma, fallas, desvios>>
\* en_swap, and the pass the end of the IO could not make.
marcarEnSwap(p) ==
  /\ TimerEn(p, "hecho") /\ TimerTermina(p, "hecho")
  /\ t' = [t EXCEPT !.enSwap[p] = TRUE]
  /\ IF t.estado[p] = "SUSP_READY" THEN EmpezarPasada ELSE pasadas' = pasadas
  /\ UNCHANGED <<hilo, km, enIO, enPrograma, fallas, desvios>>

Timer(p) == venceTimer(p) \/ suspender(p) \/ km_suspender_proceso(p) \/ marcarEnSwap(p)

-----------------------------------------------------------------------------
(* intentar_desuspender_procesos.                                           *)

desuspension_va_primero(p, q) ==
  \/ t.prioridad[p] < t.prioridad[q]
  \/ t.prioridad[p] = t.prioridad[q] /\ t.orden[p] < t.orden[q]

Candidatos == {p \in Procesos : Contains(t.listas["SUSP_READY"], p) /\ t.enSwap[p]}
EnOrden(cand) ==
  \A j, k \in DOMAIN cand : j < k => ~desuspension_va_primero(cand[k], cand[j])
Pasada(i, pc, cand) ==
  pasadas' = [pasadas EXCEPT ![i] = IF cand = <<>> THEN PasadaLibre ELSE [pc |-> pc, cand |-> cand]]

reunirCandidatos(i) ==
  /\ pasadas[i].pc = "reunir"
  /\ \E cand \in SetToSeqs(Candidatos) : EnOrden(cand) /\ Pasada(i, "pedir", cand)
  /\ UNCHANGED <<t, hilo, timers, km, enIO, enPrograma, fallas, desvios>>

km_desuspender_proceso(i) ==
  LET p == Head(pasadas[i].cand) IN
  /\ pasadas[i].pc = "pedir"
  /\ IF Acepta(p)
     THEN km' = Traida(p) /\ Pasada(i, "mover", pasadas[i].cand)
     ELSE km' = km /\ Pasada(i, "pedir", Tail(pasadas[i].cand))
  /\ UNCHANGED <<t, hilo, timers, enIO, enPrograma, fallas, desvios>>

\* The section that makes a resumed process READY, if it still is in SUSP_READY.
Reanudado(p) ==
  IF t.estado[p] # "SUSP_READY" THEN t
  ELSE procesoAReady([t EXCEPT !.listas["SUSP_READY"] = RemoveFirst(@, p),
                               !.estado[p] = "READY", !.enSwap[p] = FALSE, !.orden[p] = 0], p)

\* Another pass may have resumed it first, and it be in SUSP_READY of a later suspension.
moverAReady(i) ==
  LET p == Head(pasadas[i].cand) IN
  /\ pasadas[i].pc = "mover"
  /\ t' = Reanudado(p)
  /\ Pasada(i, "pedir", Tail(pasadas[i].cand))
  /\ Desvio(t.estado[p] = "SUSP_READY" /\ (p \in km.swap \/ ~t.enSwap[p]), "pasada")
  /\ UNCHANGED <<hilo, timers, km, enIO, enPrograma, fallas>>

IntentarDesuspender(i) == reunirCandidatos(i) \/ km_desuspender_proceso(i) \/ moverAReady(i)

-----------------------------------------------------------------------------
(* Programs on the CPUs.                                                    *)

\* The CPUs in the middle of a MUTEX_LOCK that blocks are not free either.
Ocupadas == FoldSet(LAMBDA p, n : n + bloqueando[p], Cardinality(corre), Procesos)

despachar(p) ==
  /\ p \in seleccionarProceso(t) /\ Ocupadas < Cardinality(CPUs)
  /\ Pasar(p, "EXEC") /\ corre' = corre \cup {p}
  /\ UNCHANGED <<hilo, timers, pasadas, km, enIO, enMutex, linea, fallas, desvios>>

\* The program makes its next call; it makes none while its EXIT is served.
Llama(p, syscall) ==
  /\ p \in corre /\ hilo[p].pc = "ninguno"
  /\ linea[p] \in DOMAIN Programa[p] /\ Programa[p][linea[p]] = syscall
  /\ linea' = [linea EXCEPT ![p] = @ + 1]

\* The CPU is free as soon as the thread of the call exists.
pedirIO(p, d) ==
  /\ Llama(p, d)
  /\ corre' = corre \ {p}
  /\ hilo' = [hilo EXCEPT ![p] = [HiloLibre EXCEPT !.pc = "inicio", !.tipo = d]]
  /\ UNCHANGED <<t, timers, pasadas, km, enIO, enMutex, fallas, desvios>>

\* A request that does not fit is made again by the next cycle of the CPU.
mem_alloc(p) ==
  /\ Llama(p, "MEM_ALLOC")
  /\ p \notin km.mem \cup km.swap \cup km.perdidos /\ Cabe(p)
  /\ km' = [km EXCEPT !.mem = @ \cup {p}]
  /\ UNCHANGED <<enKS, enIO, corre, enMutex, fallas, desvios>>

\* Mutation: the memory is freed and nobody is resumed.
mem_free_sinPasada(p) ==
  /\ Llama(p, "MEM_FREE") /\ p \in km.mem
  /\ km' = [km EXCEPT !.mem = @ \ {p}]
  /\ UNCHANGED <<enKS, enIO, corre, enMutex, fallas, desvios>>
\* The CPU makes the call again while its segment is not in memory.
mem_free(p) ==
  /\ Llama(p, "MEM_FREE") /\ p \in km.mem
  /\ km' = [km EXCEPT !.mem = @ \ {p}]
  /\ EmpezarPasada
  /\ UNCHANGED <<t, hilo, timers, enIO, corre, enMutex, fallas, desvios>>

\* Its handler takes the mutex, or queues the process and answers MSG_BLOQUEADO...
mutex_lock(p) ==
  /\ Llama(p, "MUTEX_LOCK") /\ tomador # p
  /\ IF tomador = Nadie
     THEN tomador' = p /\ UNCHANGED <<cola, corre, bloqueando>>
     ELSE /\ cola' = Append(cola, p) /\ corre' = corre \ {p}
          /\ bloqueando' = [bloqueando EXCEPT ![p] = @ + 1] /\ UNCHANGED tomador
  /\ UNCHANGED <<enKS, km, enIO, fallas, desvios>>

\* ...and in another section it puts it in BLOCK, wherever it is by then, and frees its CPU.
bloquearPorMutex(p) ==
  /\ bloqueando[p] > 0 /\ bloqueando' = [bloqueando EXCEPT ![p] = @ - 1]
  /\ Bloquear(p)
  /\ UNCHANGED <<hilo, pasadas, km, enIO, corre, tomador, cola, linea, fallas, desvios>>

\* Mutation: only a waiter in BLOCK is woken up.
mutex_unlock_soloBlock(p) ==
  /\ Llama(p, "MUTEX_UNLOCK") /\ tomador = p
  /\ IF cola = <<>>
     THEN tomador' = Nadie /\ UNCHANGED <<t, cola>>
     ELSE /\ tomador' = Head(cola) /\ cola' = Tail(cola)
          /\ t' = IF t.estado[Head(cola)] = "BLOCK" THEN actualizarEstado(t, Head(cola), "READY") ELSE t
  /\ UNCHANGED <<hilo, timers, pasadas, km, enIO, corre, bloqueando, fallas, desvios>>
\* The waiter goes to READY from wherever it is, and its handler may still be about to
\* put it in BLOCK, where it will wait for nobody.
mutex_unlock(p) ==
  /\ Llama(p, "MUTEX_UNLOCK") /\ tomador = p
  /\ IF cola = <<>>
     THEN tomador' = Nadie /\ UNCHANGED <<t, cola, desvios>>
     ELSE /\ tomador' = Head(cola) /\ cola' = Tail(cola)
          /\ Pasar(Head(cola), "READY")
          /\ Desvio(t.estado[Head(cola)] # "BLOCK",
                    IF bloqueando[Head(cola)] > 0 THEN "bloqueo" ELSE "mutex")
  /\ UNCHANGED <<hilo, timers, pasadas, km, enIO, corre, bloqueando, fallas>>

exit(p) ==
  /\ Llama(p, "EXIT")
  /\ Hilo(p, "exitKM")
  /\ UNCHANGED <<t, timers, pasadas, km, enIO, corre, enMutex, fallas, desvios>>

Programar(p) ==
  \/ despachar(p) \/ mem_alloc(p) \/ mem_free(p)
  \/ mutex_lock(p) \/ bloquearPorMutex(p) \/ mutex_unlock(p) \/ exit(p)
  \/ \E d \in Tipos : pedirIO(p, d)

-----------------------------------------------------------------------------
Next ==
  \/ \E d \in Tipos : identificar_io_ks(d)
  \/ \E p \in Procesos : HiloIO(p) \/ Timer(p) \/ Programar(p)
  \/ \E i \in DOMAIN pasadas : IntentarDesuspender(i)

\* Every thread goes on, devices answer, and the CPUs go on with the programs.
Justicia ==
  /\ \A d \in Tipos : WF_vars(identificar_io_ks(d))
  /\ \A p \in Procesos :
       WF_vars(HiloIO(p)) /\ WF_vars(Timer(p)) /\ WF_vars(Programar(p))
  /\ \A i \in 1..MaxPasadas : WF_vars(IntentarDesuspender(i))

Spec == Init /\ [][Next]_vars
EspecificacionJusta == Spec /\ Justicia

-----------------------------------------------------------------------------
(* Properties.                                                              *)

\* A token of a device type stands for a free device of that type, so
\* sacar_io_libre_por_tipo never comes back with the NULL its callers dereference, and
\* no module is lost or listed twice.
TokensDeIO ==
  \A d \in Tipos :
    /\ libres[d] = sem[d] + Cardinality({p \in Procesos : hilo[p].pc = "saca" /\ hilo[p].tipo = d})
    /\ libres[d] + Cardinality({p \in Procesos : hilo[p].pc = "usa" /\ hilo[p].tipo = d})
         <= Dispositivos[d]

EnIO(p) == hilo[p].pc \notin {"ninguno", "inicio", "exitKM", "exit"}

\* Whatever the timers and the passes do, and in whatever order, a process is not READY
\* and no CPU runs it while the thread of one of its calls is not done with it.
NadieCorreConIOEnCurso ==
  \A p \in Procesos : EnIO(p) => t.estado[p] \notin {"READY", "EXEC"} /\ p \notin corre

EnSuspension(p) == timers[p]["pedido"] + timers[p]["hecho"] > 0
SinDesvios == desvios = {}

\* Unless two threads acted on what they had read earlier, or asegurar_proceso_en_memoria
\* had to resume a process, or a mutex woke up a waiter that was suspended or not blocked
\* yet, what is READY or running has its segments in memory and nobody is about to take
\* them away.
ListoEnMemoria ==
  SinDesvios =>
    \A p \in Procesos :
      t.estado[p] = "READY" \/ p \in corre => p \notin km.swap /\ timers[p]["pedido"] = 0

\* With the same reserve, who is blocked, in memory or out of it, waits for a thread that
\* will unblock it or in the queue of the mutex.
BloqueadoEsperaAlgo ==
  SinDesvios =>
    \A p \in Procesos :
      t.estado[p] \in {"BLOCK", "SUSP_BLOCK"} => hilo[p].pc # "ninguno" \/ Contains(cola, p)

\* With the same reserve, and if no suspension failed, a process in SUSP_READY is one the
\* next pass takes, or its timer will make that pass once Kernel Memory answers it.
SuspReadyConReintento ==
  SinDesvios /\ fallas.suspension = 0 =>
    \A p \in Procesos : t.estado[p] = "SUSP_READY" => t.enSwap[p] \/ EnSuspension(p)

Suspendido(tabla, p) == tabla.estado[p] \in {"SUSP_BLOCK", "SUSP_READY"}

\* While two processes stay suspended, who was suspended first stays first
\* (desuspension_va_primero), but for the one whose stamp is 0, that of the first suspension
\* of all: the end of its wait takes it for no stamp, and sends it behind everybody.
AntiguedadEstable ==
  [][SinDesvios' =>
       \A p, q \in Procesos :
         /\ Suspendido(t, p) /\ Suspendido(t', p) /\ Suspendido(t, q) /\ Suspendido(t', q)
         /\ t.orden[p] < t.orden[q]
         => IF t.orden[p] = 0 /\ t.estado[p] # t'.estado[p]
            THEN t'.orden[q] < t'.orden[p]
            ELSE t'.orden[p] < t'.orden[q]]_vars

\* With the same reserve, and no failure, every process ends: nobody is left suspended,
\* waiting for a device or for memory, when programs free their memory before they exit.
TodosTerminan ==
  [](SinDesvios /\ fallas.suspension = 0 /\ fallas.segFault = 0)
    => \A p \in Procesos : <>(t.estado[p] = "EXIT")

=============================================================================
