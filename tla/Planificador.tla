---------------------------- MODULE Planificador ----------------------------
(***************************************************************************)
(* The Kernel Scheduler and its CPUs: long- and short-term scheduling,     *)
(* the round-robin timers, priority preemption, the mutexes of the         *)
(* programs, the eviction before a compaction, and CPUs that disconnect.   *)
(*                                                                         *)
(* Threads of the scheduler: one long-term, one short-term, one handler    *)
(* per CPU connection, one timer per quantum, one thread per blocking IO.  *)
(* A step is one critical section over mutex_listas together with the      *)
(* sem_post, the free CPU or the reply that follows it and ends the        *)
(* operation; a reply that another section follows is a step of its own,   *)
(* with the CPU its PCB names by then (avisarBloqueado).  Sockets are FIFO *)
(* sequences, and mutex_km is assumed to serialise each dialogue with      *)
(* Kernel Memory, whose answers are any it may give.                       *)
(***************************************************************************)
EXTENDS Tablas

CONSTANTS
  Mutexes,          \* names of mutexes the programs use
  Inicial,          \* PID 0, created by main
  Syscalls,         \* the system calls the programs make
  MaxSyscalls,      \* bound: calls of each program before it exits
  MaxCaidas,        \* bound: CPUs that disconnect
  AlgoritmoDeCola,  \* algoritmosColas: "FIFO" or "RR" for each CMN queue
  ProgramasCorrectos \* programs unlock what they locked, and before exiting

ASSUME PlanificadorAssumption ==
  /\ Inicial \in Procesos
  /\ Procesos \subseteq Nat
  /\ Nadie \notin Mutexes
  /\ MaxSyscalls \in [Procesos -> Nat] /\ MaxCaidas \in Nat
  /\ AlgoritmoDeCola \in [Colas -> {"FIFO", "RR"}]
  /\ ProgramasCorrectos \in BOOLEAN

VARIABLES
  t,              \* the tables under mutex_listas
  cpusLibres,     \* listaCPUsLibres
  semReady,       \* sem_hay_proceso_ready
  semCpu,         \* sem_hay_cpu_libre
  semDesalojo,    \* sem_desalojo_confirmado
  enCompactacion, \* en_compactacion
  corto,          \* the short-term scheduler: pc and locals
  timers,         \* number of timer_rr threads per PID, CPU and stage
  hiloIO,         \* the IO thread of each process
  manejador,      \* atender_cpu_ks of each connection: pc and locals
  tomador,        \* pid_tomador of each mutex
  cola,           \* cola_bloqueados of each mutex
  creados,        \* mutexes in listaMutex
  adelantado,     \* history: an unlock woke up a waiter before its handler blocked it
  aCpu, deCpu,    \* the two directions of each CPU socket
  cpu,            \* each CPU module
  posee,          \* mutexes each program believes it holds
  pasos,          \* system calls each program has made
  caidas          \* CPUs that have disconnected

enKS    == <<t, cpusLibres, semReady, semCpu>>
enMutex == <<tomador, cola, creados, adelantado>>
enCPU   == <<deCpu, cpu, posee, pasos, caidas>>
vars == <<enKS, semDesalojo, enCompactacion, corto, timers, hiloIO, manejador,
          enMutex, aCpu, enCPU>>

-----------------------------------------------------------------------------
(* Messages.  Nadie stands for a field the message does not have.           *)

Bloqueantes == {"SLEEP"}
ConRespuesta == {"MUTEX_CREATE", "MUTEX_LOCK", "MUTEX_UNLOCK", "MEM_ALLOC", "INIT_PROC"}
Motivos == 0..2       \* end of quantum, more urgent process, compaction
Args == Motivos \cup Mutexes \cup {Nadie}

Msj(tipo, p, arg) == [tipo |-> tipo, pid |-> p, arg |-> arg]
Interrupcion(p, motivo) == Msj("INTERRUPT", p, motivo)
Respuesta(tipo) == Msj(tipo, Nadie, Nadie)
PidEnviado(p) == Msj("PID", p, Nadie)

MensajesAlCPU ==
  [tipo : {"PID"}, pid : Procesos, arg : {Nadie}]
    \cup [tipo : {"INTERRUPT"}, pid : Procesos, arg : Motivos]
    \cup [tipo : {"OK", "ERROR", "BLOQUEADO"}, pid : {Nadie}, arg : {Nadie}]
MensajesDelCPU ==
  [tipo : ConRespuesta \cup Bloqueantes \cup {"DONE", "SEG_FAULT", "INTERRUPCION_ATENDIDA"},
   pid : Procesos, arg : Args]

\* A closed connection swallows what is sent to it.
Conectadas == {c \in CPUs : cpu[c].modo \notin {"desconectada", "caida"}}
Enviado(canal, c, m) ==
  IF c \in Conectadas THEN [canal EXCEPT ![c] = Append(@, m)] ELSE canal

\* The elements of a set of positions, in order.
EnOrden(I) == CHOOSE s \in SetToSeqs(I) : \A a, b \in DOMAIN s : a < b => s[a] < s[b]

\* Interrupts for the processes ps of EXEC, each to the CPU its PCB names.
InterrupcionesPara(tabla, c, ps, motivo) ==
  LET exec  == tabla.listas["EXEC"]
      suyos == EnOrden({i \in DOMAIN exec : exec[i] \in ps /\ tabla.fdCpu[exec[i]] = c})
  IN  [i \in DOMAIN suyos |-> Interrupcion(exec[suyos[i]], motivo)]
Interrumpidas(canal, tabla, ps, motivo) ==
  [c \in CPUs |-> IF c \in Conectadas
                  THEN canal[c] \o InterrupcionesPara(tabla, c, ps, motivo)
                  ELSE canal[c]]

-----------------------------------------------------------------------------
(* Initial state: nothing connected and PID 0 in NEW.                       *)

CortoEnReposo == [pc |-> "flag", p |-> Nadie, c |-> Nadie, nivel |-> 0]
ManejadorLibre == [pc |-> "libre", pid |-> Nadie, arg |-> Nadie]
CPUEn(modo) == [modo |-> modo, pid |-> Nadie, sys |-> Nadie, arg |-> Nadie, pend |-> {}]

Init ==
  /\ t = [ estado    |-> [p \in Procesos |-> IF p = Inicial THEN "NEW" ELSE "INEXISTENTE"],
           prioridad |-> PrioridadOriginal,
           fdCpu     |-> [p \in Procesos |-> Nadie],
           orden     |-> [p \in Procesos |-> 0],
           enSwap    |-> [p \in Procesos |-> FALSE],
           listas    |-> [l \in ConLista |-> IF l = "NEW" THEN <<Inicial>> ELSE <<>>],
           ready     |-> [k \in Colas |-> <<>>],
           reloj     |-> 0 ]
  /\ cpusLibres = <<>> /\ semReady = 0 /\ semCpu = 0 /\ semDesalojo = 0
  /\ enCompactacion = FALSE
  /\ corto = CortoEnReposo
  /\ timers = [p \in Procesos |-> [c \in CPUs |-> [dormidos |-> 0, vencidos |-> 0]]]
  /\ hiloIO = [p \in Procesos |-> "ninguno"]
  /\ manejador = [c \in CPUs |-> [ManejadorLibre EXCEPT !.pc = "desconectado"]]
  /\ tomador = [m \in Mutexes |-> Nadie]
  /\ cola = [m \in Mutexes |-> <<>>]
  /\ creados = {} /\ adelantado = FALSE
  /\ aCpu = [c \in CPUs |-> <<>>] /\ deCpu = [c \in CPUs |-> <<>>]
  /\ cpu = [c \in CPUs |-> CPUEn("desconectada")]
  /\ posee = [p \in Procesos |-> {}]
  /\ pasos = [p \in Procesos |-> 0]
  /\ caidas = 0

-----------------------------------------------------------------------------
(* The CPU module: a cycle that waits for a PID, runs it until it blocks,   *)
(* ends or is interrupted, and waits again.                                 *)

Pedido(c, tipo, arg) == [deCpu EXCEPT ![c] = Append(@, Msj(tipo, cpu[c].pid, arg))]
Recibe(c) == aCpu[c] # <<>> /\ aCpu' = [aCpu EXCEPT ![c] = Tail(@)]

\* esperar_pid: whatever is not a PID is dropped.
esperarPid(c) ==
  /\ cpu[c].modo = "espera" /\ Recibe(c)
  /\ cpu' = IF Head(aCpu[c]).tipo = "PID"
            THEN [cpu EXCEPT ![c] = [CPUEn("ejecuta") EXCEPT !.pid = Head(aCpu[c]).pid]]
            ELSE cpu
  /\ UNCHANGED <<enKS, semDesalojo, enCompactacion, corto, timers, hiloIO, manejador,
                 enMutex, deCpu, posee, pasos, caidas>>

\* What a program may ask next.
Permitida(p, s, arg) ==
  /\ s \in Syscalls /\ pasos[p] < MaxSyscalls[p]
  /\ s = "INIT_PROC" => Cardinality({q \in Procesos : t.estado[q] = "INEXISTENTE"})
                         > Cardinality({c \in CPUs : \E i \in DOMAIN deCpu[c] :
                                                       deCpu[c][i].tipo = "INIT_PROC"})
  /\ ProgramasCorrectos /\ s = "MUTEX_LOCK" => arg \in creados \ posee[p]
  /\ ProgramasCorrectos /\ s = "MUTEX_UNLOCK" => arg \in posee[p]

ArgsDe(s) ==
  IF s \in {"MUTEX_CREATE", "MUTEX_LOCK", "MUTEX_UNLOCK"} THEN Mutexes ELSE {Nadie}

syscallConRespuesta(c) ==
  LET p == cpu[c].pid IN
  /\ cpu[c].modo = "ejecuta"
  /\ \E s \in ConRespuesta : \E arg \in ArgsDe(s) :
       /\ Permitida(p, s, arg)
       /\ deCpu' = Pedido(c, s, arg)
       /\ cpu' = [cpu EXCEPT ![c].modo = "respuesta", ![c].sys = s, ![c].arg = arg]
  /\ pasos' = [pasos EXCEPT ![p] = @ + 1]
  /\ UNCHANGED <<enKS, semDesalojo, enCompactacion, corto, timers, hiloIO, manejador,
                 enMutex, aCpu, posee, caidas>>

\* SLEEP leaves the CPU without waiting for an answer.
syscallBloqueante(c) ==
  LET p == cpu[c].pid IN
  /\ cpu[c].modo = "ejecuta"
  /\ \E s \in Bloqueantes : Permitida(p, s, Nadie) /\ deCpu' = Pedido(c, s, Nadie)
  /\ cpu' = [cpu EXCEPT ![c] = CPUEn("espera")]
  /\ pasos' = [pasos EXCEPT ![p] = @ + 1]
  /\ UNCHANGED <<enKS, semDesalojo, enCompactacion, corto, timers, hiloIO, manejador,
                 enMutex, aCpu, posee, caidas>>

syscallExit(c) ==
  /\ cpu[c].modo = "ejecuta"
  /\ ProgramasCorrectos => posee[cpu[c].pid] = {}
  /\ deCpu' = Pedido(c, "DONE", Nadie)
  /\ cpu' = [cpu EXCEPT ![c] = CPUEn("espera")]
  /\ UNCHANGED <<enKS, semDesalojo, enCompactacion, corto, timers, hiloIO, manejador,
                 enMutex, aCpu, posee, pasos, caidas>>

\* A segmentation fault is reported and confirmed: any message is the confirmation.
manejarSegFault(c) ==
  /\ cpu[c].modo = "ejecuta" /\ "SEG_FAULT" \in Syscalls
  /\ ProgramasCorrectos => posee[cpu[c].pid] = {}
  /\ deCpu' = Pedido(c, "SEG_FAULT", Nadie)
  /\ cpu' = [cpu EXCEPT ![c].modo = "ack"]
  /\ UNCHANGED <<enKS, semDesalojo, enCompactacion, corto, timers, hiloIO, manejador,
                 enMutex, aCpu, posee, pasos, caidas>>

confirmarSegFault(c) ==
  /\ cpu[c].modo = "ack" /\ Recibe(c)
  /\ cpu' = [cpu EXCEPT ![c] = CPUEn("espera")]
  /\ UNCHANGED <<enKS, semDesalojo, enCompactacion, corto, timers, hiloIO, manejador,
                 enMutex, deCpu, posee, pasos, caidas>>

\* The check between two instructions.  An interrupt for another PID is dropped,
\* and a message that is no interrupt ends the module.
atenderInterrupcion(c) ==
  LET m == Head(aCpu[c])
      p == cpu[c].pid
  IN
  /\ cpu[c].modo = "ejecuta" /\ Recibe(c)
  /\ \/ /\ m.tipo = "INTERRUPT" /\ m.pid = p
        /\ deCpu' = Pedido(c, "INTERRUPCION_ATENDIDA", m.arg)
        /\ cpu' = [cpu EXCEPT ![c] = CPUEn("espera")]
     \/ /\ m.tipo = "INTERRUPT" /\ m.pid # p
        /\ UNCHANGED <<deCpu, cpu>>
     \/ /\ m.tipo # "INTERRUPT"
        /\ cpu' = [cpu EXCEPT ![c] = CPUEn("caida")]
        /\ UNCHANGED deCpu
  /\ UNCHANGED <<enKS, semDesalojo, enCompactacion, corto, timers, hiloIO, manejador,
                 enMutex, posee, pasos, caidas>>

(* An answer is awaited.  Each call has its own idea of what to do with an  *)
(* interrupt that arrives first: MUTEX_LOCK keeps the last one, MUTEX_CREATE *)
(* none, the others the first one only.                                     *)
GuardaInterrupcion(c) ==
  \/ cpu[c].sys = "MUTEX_LOCK"
  \/ cpu[c].sys # "MUTEX_CREATE" /\ cpu[c].pend = {}
\* Mutation: MEM_ALLOC is as strict as the mutex calls.
AceptaCualquiera_soloInit(c) == cpu[c].sys = "INIT_PROC"
\* MEM_ALLOC and INIT_PROC take any second message that is not OK for a failure.
AceptaCualquiera(c) == cpu[c].sys \in {"MEM_ALLOC", "INIT_PROC"}

guardarInterrupcion(c) ==
  /\ cpu[c].modo = "respuesta" /\ Recibe(c)
  /\ Head(aCpu[c]).tipo = "INTERRUPT" /\ GuardaInterrupcion(c)
  /\ cpu' = [cpu EXCEPT ![c].pend = {Head(aCpu[c])}]
  /\ UNCHANGED <<enKS, semDesalojo, enCompactacion, corto, timers, hiloIO, manejador,
                 enMutex, deCpu, posee, pasos, caidas>>

\* The call is over: a kept interrupt leaves the CPU, and answers only if it
\* was for the PID in execution (atender_interrupcion_en_espera).
DejaSyscall(c) ==
  LET e == cpu[c]
      propias == {i \in e.pend : i.pid = e.pid}
  IN
  /\ cpu' = [cpu EXCEPT ![c] = IF e.pend = {}
                               THEN [CPUEn("ejecuta") EXCEPT !.pid = e.pid]
                               ELSE CPUEn("espera")]
  /\ IF propias = {}
     THEN UNCHANGED deCpu
     ELSE \E i \in propias : deCpu' = Pedido(c, "INTERRUPCION_ATENDIDA", i.arg)

recibirRespuesta(c) ==
  LET m == Head(aCpu[c])
      e == cpu[c]
  IN
  /\ e.modo = "respuesta" /\ Recibe(c)
  /\ \/ m.tipo = "OK"
     \/ AceptaCualquiera(c) /\ (m.tipo = "INTERRUPT" => e.pend # {})
  /\ DejaSyscall(c)
  /\ posee' = [posee EXCEPT ![e.pid] = CASE e.sys = "MUTEX_LOCK" -> @ \cup {e.arg}
                                         [] e.sys = "MUTEX_UNLOCK" -> @ \ {e.arg}
                                         [] OTHER -> @]
  /\ UNCHANGED <<enKS, semDesalojo, enCompactacion, corto, timers, hiloIO, manejador,
                 enMutex, pasos, caidas>>

\* The mutex was taken: the context is saved past the call, so the program owns
\* the mutex when it runs again, and a kept interrupt is forgotten.
recibirBloqueado(c) ==
  LET e == cpu[c] IN
  /\ e.modo = "respuesta" /\ e.sys = "MUTEX_LOCK" /\ Recibe(c)
  /\ Head(aCpu[c]).tipo = "BLOQUEADO"
  /\ posee' = [posee EXCEPT ![e.pid] = @ \cup {e.arg}]
  /\ cpu' = [cpu EXCEPT ![c] = CPUEn("espera")]
  /\ UNCHANGED <<enKS, semDesalojo, enCompactacion, corto, timers, hiloIO, manejador,
                 enMutex, deCpu, pasos, caidas>>

\* Any other message during MUTEX_CREATE, MUTEX_LOCK or MUTEX_UNLOCK: exit(1).
respuestaInesperada(c) ==
  LET m == Head(aCpu[c])
      e == cpu[c]
  IN
  /\ e.modo = "respuesta" /\ ~AceptaCualquiera(c) /\ Recibe(c)
  /\ m.tipo # "OK"
  /\ ~(m.tipo = "INTERRUPT" /\ GuardaInterrupcion(c))
  /\ ~(m.tipo = "BLOQUEADO" /\ e.sys = "MUTEX_LOCK")
  /\ cpu' = [cpu EXCEPT ![c] = CPUEn("caida")]
  /\ UNCHANGED <<enKS, semDesalojo, enCompactacion, corto, timers, hiloIO, manejador,
                 enMutex, deCpu, posee, pasos, caidas>>

\* The machine of a CPU goes away.
caer(c) ==
  /\ caidas < MaxCaidas /\ c \in Conectadas
  /\ caidas' = caidas + 1
  /\ cpu' = [cpu EXCEPT ![c] = CPUEn("caida")]
  /\ UNCHANGED <<enKS, semDesalojo, enCompactacion, corto, timers, hiloIO, manejador,
                 enMutex, aCpu, deCpu, posee, pasos>>

ModuloCPU(c) ==
  \/ esperarPid(c) \/ syscallConRespuesta(c) \/ syscallBloqueante(c)
  \/ syscallExit(c) \/ manejarSegFault(c) \/ confirmarSegFault(c)
  \/ atenderInterrupcion(c) \/ guardarInterrupcion(c) \/ recibirRespuesta(c)
  \/ recibirBloqueado(c) \/ respuestaInesperada(c)

-----------------------------------------------------------------------------
(* Long and short term.                                                     *)

\* Mutation: the short-term scheduler is not told.
PasarAReady_sinPost(canal, p) ==
  /\ t' = actualizarEstado(t, p, "READY")
  /\ aCpu' = canal
  /\ UNCHANGED semReady

\* A process enters READY, interrupting a less urgent one, and is announced.
PasarAReady(canal, p) ==
  /\ t' = actualizarEstado(t, p, "READY")
  /\ aCpu' = IF t.estado[p] = "EXIT" THEN canal
             ELSE Interrumpidas(canal, t', desalojadosPor(t', p), 1)
  /\ semReady' = semReady + 1

\* Mutation: the CPU is listed as free and no token is posted.
LiberarCPU_sinPost(c) == cpusLibres' = Append(cpusLibres, c) /\ UNCHANGED semCpu

LiberarCPU(c) ==
  /\ cpusLibres' = Append(cpusLibres, c)
  /\ semCpu' = semCpu + 1

planificadorLargoPlazo ==
  /\ t.listas["NEW"] # <<>>
  /\ PasarAReady(aCpu, Head(t.listas["NEW"]))
  /\ UNCHANGED <<cpusLibres, semCpu, semDesalojo, enCompactacion, corto, timers, hiloIO,
                 manejador, enMutex, enCPU>>

\* while (en_compactacion) usleep
cortoEsperaCompactacion ==
  /\ corto.pc = "flag" /\ ~enCompactacion
  /\ corto' = [corto EXCEPT !.pc = "tomar"]
  /\ UNCHANGED <<enKS, semDesalojo, enCompactacion, timers, hiloIO, manejador, enMutex,
                 aCpu, enCPU>>

\* Both semaphores, then the section that picks a process and takes a CPU.  The
\* process stays in its queue.
cortoSelecciona ==
  /\ corto.pc = "tomar" /\ semReady > 0 /\ semCpu > 0
  /\ cpusLibres # <<>>
  /\ \E p \in seleccionarProceso(t) :
       corto' = [pc |-> "ejecutar", p |-> p, c |-> Head(cpusLibres), nivel |-> Nivel(t, p)]
  /\ cpusLibres' = Tail(cpusLibres)
  /\ semReady' = semReady - 1 /\ semCpu' = semCpu - 1
  /\ UNCHANGED <<t, semDesalojo, enCompactacion, timers, hiloIO, manejador, enMutex,
                 aCpu, enCPU>>

\* No CPU or no process after all: both tokens are given back.
cortoDevuelve ==
  /\ corto.pc = "tomar" /\ semReady > 0 /\ semCpu > 0
  /\ cpusLibres = <<>> \/ seleccionarProceso(t) = {}
  /\ corto' = CortoEnReposo
  /\ UNCHANGED <<enKS, semDesalojo, enCompactacion, timers, hiloIO, manejador, enMutex,
                 aCpu, enCPU>>

\* Mutation: the PCB keeps its former CPU.
Despachado_sinFd(p, c) == actualizarEstado(t, p, "EXEC")

\* The process joins EXEC with the CPU in its PCB.
Despachado(p, c) == actualizarEstado([t EXCEPT !.fdCpu[p] = c], p, "EXEC")

cortoEjecuta ==
  /\ corto.pc = "ejecutar"
  /\ t' = Despachado(corto.p, corto.c)
  /\ corto' = [corto EXCEPT !.pc = "enviar"]
  /\ UNCHANGED <<cpusLibres, semReady, semCpu, semDesalojo, enCompactacion, timers, hiloIO,
                 manejador, enMutex, aCpu, enCPU>>

ConQuantum(nivel) ==
  (IF Algoritmo = "CMN" THEN AlgoritmoDeCola[nivel] ELSE Algoritmo) = "RR"

cortoEnvia ==
  /\ corto.pc = "enviar"
  /\ aCpu' = Enviado(aCpu, corto.c, PidEnviado(corto.p))
  /\ timers' = IF ConQuantum(corto.nivel)
               THEN [timers EXCEPT ![corto.p][corto.c].dormidos = @ + 1]
               ELSE timers
  /\ corto' = CortoEnReposo
  /\ UNCHANGED <<enKS, semDesalojo, enCompactacion, hiloIO, manejador, enMutex, enCPU>>

\* timer_rr: the quantum is over; is the process still running there?
venceQuantum(p, c) ==
  /\ timers[p][c].dormidos > 0
  /\ timers' = [timers EXCEPT ![p][c].dormidos = @ - 1,
                              ![p][c].vencidos =
                                 IF buscable(t, p) /\ t.estado[p] = "EXEC" /\ t.fdCpu[p] = c
                                 THEN @ + 1 ELSE @]
  /\ UNCHANGED <<enKS, semDesalojo, enCompactacion, corto, hiloIO, manejador, enMutex,
                 aCpu, enCPU>>

interrumpeQuantum(p, c) ==
  /\ timers[p][c].vencidos > 0
  /\ timers' = [timers EXCEPT ![p][c].vencidos = @ - 1]
  /\ aCpu' = Enviado(aCpu, c, Interrupcion(p, 0))
  /\ UNCHANGED <<enKS, semDesalojo, enCompactacion, corto, hiloIO, manejador, enMutex,
                 enCPU>>

-----------------------------------------------------------------------------
(* atender_cpu_ks: the thread of one CPU connection.                        *)

conectar(c) ==
  /\ manejador[c].pc = "desconectado"
  /\ manejador' = [manejador EXCEPT ![c] = ManejadorLibre]
  /\ cpu' = [cpu EXCEPT ![c] = CPUEn("espera")]
  /\ LiberarCPU(c)
  /\ UNCHANGED <<t, semReady, semDesalojo, enCompactacion, corto, timers, hiloIO, enMutex,
                 aCpu, deCpu, posee, pasos, caidas>>

\* recibir_mensaje returns NULL once what was sent before has been read.
desconectar(c) ==
  /\ cpu[c].modo = "caida" /\ manejador[c].pc = "libre" /\ deCpu[c] = <<>>
  /\ manejador' = [manejador EXCEPT ![c].pc = "terminado"]
  /\ cpusLibres' = RemoveFirst(cpusLibres, c)
  /\ t' = recuperarDeCpu(t, c)
  /\ aCpu' = Interrumpidas(aCpu, t', UNION {desalojadosPor(t', p) : p \in enCpu(t, c)}, 1)
  /\ UNCHANGED <<semReady, semCpu, semDesalojo, enCompactacion, corto, timers, hiloIO,
                 enMutex, enCPU>>

\* The next message of the connection, of one type.
Atiende(c, tipo) ==
  /\ manejador[c].pc = "libre" /\ deCpu[c] # <<>> /\ Head(deCpu[c]).tipo = tipo
  /\ deCpu' = [deCpu EXCEPT ![c] = Tail(@)]
Sigue(c, pc, p, arg) == manejador' = [manejador EXCEPT ![c] = [pc |-> pc, pid |-> p, arg |-> arg]]
Termina(c) == manejador' = [manejador EXCEPT ![c] = ManejadorLibre]
Responde(c, tipo) == aCpu' = Enviado(aCpu, c, Respuesta(tipo))

\* Mutation: Kernel Memory is told and the PCB is forgotten.
finalizarProceso_sinExit(p) == t

\* finalizar_proceso; the mutexes of the process are left as they are.
finalizarProceso(p) == IF buscable(t, p) THEN actualizarEstado(t, p, "EXIT") ELSE t

atenderDone(c) ==
  /\ Atiende(c, "DONE")
  /\ t' = finalizarProceso(Head(deCpu[c]).pid)
  /\ LiberarCPU(c)
  /\ UNCHANGED <<semReady, semDesalojo, enCompactacion, corto, timers, hiloIO, manejador,
                 enMutex, aCpu, cpu, posee, pasos, caidas>>

atenderSegFault(c) ==
  /\ Atiende(c, "SEG_FAULT")
  /\ t' = finalizarProceso(Head(deCpu[c]).pid)
  /\ Responde(c, "OK")
  /\ LiberarCPU(c)
  /\ UNCHANGED <<semReady, semDesalojo, enCompactacion, corto, timers, hiloIO, manejador,
                 enMutex, cpu, posee, pasos, caidas>>

\* MSG_INTERRUPCION_ATENDIDA: the CPU is free at once, the process leaves EXEC in
\* a later section.  A PID that is not found leaves the CPU taken.
atenderInterrupcionAtendida(c) ==
  LET m == Head(deCpu[c]) IN
  /\ Atiende(c, "INTERRUPCION_ATENDIDA")
  /\ IF buscable(t, m.pid)
     THEN LiberarCPU(c) /\ Sigue(c, "desalojado", m.pid, m.arg)
     ELSE UNCHANGED <<cpusLibres, semCpu, manejador>>
  /\ UNCHANGED <<t, semReady, semDesalojo, enCompactacion, corto, timers, hiloIO, enMutex,
                 aCpu, cpu, posee, pasos, caidas>>

\* Mutation: the CPU is given back a second time.
volverAReady_libera(c) ==
  LET h == manejador[c] IN
  /\ h.pc = "desalojado" /\ h.arg # 2
  /\ PasarAReady(aCpu, h.pid)
  /\ LiberarCPU(c)
  /\ Termina(c)
  /\ UNCHANGED <<semDesalojo, enCompactacion, corto, timers, hiloIO, enMutex, enCPU>>

volverAReady(c) ==
  LET h == manejador[c] IN
  /\ h.pc = "desalojado" /\ h.arg # 2
  /\ PasarAReady(aCpu, h.pid)
  /\ Termina(c)
  /\ UNCHANGED <<cpusLibres, semCpu, semDesalojo, enCompactacion, corto, timers, hiloIO,
                 enMutex, enCPU>>

volverAlFrente(c) ==
  LET h == manejador[c] IN
  /\ h.pc = "desalojado" /\ h.arg = 2
  /\ t' = alFrenteDeReady(t, h.pid)
  /\ semReady' = semReady + 1
  /\ semDesalojo' = semDesalojo + 1
  /\ Termina(c)
  /\ UNCHANGED <<cpusLibres, semCpu, enCompactacion, corto, timers, hiloIO, enMutex, aCpu,
                 enCPU>>

mutex_create(c) ==
  /\ Atiende(c, "MUTEX_CREATE")
  /\ creados' = creados \cup {Head(deCpu[c]).arg}
  /\ Responde(c, "OK")
  /\ UNCHANGED <<enKS, semDesalojo, enCompactacion, corto, timers, hiloIO, manejador,
                 tomador, cola, adelantado, cpu, posee, pasos, caidas>>

\* mutex_lock answers to the CPU the PCB names.
mutex_lock_no_existe(c) ==
  LET m == Head(deCpu[c]) IN
  /\ Atiende(c, "MUTEX_LOCK") /\ m.arg \notin creados
  /\ Responde(t.fdCpu[m.pid], "ERROR")
  /\ UNCHANGED <<enKS, semDesalojo, enCompactacion, corto, timers, hiloIO, manejador,
                 enMutex, cpu, posee, pasos, caidas>>

mutex_lock_libre(c) ==
  LET m == Head(deCpu[c]) IN
  /\ Atiende(c, "MUTEX_LOCK") /\ m.arg \in creados /\ tomador[m.arg] = Nadie
  /\ tomador' = [tomador EXCEPT ![m.arg] = m.pid]
  /\ Responde(t.fdCpu[m.pid], "OK")
  /\ UNCHANGED <<enKS, semDesalojo, enCompactacion, corto, timers, hiloIO, manejador,
                 cola, creados, adelantado, cpu, posee, pasos, caidas>>

\* Priority inheritance: the owner takes the priority of a more urgent waiter.
Hereda(p, duenio) == buscable(t, duenio) /\ t.prioridad[p] < t.prioridad[duenio]

\* Mutation: the process is blocked and waits in no queue.
EncolaEn_nada(m, p) == cola' = [cola EXCEPT ![m] = @]
EncolaEn(m, p) == cola' = [cola EXCEPT ![m] = Append(@, p)]

\* The mutex is taken: the waiter is queued and lends its priority to the owner.
mutex_lock_ocupado(c) ==
  LET m == Head(deCpu[c])
      duenio == tomador[m.arg]
      nueva == t.prioridad[m.pid]
  IN
  /\ Atiende(c, "MUTEX_LOCK") /\ m.arg \in creados /\ duenio # Nadie
  /\ EncolaEn(m.arg, m.pid)
  /\ t' = IF Hereda(m.pid, duenio) THEN cambiarPrioridad(t, duenio, nueva) ELSE t
  /\ aCpu' = IF Hereda(m.pid, duenio)
             THEN Interrumpidas(aCpu, t', desalojadosPorPrioridad(t, duenio, nueva), 1)
             ELSE aCpu
  /\ Sigue(c, "avisar", m.pid, m.arg)
  /\ UNCHANGED <<cpusLibres, semReady, semCpu, semDesalojo, enCompactacion, corto, timers,
                 hiloIO, tomador, creados, adelantado, cpu, posee, pasos, caidas>>

\* mutex_listas has been released: the answer goes to the CPU the PCB names by now.
avisarBloqueado(c) ==
  LET h == manejador[c] IN
  /\ h.pc = "avisar"
  /\ Responde(t.fdCpu[h.pid], "BLOQUEADO")
  /\ Sigue(c, "bloquear", h.pid, h.arg)
  /\ UNCHANGED <<enKS, semDesalojo, enCompactacion, corto, timers, hiloIO, enMutex, enCPU>>

\* The waiter leaves EXEC only now, whoever has become its owner in between.
bloquearPorMutex(c) ==
  /\ manejador[c].pc = "bloquear"
  /\ t' = actualizarEstado(t, manejador[c].pid, "BLOCK")
  /\ LiberarCPU(c)
  /\ Termina(c)
  /\ UNCHANGED <<semReady, semDesalojo, enCompactacion, corto, timers, hiloIO, enMutex,
                 aCpu, enCPU>>

\* MUTEX_UNLOCK is answered first, whatever comes of it.
mutex_unlock_ajeno(c) ==
  LET m == Head(deCpu[c]) IN
  /\ Atiende(c, "MUTEX_UNLOCK")
  /\ m.arg \notin creados \/ tomador[m.arg] # m.pid
  /\ Responde(c, "OK")
  /\ UNCHANGED <<enKS, semDesalojo, enCompactacion, corto, timers, hiloIO, manejador,
                 enMutex, cpu, posee, pasos, caidas>>

\* Mutation: an inherited priority is kept.
PrioridadAlSoltar_actual(p) == t.prioridad[p]
PrioridadAlSoltar(p) == PrioridadOriginal[p]

\* Mutation: the first waiter is read and not removed.
EntregaAlPrimero_sinQuitar(m) ==
  tomador' = [tomador EXCEPT ![m] = Head(cola[m])] /\ cola' = cola
\* Mutation: the first waiter is woken up and the mutex is left free.
EntregaAlPrimero_libre(m) ==
  tomador' = [tomador EXCEPT ![m] = Nadie] /\ cola' = [cola EXCEPT ![m] = Tail(@)]
EntregaAlPrimero(m) ==
  tomador' = [tomador EXCEPT ![m] = Head(cola[m])] /\ cola' = [cola EXCEPT ![m] = Tail(@)]

\* A handler has queued p and not blocked it yet.
SinBloquear(p) == \E c \in CPUs : manejador[c].pc \in {"avisar", "bloquear"} /\ manejador[c].pid = p

\* The owner gets its own priority back and the first waiter becomes the owner.
mutex_unlock(c) ==
  LET m == Head(deCpu[c])
      original == PrioridadAlSoltar(m.pid)
      con == Enviado(aCpu, c, Respuesta("OK"))
  IN
  /\ Atiende(c, "MUTEX_UNLOCK") /\ m.arg \in creados /\ tomador[m.arg] = m.pid
  /\ t' = cambiarPrioridad(t, m.pid, original)
  /\ aCpu' = Interrumpidas(con, t', desalojadosPorPrioridad(t, m.pid, original), 1)
  /\ \/ /\ cola[m.arg] = <<>>
        /\ tomador' = [tomador EXCEPT ![m.arg] = Nadie]
        /\ UNCHANGED <<cola, manejador, adelantado>>
     \/ /\ cola[m.arg] # <<>>
        /\ EntregaAlPrimero(m.arg)
        /\ Sigue(c, "despertar", Head(cola[m.arg]), m.arg)
        /\ adelantado' = (adelantado \/ SinBloquear(Head(cola[m.arg])))
  /\ UNCHANGED <<cpusLibres, semReady, semCpu, semDesalojo, enCompactacion, corto, timers,
                 hiloIO, creados, cpu, posee, pasos, caidas>>

despertarSiguiente(c) ==
  /\ manejador[c].pc = "despertar"
  /\ PasarAReady(aCpu, manejador[c].pid)
  /\ Termina(c)
  /\ UNCHANGED <<cpusLibres, semCpu, semDesalojo, enCompactacion, corto, timers, hiloIO,
                 enMutex, enCPU>>

\* SLEEP: a thread takes over the process, and the CPU is free before it runs.
atenderSleep(c) ==
  /\ Atiende(c, "SLEEP")
  /\ hiloIO' = [hiloIO EXCEPT ![Head(deCpu[c]).pid] = "bloquear"]
  /\ LiberarCPU(c)
  /\ UNCHANGED <<t, semReady, semDesalojo, enCompactacion, corto, timers, manejador,
                 enMutex, aCpu, cpu, posee, pasos, caidas>>

hiloBloquea(p) ==
  /\ hiloIO[p] = "bloquear"
  /\ t' = IF buscable(t, p) THEN actualizarEstado(t, p, "BLOCK") ELSE t
  /\ hiloIO' = [hiloIO EXCEPT ![p] = IF buscable(t, p) THEN "enIO" ELSE "ninguno"]
  /\ UNCHANGED <<cpusLibres, semReady, semCpu, semDesalojo, enCompactacion, corto, timers,
                 manejador, enMutex, aCpu, enCPU>>

hiloDesbloquea(p) ==
  /\ hiloIO[p] = "enIO"
  /\ PasarAReady(aCpu, p)
  /\ hiloIO' = [hiloIO EXCEPT ![p] = "ninguno"]
  /\ UNCHANGED <<cpusLibres, semCpu, semDesalojo, enCompactacion, corto, timers, manejador,
                 enMutex, enCPU>>

\* Bound: the PIDs are those of Procesos.
crear_proceso(c) ==
  LET nuevos == {q \in Procesos : t.estado[q] = "INEXISTENTE"}
      p == Min(nuevos)
  IN
  /\ Atiende(c, "INIT_PROC") /\ nuevos # {}
  /\ t' = [t EXCEPT !.estado[p] = "NEW", !.listas["NEW"] = Append(@, p)]
  /\ Responde(c, "OK")
  /\ UNCHANGED <<cpusLibres, semReady, semCpu, semDesalojo, enCompactacion, corto, timers,
                 hiloIO, manejador, enMutex, cpu, posee, pasos, caidas>>

-----------------------------------------------------------------------------
(* MEM_ALLOC: Kernel Memory answers, or first asks for the CPUs to be freed. *)
(* It is inside one compaction at most.                                      *)

Compactando == \E c \in CPUs : manejador[c].pc \in {"confirmaciones", "compactando"}

km_mem_alloc(c) ==
  /\ Atiende(c, "MEM_ALLOC")
  /\ \E r \in {"OK", "ERROR"} : Responde(c, r)
  /\ UNCHANGED <<enKS, semDesalojo, enCompactacion, corto, timers, hiloIO, manejador,
                 enMutex, cpu, posee, pasos, caidas>>

\* manejar_solicitud_desalojo: every process of EXEC with a CPU but the issuer.
manejar_solicitud_desalojo(c) ==
  LET p == Head(deCpu[c]).pid
      ps == {q \in Procesos \ {p} : t.fdCpu[q] # Nadie}
      victimas == {i \in DOMAIN t.listas["EXEC"] : t.listas["EXEC"][i] \in ps}
  IN
  /\ Atiende(c, "MEM_ALLOC") /\ ~Compactando
  /\ enCompactacion' = TRUE
  /\ aCpu' = Interrumpidas(aCpu, t, ps, 2)
  /\ Sigue(c, "confirmaciones", p, Cardinality(victimas))
  /\ UNCHANGED <<enKS, semDesalojo, corto, timers, hiloIO, enMutex, cpu, posee, pasos, caidas>>

\* Mutation: the confirmations are counted and not waited for.
esperarConfirmaciones_sinEspera(c) ==
  /\ manejador[c].pc = "confirmaciones"
  /\ semDesalojo' = semDesalojo - manejador[c].arg
  /\ Sigue(c, "compactando", manejador[c].pid, 0)
  /\ UNCHANGED <<enKS, enCompactacion, corto, timers, hiloIO, enMutex, aCpu, enCPU>>

\* One sem_wait per interrupt, then MSG_DESALOJO_REALIZADO: Kernel Memory compacts.
esperarConfirmaciones(c) ==
  /\ manejador[c].pc = "confirmaciones" /\ semDesalojo >= manejador[c].arg
  /\ semDesalojo' = semDesalojo - manejador[c].arg
  /\ Sigue(c, "compactando", manejador[c].pid, 0)
  /\ UNCHANGED <<enKS, enCompactacion, corto, timers, hiloIO, enMutex, aCpu, enCPU>>

finCompactacion(c) ==
  /\ manejador[c].pc = "compactando"
  /\ enCompactacion' = FALSE
  /\ \E r \in {"OK", "ERROR"} : Responde(c, r)
  /\ Termina(c)
  /\ UNCHANGED <<enKS, semDesalojo, corto, timers, hiloIO, enMutex, enCPU>>

-----------------------------------------------------------------------------
Corto == cortoEsperaCompactacion \/ cortoSelecciona \/ cortoDevuelve \/ cortoEjecuta \/ cortoEnvia
Timer(p, c) == venceQuantum(p, c) \/ interrumpeQuantum(p, c)
HiloIO(p) == hiloBloquea(p) \/ hiloDesbloquea(p)
Manejador(c) ==
  \/ conectar(c) \/ desconectar(c)
  \/ atenderDone(c) \/ atenderSegFault(c)
  \/ atenderInterrupcionAtendida(c) \/ volverAReady(c) \/ volverAlFrente(c)
  \/ mutex_create(c)
  \/ mutex_lock_no_existe(c) \/ mutex_lock_libre(c) \/ mutex_lock_ocupado(c)
  \/ avisarBloqueado(c) \/ bloquearPorMutex(c)
  \/ mutex_unlock_ajeno(c) \/ mutex_unlock(c) \/ despertarSiguiente(c)
  \/ atenderSleep(c) \/ crear_proceso(c)
  \/ km_mem_alloc(c) \/ manejar_solicitud_desalojo(c)
  \/ esperarConfirmaciones(c) \/ finCompactacion(c)

Next ==
  \/ planificadorLargoPlazo
  \/ Corto
  \/ \E p \in Procesos, c \in CPUs : Timer(p, c)
  \/ \E p \in Procesos : HiloIO(p)
  \/ \E c \in CPUs : Manejador(c)
  \/ \E c \in CPUs : ModuloCPU(c) \/ caer(c)

Spec == Init /\ [][Next]_vars

\* Every thread keeps running; machines are not obliged to fail.
Equidad ==
  /\ WF_vars(planificadorLargoPlazo) /\ WF_vars(Corto)
  /\ \A p \in Procesos, c \in CPUs : WF_vars(Timer(p, c))
  /\ \A p \in Procesos : WF_vars(HiloIO(p))
  /\ \A c \in CPUs : WF_vars(Manejador(c)) /\ WF_vars(ModuloCPU(c))

EspecificacionJusta == Spec /\ Equidad

-----------------------------------------------------------------------------
(* Properties.                                                              *)

\* Every variable keeps its type.
TypeOK ==
  /\ t \in Tabla
  /\ cpusLibres \in Seq(CPUs)
  /\ semReady \in Nat /\ semCpu \in Nat /\ semDesalojo \in Nat
  /\ enCompactacion \in BOOLEAN
  /\ corto \in [pc : {"flag", "tomar", "ejecutar", "enviar"}, p : Procesos \cup {Nadie},
                c : CPUs \cup {Nadie}, nivel : Int]
  /\ timers \in [Procesos -> [CPUs -> [dormidos : Nat, vencidos : Nat]]]
  /\ hiloIO \in [Procesos -> {"ninguno", "bloquear", "enIO"}]
  /\ manejador \in [CPUs -> [pc : {"desconectado", "libre", "desalojado", "avisar",
                                   "bloquear", "despertar", "confirmaciones", "compactando",
                                   "terminado"},
                             pid : Procesos \cup {Nadie}, arg : Nat \cup Args]]
  /\ tomador \in [Mutexes -> Procesos \cup {Nadie}]
  /\ cola \in [Mutexes -> Seq(Procesos)]
  /\ creados \in SUBSET Mutexes /\ adelantado \in BOOLEAN
  /\ aCpu \in [CPUs -> Seq(MensajesAlCPU)]
  /\ deCpu \in [CPUs -> Seq(MensajesDelCPU)]
  /\ cpu \in [CPUs -> [modo : {"desconectada", "espera", "ejecuta", "respuesta", "ack", "caida"},
                       pid : Procesos \cup {Nadie}, sys : ConRespuesta \cup {Nadie},
                       arg : Args, pend : SUBSET MensajesAlCPU]]
  /\ posee \in [Procesos -> SUBSET Mutexes]
  /\ pasos \in [Procesos -> Nat]
  /\ caidas \in Nat

\* Several properties speak of a system that has lost no CPU connection: the
\* recovery of the process of a lost one is examined apart.
SinDesconexiones == \A c \in CPUs : manejador[c].pc # "terminado"

\* MUTEX_LOCK queues a process, answers and blocks it in three sections.  Some of the
\* properties hold until another CPU unlocks the mutex between them: the answer then
\* goes to whatever CPU the process is on, and BLOCK comes after its wake-up.
SinAdelantos == ~adelantado

Apariciones(s, x) == Cardinality({i \in DOMAIN s : s[i] = x})
EnViaje(c, tipo) == {i \in DOMAIN aCpu[c] : aCpu[c][i].tipo = tipo}

\* CPU c executes instructions of p: not when the answer that blocks p is on its way.
Ejecuta(c, p) ==
  /\ cpu[c].modo \in {"ejecuta", "respuesta"} /\ cpu[c].pid = p
  /\ EnViaje(c, "BLOQUEADO") = {}

\* The lists agree with the PCBs: a process is once in the list of its state, in
\* READY in the queue of its current priority, and nowhere else.  Sections of
\* several threads (eviction, inheritance, dispatch) move it.
ListasSegunEstado ==
  SinDesconexiones =>
    \A p \in Procesos :
      /\ \A l \in ConLista :
           Apariciones(t.listas[l], p) = IF t.estado[p] = l THEN 1 ELSE 0
      /\ \A k \in Colas :
           Apariciones(t.ready[k], p) = IF t.estado[p] = "READY" /\ Nivel(t, p) = k THEN 1 ELSE 0

\* What a CPU executes is what the scheduler believes: the process is in EXEC with
\* that CPU in its PCB, so no two CPUs execute one process.
EjecucionSegunTablas ==
  SinDesconexiones =>
    \A c \in CPUs, p \in Procesos :
      Ejecuta(c, p) => t.estado[p] = "EXEC" /\ t.fdCpu[p] = c

\* A PID goes only to a CPU that waits for one: each CPU is at most one of free,
\* chosen by the short-term scheduler, with a PID on its way, and executing.
DespachoSoloACPULibre ==
  \A c \in CPUs :
    Apariciones(cpusLibres, c) + (IF corto.c = c THEN 1 ELSE 0)
      + Cardinality(EnViaje(c, "PID"))
      + (IF \E p \in Procesos : Ejecuta(c, p) THEN 1 ELSE 0) <= 1

\* No token of the semaphores is lost: the short-term scheduler can never sleep
\* while a CPU is free and a process is READY.
TokensSuficientes ==
  SinDesconexiones =>
    /\ semCpu >= Len(cpusLibres)
    /\ semReady >= Cardinality({p \in Procesos : t.estado[p] = "READY"
                                  /\ ~(corto.pc = "ejecutar" /\ corto.p = p)})

\* A process in EXEC is somebody's business: a CPU executes it, its PID or a
\* message about it is on its way, or a thread is about to move it.
EjecucionTieneResponsable ==
  SinDesconexiones =>
    \A p \in Procesos : t.estado[p] = "EXEC" =>
      \/ corto.pc = "enviar" /\ corto.p = p
      \/ hiloIO[p] = "bloquear"
      \/ \E c \in CPUs : \/ cpu[c].pid = p
                         \/ cpu[c].modo = "caida" /\ t.fdCpu[p] = c
                         \/ \E i \in DOMAIN aCpu[c] : aCpu[c][i] = PidEnviado(p)
                         \/ \E i \in DOMAIN deCpu[c] : deCpu[c][i].pid = p
                         \/ /\ manejador[c].pid = p
                            /\ manejador[c].pc \in {"desalojado", "bloquear"}

\* A process in BLOCK will be woken up: it waits for a mutex, for its IO, or the
\* thread that handed the mutex over to it is about to move it (mutex_unlock).
BloqueoTieneDespertador ==
  \A p \in Procesos : t.estado[p] = "BLOCK" =>
    \/ \E m \in Mutexes : Contains(cola[m], p)
    \/ hiloIO[p] = "enIO"
    \/ \E c \in CPUs : manejador[c].pc = "despertar" /\ manejador[c].pid = p

\* The wait queues are sound: a free mutex has no waiters, and a process waits for
\* one mutex at most, once, and is not its owner.
EsperasCoherentes ==
  /\ \A m \in Mutexes : tomador[m] = Nadie => cola[m] = <<>>
  /\ \A p \in Procesos : \A m, n \in Mutexes :
       Contains(cola[m], p) =>
         /\ Apariciones(cola[m], p) = 1 /\ tomador[m] # p
         /\ Contains(cola[n], p) => m = n

\* No CPU module has ended.  The process of one that has is recovered and dispatched
\* again, whatever it was waiting for.
SinCaidas == \A c \in CPUs : cpu[c].modo # "caida"

\* Mutual exclusion, seen by the programs: while one executes, the scheduler has it
\* as the owner of every mutex it believes it holds.  Not after an unlock overtakes
\* mutex_lock: the answer it sends may be read by a CPU that makes another call.
PosesionReal ==
  SinCaidas /\ SinAdelantos =>
    \A c \in CPUs, p \in Procesos, m \in Mutexes :
      Ejecuta(c, p) /\ cpu[c].sys # "MUTEX_UNLOCK" /\ m \in posee[p] => tomador[m] = p

\* An inherited priority ends with the last mutex: a process is never less urgent
\* than it was created, and more urgent only while it owns a mutex.
PrioridadHeredadaConMutex ==
  \A p \in Procesos :
    /\ t.prioridad[p] <= PrioridadOriginal[p]
    /\ t.prioridad[p] # PrioridadOriginal[p] => \E m \in Mutexes : tomador[m] = p

\* EXIT is for ever, whatever timer, answer or thread arrives late.
ExitEsTerminal ==
  [][\A p \in Procesos : t.estado[p] = "EXIT" => t'.estado[p] = "EXIT"]_vars

\* The CPU modules follow the protocol: none exits because of a message.
CPUsSiguenElProtocolo ==
  Cardinality({c \in CPUs : cpu[c].modo = "caida"}) <= caidas

\* Every process that is created finishes.
TodoTermina ==
  \A p \in Procesos : t.estado[p] = "NEW" ~> t.estado[p] = "EXIT"
=============================================================================
