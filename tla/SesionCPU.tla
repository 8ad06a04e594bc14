----------------------------- MODULE SesionCPU -----------------------------
(***************************************************************************)
(* The session of each CPU with Kernel Memory: the instruction cycle       *)
(* (cpu/src), the thread of Kernel Memory that serves instructions, saves  *)
(* contexts and sends segment tables (handlers/handler_cpu.c and           *)
(* managers/process_manager.c), and the map of the Memory Sticks another   *)
(* thread writes to the same sockets when one connects.                    *)
(*                                                                         *)
(* A socket is a FIFO sequence of frames.  Kernel Memory writes one frame  *)
(* per step, since two of its threads write to the socket of a CPU.  A     *)
(* context is its program counter and its segment table, a table is the    *)
(* number of its last change (0 when it is empty).  Of the scheduler,      *)
(* which Planificador models, only what the sessions see of it is kept:    *)
(* there is one mutex, and each of its handlers is one step but for a      *)
(* MUTEX_LOCK that has to wait, which queues the process, answers, and     *)
(* blocks it and frees its CPU in three.                                   *)
(***************************************************************************)
EXTENDS Integers, FiniteSets, SequencesExt

CONSTANTS
  Procesos, CPUs, Nadie,
  Programa,           \* the instructions of each process, in order
  MaxInterrupciones,  \* bound: interrupts sent
  MaxReubicaciones,   \* bound: moves of the segments of a process
  MaxSticks,          \* bound: Memory Sticks that connect after the CPUs
  MaxRechazos         \* bound: MEM_ALLOC that do not fit

\* The calls that wait for the answer of the scheduler, and every instruction.
LlamadasMem == {"MEM_ALLOC", "MEM_FREE", "INIT_PROC"}
Llamadas == LlamadasMem \cup {"MUTEX_CREATE", "MUTEX_LOCK", "MUTEX_UNLOCK"}
Instrucciones == Llamadas \cup {"NOOP", "MEM", "SLEEP", "SEG_FAULT", "EXIT"}

ASSUME SesionCPUAssumption ==
  /\ Nadie \notin Procesos \cup CPUs
  /\ Programa \in [Procesos -> Seq(Instrucciones)]
  /\ MaxInterrupciones \in Nat /\ MaxReubicaciones \in Nat /\ MaxSticks \in Nat
  /\ MaxRechazos \in Nat /\ IsFiniteSet(CPUs)

VARIABLES
  cpu,      \* the cycle of each CPU
  aKM,      \* socket: frames from each CPU to Kernel Memory
  deKM,     \* socket: frames from Kernel Memory to each CPU
  aKS,      \* socket: messages from each CPU to the scheduler
  deKS,     \* socket: messages from the scheduler to each CPU
  sesion,   \* the thread of Kernel Memory that serves each CPU
  aviso,    \* frames the thread of a new Memory Stick has yet to write
  km,       \* what Kernel Memory keeps of each process
  ks,       \* what the scheduler keeps, and the interrupt it has decided to send
  real,     \* the program counter each process has reached, wherever it is
  usos,     \* interrupts, moves, sticks and refusals so far
  desvios   \* what has happened that the design does not foresee

enCPU == <<cpu, aKM, aKS, real>>
enKM == <<sesion, aviso, km>>
vars == <<cpu, aKM, deKM, aKS, deKS, sesion, aviso, km, ks, real, usos, desvios>>

\* The values of desvios: "exit", Kernel Memory destroys a process whose session is open;
\* "mutex", a process that waits for a mutex saves its context late; "interrupcion", a CPU
\* leaves its process or ends because of an interrupt it did not expect; "stick", a stick
\* connects late; "bloqueo", the mutex is handed to a process that a thread has queued and
\* is still to block; "reubicado", the segments of a process move while it is in EXEC.
Trama(tipo) == [t |-> tipo, pid |-> Nadie, pc |-> 0, tabla |-> 0]
CPUOciosa == [pc |-> "ocioso", pid |-> Nadie, ctx |-> 0, tabla |-> 0, instr |-> Trama("nada"),
              espera |-> Nadie, tras |-> Nadie]

Init ==
  /\ cpu = [c \in CPUs |-> CPUOciosa]
  /\ aKM = [c \in CPUs |-> <<>>] /\ deKM = [c \in CPUs |-> <<>>]
  /\ aKS = [c \in CPUs |-> <<>>] /\ deKS = [c \in CPUs |-> <<>>]
  /\ sesion = [c \in CPUs |-> [pc |-> "mensaje", pid |-> Nadie, envio |-> <<>>]]
  /\ aviso = <<>>
  /\ km = [p \in Procesos |-> [vivo |-> TRUE, pc |-> 1, segmentos |-> 0, cambios |-> 0]]
  /\ ks = [estado |-> [p \in Procesos |-> "READY"], en |-> [p \in Procesos |-> Nadie],
           libres |-> CPUs, tomador |-> Nadie, cola |-> <<>>, interrumpe |-> <<>>,
           manejador |-> [c \in CPUs |-> [pc |-> "libre", pid |-> Nadie]]]
  /\ real = [p \in Procesos |-> 1]
  /\ usos = [interrupciones |-> 0, reubicaciones |-> 0, sticks |-> 0, rechazos |-> 0]
  /\ desvios = {}

-----------------------------------------------------------------------------
(* The CPU.                                                                 *)

Lee(c) == Head(deKM[c])
EnPC(c, pc) == cpu[c].pc = pc
\* The CPU reads the next frame of Kernel Memory, or the next message of the scheduler.
LeeKM(c, pc) == EnPC(c, pc) /\ deKM[c] # <<>> /\ deKM' = [deKM EXCEPT ![c] = Tail(@)]
LeeKS(c, pc) == EnPC(c, pc) /\ deKS[c] # <<>> /\ deKS' = [deKS EXCEPT ![c] = Tail(@)]
EscribeKM(c, tramas) == aKM' = [aKM EXCEPT ![c] = @ \o tramas]
EscribeKS(c, tipo) == aKS' = [aKS EXCEPT ![c] = Append(@, [t |-> tipo, pid |-> cpu[c].pid])]
Va(c, pc) == cpu' = [cpu EXCEPT ![c].pc = pc]
SoloKM == UNCHANGED <<aKS, deKS, sesion, aviso, km, ks, usos>>

\* MSG_FETCH_CPU and the program counter, with the record of the CPU that makes the cycle.
fetch(c, registro) ==
  /\ cpu' = [cpu EXCEPT ![c] = [registro EXCEPT !.pc = "respuesta"]]
  /\ EscribeKM(c, <<Trama("FETCH"), [Trama("pc") EXCEPT !.pc = registro.ctx]>>)
\* The context goes with MSG_INTERRUPT; "tras" is what follows the answer.
guardar_contexto_km(c, registro, tras) ==
  /\ cpu' = [cpu EXCEPT ![c] = [registro EXCEPT !.pc = "okGuarda", !.tras = tras]]
  /\ EscribeKM(c, <<Trama("INTERRUPT"), [Trama("pid") EXCEPT !.pid = registro.pid],
                    [Trama("contexto") EXCEPT !.pid = registro.pid, !.pc = registro.ctx]>>)
\* The instruction is done and the program goes on with the next one.
Avanzada(c) == [cpu[c] EXCEPT !.ctx = @ + 1]
Avanza(c) == real' = [real EXCEPT ![cpu[c].pid] = cpu[c].ctx + 1]

\* Anything that is not an order to run is dropped.
esperar_pid(c) ==
  LET m == Head(deKS[c]) IN
  /\ LeeKS(c, "ocioso")
  /\ IF m.t = "PID"
     THEN /\ cpu' = [cpu EXCEPT ![c] = [CPUOciosa EXCEPT !.pc = "mapaCod", !.pid = m.pid]]
          /\ EscribeKM(c, <<Trama("INIT")>>)
     ELSE UNCHANGED <<cpu, aKM>>
  /\ UNCHANGED <<deKM, aKS, enKM, ks, real, usos, desvios>>

recibir_mapa(c) ==
  /\ \/ LeeKM(c, "mapaCod") /\ Va(c, IF Lee(c).t = "MAPA" THEN "mapaBuf" ELSE "fin") /\ aKM' = aKM
     \/ /\ LeeKM(c, "mapaBuf")
        /\ IF Lee(c).t = "mapa"
           THEN Va(c, "contexto") /\ EscribeKM(c, <<[Trama("pid") EXCEPT !.pid = cpu[c].pid]>>)
           ELSE Va(c, "fin") /\ aKM' = aKM
  /\ SoloKM /\ UNCHANGED <<real, desvios>>

\* A buffer of another size is not a context.
deserializar_contexto(c) == Lee(c).t = "contexto"

recibirContexto(c) ==
  /\ LeeKM(c, "contexto")
  /\ IF deserializar_contexto(c)
     THEN fetch(c, [cpu[c] EXCEPT !.ctx = Lee(c).pc, !.tabla = Lee(c).tabla])
     ELSE Va(c, "fin") /\ aKM' = aKM
  /\ SoloKM /\ UNCHANGED <<real, desvios>>

\* Any answer other than MSG_ERROR is a good one, and what follows it the instruction.
recibirInstruccion(c) ==
  /\ \/ LeeKM(c, "respuesta") /\ Va(c, IF Lee(c).t = "ERROR" THEN "fin" ELSE "instruccion")
     \/ LeeKM(c, "instruccion") /\ cpu' = [cpu EXCEPT ![c].instr = Lee(c), ![c].pc = "tabla"]
  /\ SoloKM /\ UNCHANGED <<aKM, real, desvios>>

\* Mutation: the table of the first cycle is kept.
actualizar_tabla_segmentos_unaVez(c) ==
  /\ \/ LeeKM(c, "tabla") /\ Va(c, IF Lee(c).t = "NO_VACIA" THEN "segmentos" ELSE "ejecuta")
     \/ /\ LeeKM(c, "segmentos")
        /\ cpu' = [cpu EXCEPT ![c].pc = "ejecuta",
                              ![c].tabla = IF Lee(c).t = "segmentos" /\ @ = 0 THEN Lee(c).tabla ELSE @]
  /\ SoloKM /\ UNCHANGED <<aKM, real, desvios>>
\* An empty table, or a frame that is neither, leaves the one the CPU has.
actualizar_tabla_segmentos(c) ==
  /\ \/ LeeKM(c, "tabla") /\ Va(c, IF Lee(c).t = "NO_VACIA" THEN "segmentos" ELSE "ejecuta")
     \/ /\ LeeKM(c, "segmentos")
        /\ cpu' = [cpu EXCEPT ![c].pc = "ejecuta",
                              ![c].tabla = IF Lee(c).t = "segmentos" THEN Lee(c).tabla ELSE @]
  /\ SoloKM /\ UNCHANGED <<aKM, real, desvios>>

\* The CPU goes back to wait for a PID.
Ocioso(c) == cpu' = [cpu EXCEPT ![c] = CPUOciosa]
\* Something the design does not foresee has happened.
Desvio(condicion, causa) == desvios' = IF condicion THEN desvios \cup {causa} ELSE desvios

Operacion(c) == Programa[cpu[c].instr.pid][cpu[c].instr.pc]

noop(c) ==
  /\ cpu' = [cpu EXCEPT ![c] = [Avanzada(c) EXCEPT !.pc = "interrupciones"]] /\ Avanza(c)
  /\ UNCHANGED <<aKM, aKS>>
\* SLEEP, STDIN and STDOUT save the context before the scheduler knows of the call.
syscall_sleep(c) == guardar_contexto_km(c, Avanzada(c), "SLEEP") /\ Avanza(c) /\ UNCHANGED aKS
syscall_exit(c) ==
  /\ Va(c, "okExit")
  /\ EscribeKS(c, "DONE")
  /\ EscribeKM(c, <<Trama("EXIT_CPU"), [Trama("pid") EXCEPT !.pid = cpu[c].pid],
                    [Trama("contexto") EXCEPT !.pid = cpu[c].pid, !.pc = cpu[c].ctx]>>)
  /\ UNCHANGED real

\* A frame that is no instruction ends the CPU, and so does the MMU without segments.
ejecutar(c) ==
  /\ EnPC(c, "ejecuta")
  /\ IF cpu[c].instr.t # "instruccion"
     THEN Va(c, "fin") /\ UNCHANGED <<aKM, aKS, real>>
     ELSE CASE Operacion(c) = "NOOP" -> noop(c)
            [] Operacion(c) = "MEM" ->
                 IF cpu[c].tabla = 0 THEN Va(c, "fin") /\ UNCHANGED <<aKM, aKS, real>> ELSE noop(c)
            [] Operacion(c) = "SLEEP" -> syscall_sleep(c)
            [] Operacion(c) = "EXIT" -> syscall_exit(c)
            [] Operacion(c) = "SEG_FAULT" ->
                 Va(c, "ackSegFault") /\ EscribeKS(c, "SEG_FAULT") /\ UNCHANGED <<aKM, real>>
            [] Operacion(c) \in Llamadas ->
                 Va(c, "respKS") /\ EscribeKS(c, Operacion(c)) /\ UNCHANGED <<aKM, real>>
  /\ UNCHANGED <<deKM, deKS, enKM, ks, usos, desvios>>

\* The answer of the scheduler.  An interrupt that comes before it is kept by the calls
\* that look for one, more than one only by MUTEX_LOCK.
respuestaKS(c) ==
  LET m == Head(deKS[c])
      op == Operacion(c)
      guarda == op # "MUTEX_CREATE" /\ (op = "MUTEX_LOCK" \/ cpu[c].espera = Nadie)
  IN
  /\ LeeKS(c, "respKS")
  /\ \/ /\ m.t = "INTERRUPT" /\ guarda
        /\ cpu' = [cpu EXCEPT ![c].espera = m.pid]
        /\ UNCHANGED <<aKM, real, desvios>>
     \/ m.t = "OK" /\ noop(c) /\ UNCHANGED desvios
     \/ /\ m.t = "BLOQUEADO" /\ op = "MUTEX_LOCK"
        /\ guardar_contexto_km(c, Avanzada(c), "BLOQUEADO") /\ Avanza(c) /\ UNCHANGED desvios
     \/ /\ m.t # "OK" /\ ~(m.t = "BLOQUEADO" /\ op = "MUTEX_LOCK")
        /\ ~(m.t = "INTERRUPT" /\ guarda)
        /\ Va(c, IF op \in LlamadasMem THEN "interrupciones" ELSE "fin")
        /\ Desvio(m.t # "ERROR", "interrupcion")
        /\ UNCHANGED <<aKM, real>>
  /\ UNCHANGED <<deKM, aKS, enKM, ks, usos>>

\* What follows the context that Kernel Memory has saved.
guardado(c) ==
  /\ LeeKM(c, "okGuarda")
  /\ IF Lee(c).t = "OK" THEN Ocioso(c) ELSE Va(c, "fin")
  /\ IF Lee(c).t = "OK" /\ cpu[c].tras \in {"SLEEP", "ATENDIDA"} THEN EscribeKS(c, cpu[c].tras) ELSE UNCHANGED aKS
  /\ UNCHANGED <<aKM, deKS, enKM, ks, real, usos, desvios>>

okExit(c) ==
  /\ LeeKM(c, "okExit")
  /\ IF Lee(c).t = "OK" THEN Ocioso(c) ELSE Va(c, "fin")
  /\ SoloKM /\ UNCHANGED <<aKM, real, desvios>>

\* Any message of the scheduler counts as the confirmation.
manejar_seg_fault(c) ==
  /\ LeeKS(c, "ackSegFault")
  /\ Ocioso(c) /\ EscribeKM(c, <<Trama("SEG_FAULT")>>)
  /\ UNCHANGED <<deKM, aKS, enKM, ks, real, usos, desvios>>

\* The interrupt that was kept; one for another process ends the cycle as well, and
\* nobody is told.
atender_interrupcion_en_espera(c) ==
  /\ EnPC(c, "interrupciones") /\ cpu[c].espera # Nadie
  /\ IF cpu[c].espera = cpu[c].pid
     THEN guardar_contexto_km(c, cpu[c], "ATENDIDA") /\ UNCHANGED desvios
     ELSE Ocioso(c) /\ Desvio(TRUE, "interrupcion") /\ UNCHANGED aKM
  /\ UNCHANGED <<deKM, aKS, deKS, enKM, ks, real, usos>>

\* Mutation: the scheduler is told before Kernel Memory has saved the context.
atender_interrupcion_avisaAntes(c) ==
  /\ EnPC(c, "interrupciones") /\ cpu[c].espera = Nadie
  /\ IF deKS[c] = <<>> THEN fetch(c, cpu[c]) /\ UNCHANGED <<deKS, aKS>>
     ELSE /\ LeeKS(c, "interrupciones")
          /\ IF Head(deKS[c]).t # "INTERRUPT" THEN Va(c, "fin") /\ UNCHANGED <<aKM, aKS>>
             ELSE IF Head(deKS[c]).pid = cpu[c].pid
             THEN guardar_contexto_km(c, cpu[c], Nadie) /\ EscribeKS(c, "ATENDIDA")
             ELSE fetch(c, cpu[c]) /\ UNCHANGED aKS
  /\ UNCHANGED <<deKM, enKM, ks, real, usos, desvios>>
\* The CPU looks for an interrupt and does not wait for one.
atender_interrupcion(c) ==
  /\ EnPC(c, "interrupciones") /\ cpu[c].espera = Nadie
  /\ IF deKS[c] = <<>> THEN fetch(c, cpu[c]) /\ UNCHANGED deKS
     ELSE /\ LeeKS(c, "interrupciones")
          /\ IF Head(deKS[c]).t # "INTERRUPT" THEN Va(c, "fin") /\ UNCHANGED aKM
             ELSE IF Head(deKS[c]).pid = cpu[c].pid THEN guardar_contexto_km(c, cpu[c], "ATENDIDA")
             ELSE fetch(c, cpu[c])
  /\ UNCHANGED <<deKM, aKS, enKM, ks, real, usos, desvios>>

Ciclo(c) ==
  \/ esperar_pid(c) \/ recibir_mapa(c) \/ recibirContexto(c) \/ recibirInstruccion(c)
  \/ actualizar_tabla_segmentos(c) \/ ejecutar(c) \/ respuestaKS(c) \/ guardado(c) \/ okExit(c)
  \/ manejar_seg_fault(c) \/ atender_interrupcion_en_espera(c) \/ atender_interrupcion(c)

-----------------------------------------------------------------------------
(* Kernel Memory: the thread of each CPU, and that of a new Memory Stick.   *)

Pedido(c) == Head(aKM[c])
\* The thread of CPU c, done with what it had to write, reads the next n frames.
Atiende(c, pc, n) ==
  /\ sesion[c].pc = pc /\ sesion[c].envio = <<>> /\ Len(aKM[c]) >= n
  /\ aKM' = [aKM EXCEPT ![c] = SubSeq(@, n + 1, Len(@))]
Sigue(c, pc, tramas) == sesion' = [sesion EXCEPT ![c].pc = pc, ![c].envio = tramas]
Tabla(p) == IF km[p].segmentos = 0 THEN 0 ELSE km[p].cambios
SoloSesion == UNCHANGED <<cpu, aKS, deKS, ks, real, usos>>

enviar(c) ==
  /\ sesion[c].envio # <<>>
  /\ deKM' = [deKM EXCEPT ![c] = Append(@, Head(sesion[c].envio))]
  /\ sesion' = [sesion EXCEPT ![c].envio = Tail(@)]
  /\ SoloSesion /\ UNCHANGED <<aKM, aviso, km, desvios>>

\* The registers of the context that comes with the third frame; the table is not taken.
actualizar_contexto(c) ==
  LET ctx == aKM[c][3] IN
  km' = IF km[ctx.pid].vivo THEN [km EXCEPT ![ctx.pid].pc = ctx.pc] ELSE km

\* Between two processes only MSG_INIT_CPU and MSG_INTERRUPT mean something: of
\* anything else, MSG_EXIT_CPU and what follows it included, one frame is dropped.
atender_mensaje_cpu(c) ==
  /\ \/ /\ Atiende(c, "mensaje", 1) /\ Pedido(c).t = "INIT"
        /\ Sigue(c, "pidInit", <<Trama("MAPA"), Trama("mapa")>>) /\ UNCHANGED km
     \/ /\ Atiende(c, "mensaje", 3) /\ Pedido(c).t = "INTERRUPT"
        /\ Sigue(c, "mensaje", <<Trama("OK")>>) /\ actualizar_contexto(c)
     \/ /\ Atiende(c, "mensaje", 1) /\ Pedido(c).t \notin {"INIT", "INTERRUPT"}
        /\ UNCHANGED <<sesion, km>>
  /\ SoloSesion /\ UNCHANGED <<deKM, aviso, desvios>>

\* Another CPU has still to save the context the process blocked on a mutex with: it has not
\* read the answer that blocks it, or the context it sent has not been read.
SinGuardar(c, p) ==
  \E d \in CPUs \ {c} :
    \/ /\ cpu[d].pid = p /\ EnPC(d, "respKS")
       /\ \E i \in DOMAIN deKS[d] : deKS[d][i].t = "BLOQUEADO"
    \/ /\ cpu[d].tras = "BLOQUEADO"
       /\ \E i \in DOMAIN aKM[d] : aKM[d][i].t = "contexto" /\ aKM[d][i].pid = p

\* A process that is no longer there gets no answer.
inicializar_proceso(c) ==
  LET p == Pedido(c).pid IN
  /\ Atiende(c, "pidInit", 1)
  /\ IF km[p].vivo
     THEN sesion' = [sesion EXCEPT ![c] =
            [pc |-> "lazo", pid |-> p,
             envio |-> <<[Trama("contexto") EXCEPT !.pid = p, !.pc = km[p].pc, !.tabla = Tabla(p)]>>]]
     ELSE Sigue(c, "mensaje", <<>>)
  /\ Desvio(SinGuardar(c, p), "mutex")
  /\ SoloSesion /\ UNCHANGED <<deKM, aviso, km>>

\* The loop of manejar_proceso looks whether the process is there before each request.
existe_proceso(c) ==
  /\ Atiende(c, "lazo", 0)
  /\ Sigue(c, IF km[sesion[c].pid].vivo THEN "pedido" ELSE "mensaje", <<>>)
  /\ SoloSesion /\ UNCHANGED <<deKM, aviso, km, desvios>>

\* Mutation: the instruction is the one of the context that was last saved.
devolver_instruccion_guardado(p, pc) ==
  IF pc \in DOMAIN Programa[p]
  THEN <<[Trama("instruccion") EXCEPT !.pid = p, !.pc = km[p].pc]>> ELSE <<>>
devolver_instruccion(p, pc) ==
  IF pc \in DOMAIN Programa[p] THEN <<[Trama("instruccion") EXCEPT !.pid = p, !.pc = pc]>> ELSE <<>>

notificar_segmentos_a_cpu(p) ==
  IF Tabla(p) = 0 THEN <<Trama("VACIA")>>
  ELSE <<Trama("NO_VACIA"), [Trama("segmentos") EXCEPT !.tabla = Tabla(p)]>>

manejar_proceso(c) ==
  LET p == sesion[c].pid IN
  /\ \/ /\ Atiende(c, "pedido", 2) /\ Pedido(c).t = "FETCH"
        /\ LET instruccion == devolver_instruccion(p, aKM[c][2].pc) IN
             Sigue(c, "lazo", IF instruccion = <<>> THEN <<Trama("ERROR")>>
                              ELSE <<Trama("OK")>> \o instruccion \o notificar_segmentos_a_cpu(p))
        /\ UNCHANGED km
     \/ /\ Atiende(c, "pedido", 3) /\ Pedido(c).t \in {"INTERRUPT", "EXIT_CPU"}
        /\ Sigue(c, "mensaje", <<Trama("OK")>>) /\ actualizar_contexto(c)
     \/ /\ Atiende(c, "pedido", 1) /\ Pedido(c).t \notin {"FETCH", "INTERRUPT", "EXIT_CPU"}
        /\ Sigue(c, IF Pedido(c).t = "SEG_FAULT" THEN "mensaje" ELSE "lazo", <<>>) /\ UNCHANGED km
  /\ SoloSesion /\ UNCHANGED <<deKM, aviso, desvios>>

Sesion(c) ==
  \/ enviar(c) \/ atender_mensaje_cpu(c) \/ inicializar_proceso(c)
  \/ existe_proceso(c) \/ manejar_proceso(c)

\* A Memory Stick connects: its map goes to every CPU, one after the other.
notificar_mapa_a_todas(orden) ==
  /\ usos.sticks < MaxSticks /\ aviso = <<>>
  /\ aviso' = [i \in 1..2 * Len(orden) |->
                 [cpu |-> orden[(i + 1) \div 2], t |-> IF i % 2 = 1 THEN "MAPA" ELSE "mapa"]]
  /\ usos' = [usos EXCEPT !.sticks = @ + 1]
  /\ desvios' = desvios \cup {"stick"}
  /\ UNCHANGED <<enCPU, deKM, deKS, sesion, km, ks>>

avisar ==
  /\ aviso # <<>>
  /\ deKM' = [deKM EXCEPT ![Head(aviso).cpu] = Append(@, Trama(Head(aviso).t))]
  /\ aviso' = Tail(aviso)
  /\ UNCHANGED <<enCPU, deKS, sesion, km, ks, usos, desvios>>

\* A compaction moves the segments of every process, and a suspension with the resumption
\* that follows it those of one.  Both are meant for processes that no CPU runs, but the
\* one who dispatches may have looked for the compaction before it began, and the timer
\* that suspends for the state before the process was dispatched.
reubicar(p) ==
  /\ usos.reubicaciones < MaxReubicaciones
  /\ km[p].vivo /\ Tabla(p) # 0
  /\ usos' = [usos EXCEPT !.reubicaciones = @ + 1]
  /\ km' = [km EXCEPT ![p].cambios = @ + 1]
  /\ Desvio(ks.estado[p] = "EXEC", "reubicado")
  /\ UNCHANGED <<enCPU, deKM, deKS, sesion, aviso, ks>>

-----------------------------------------------------------------------------
(* The scheduler: the thread of each CPU, the dispatcher and the interrupts. *)

\* The thread of CPU c, done with the last message, takes the next.  A message leaves the
\* socket with its answer, or with the last step of a handler that sends none.
Recibido(c, tipo) == aKS[c] # <<>> /\ Head(aKS[c]).t = tipo
Mensaje(c, tipo) == ks.manejador[c].pc = "libre" /\ Recibido(c, tipo)
Atendido(c) == aKS' = [aKS EXCEPT ![c] = Tail(@)]
EscribeCPU(c, tipo, p) == deKS' = [deKS EXCEPT ![c] = Append(@, [t |-> tipo, pid |-> p])]
\* Process p leaves CPU c, which is free again; "en", its fd_cpu, is kept.
Deja(registro, c, p, estado) == [registro EXCEPT !.estado[p] = estado, !.libres = @ \cup {c}]
SoloKS == UNCHANGED <<cpu, aKM, deKM, sesion, aviso, real, usos>>

despachar(c, p) ==
  /\ c \in ks.libres /\ ks.estado[p] = "READY"
  /\ ks' = [ks EXCEPT !.estado[p] = "EXEC", !.en[p] = c, !.libres = @ \ {c}]
  /\ EscribeCPU(c, "PID", p)
  /\ SoloKS /\ UNCHANGED <<aKS, km, desvios>>

\* A timer, a process of higher priority or a compaction decides on the CPU first, and
\* writes to it later.
decidir_interrupcion(p) ==
  /\ usos.interrupciones < MaxInterrupciones /\ ks.estado[p] = "EXEC"
  /\ usos' = [usos EXCEPT !.interrupciones = @ + 1]
  /\ ks' = [ks EXCEPT !.interrumpe = Append(@, [cpu |-> ks.en[p], pid |-> p])]
  /\ UNCHANGED <<enCPU, deKM, deKS, enKM, desvios>>
enviar_interrupcion_cpu(i) ==
  /\ EscribeCPU(ks.interrumpe[i].cpu, "INTERRUPT", ks.interrumpe[i].pid)
  /\ ks' = [ks EXCEPT !.interrumpe = RemoveAt(@, i)]
  /\ SoloKS /\ UNCHANGED <<aKS, km, desvios>>

\* Kernel Memory destroys the process; if the session of its CPU has not come to wait
\* for the last request, that request will not be understood.
km_notificar_exit(c) ==
  LET p == Head(aKS[c]).pid IN
  /\ Mensaje(c, "DONE") \/ Mensaje(c, "SEG_FAULT")
  /\ km[p].vivo
  /\ km' = [km EXCEPT ![p].vivo = FALSE]
  /\ Desvio(Mensaje(c, "DONE") /\ sesion[c].pc = "lazo", "exit")
  /\ SoloKS /\ UNCHANGED <<aKS, deKS, ks>>
\* Mutation: a program that faults is ended without an answer.
finalizar_proceso_sinRespuesta(c) ==
  LET p == Head(aKS[c]).pid IN
  /\ Mensaje(c, "DONE") \/ Mensaje(c, "SEG_FAULT")
  /\ ~km[p].vivo
  /\ ks' = Deja(ks, c, p, "EXIT")
  /\ UNCHANGED deKS
  /\ Atendido(c)
  /\ SoloKS /\ UNCHANGED <<km, desvios>>
finalizar_proceso(c) ==
  LET p == Head(aKS[c]).pid IN
  /\ Mensaje(c, "DONE") \/ Mensaje(c, "SEG_FAULT")
  /\ ~km[p].vivo
  /\ ks' = Deja(ks, c, p, "EXIT")
  /\ IF Mensaje(c, "SEG_FAULT") THEN EscribeCPU(c, "OK", p) ELSE UNCHANGED deKS
  /\ Atendido(c)
  /\ SoloKS /\ UNCHANGED <<km, desvios>>

interrupcionAtendida(c) ==
  /\ Mensaje(c, "ATENDIDA")
  /\ ks' = Deja(ks, c, Head(aKS[c]).pid, "READY")
  /\ Atendido(c)
  /\ SoloKS /\ UNCHANGED <<deKS, km, desvios>>

atender_sleep_ks(c) ==
  /\ Mensaje(c, "SLEEP")
  /\ ks' = Deja(ks, c, Head(aKS[c]).pid, "BLOCK")
  /\ Atendido(c)
  /\ SoloKS /\ UNCHANGED <<deKS, km, desvios>>
finalizar_io_y_desbloquear(p) ==
  /\ ks.estado[p] = "BLOCK" /\ ~Contains(ks.cola, p)
  /\ ks' = [ks EXCEPT !.estado[p] = "READY"]
  /\ SoloKS /\ UNCHANGED <<aKS, deKS, km, desvios>>

\* The answer goes to the CPU the process is in, wherever the call came from.
mutex_lock_libre(c) ==
  LET p == Head(aKS[c]).pid IN
  /\ Mensaje(c, "MUTEX_LOCK") /\ ks.tomador = Nadie
  /\ ks' = [ks EXCEPT !.tomador = p]
  /\ EscribeCPU(ks.en[p], "OK", p) /\ Atendido(c)
  /\ SoloKS /\ UNCHANGED <<km, desvios>>
\* The process is queued, and mutex_listas released; the rest of the handler follows.
mutex_lock_ocupado(c) ==
  LET p == Head(aKS[c]).pid IN
  /\ Mensaje(c, "MUTEX_LOCK") /\ ks.tomador # Nadie
  /\ ks' = [ks EXCEPT !.cola = Append(@, p), !.manejador[c] = [pc |-> "avisar", pid |-> p]]
  /\ SoloKS /\ UNCHANGED <<aKS, deKS, km, desvios>>
\* The CPU of the process is looked up again to send the answer.
avisarBloqueado(c) ==
  LET p == Head(aKS[c]).pid IN
  /\ ks.manejador[c].pc = "avisar" /\ Recibido(c, "MUTEX_LOCK")
  /\ EscribeCPU(ks.en[p], "BLOQUEADO", p) /\ Atendido(c)
  /\ ks' = [ks EXCEPT !.manejador[c].pc = "bloquear"]
  /\ SoloKS /\ UNCHANGED <<km, desvios>>
bloquearPorMutex(c) ==
  /\ ks.manejador[c].pc = "bloquear"
  /\ ks' = [Deja(ks, c, ks.manejador[c].pid, "BLOCK") EXCEPT
               !.manejador[c] = [pc |-> "libre", pid |-> Nadie]]
  /\ SoloKS /\ UNCHANGED <<aKS, deKS, km, desvios>>

\* A thread has queued the process for the mutex and is still to block it.
SinBloquear(p) == \E c \in CPUs : ks.manejador[c].pc # "libre" /\ ks.manejador[c].pid = p
\* The answer goes first, whatever comes of the call.
mutex_unlock(c) ==
  LET p == Head(aKS[c]).pid IN
  /\ Mensaje(c, "MUTEX_UNLOCK")
  /\ EscribeCPU(c, "OK", p)
  /\ ks' = IF ks.tomador # p THEN ks
           ELSE IF ks.cola = <<>> THEN [ks EXCEPT !.tomador = Nadie]
           ELSE [ks EXCEPT !.tomador = Head(ks.cola), !.cola = Tail(@),
                           !.estado[Head(ks.cola)] = "READY"]
  /\ Desvio(ks.tomador = p /\ ks.cola # <<>> /\ SinBloquear(Head(ks.cola)), "bloqueo")
  /\ Atendido(c)
  /\ SoloKS /\ UNCHANGED km

\* Kernel Memory may have no room; a program cannot free what it does not have.
memoria(c) ==
  LET p == Head(aKS[c]).pid
      delta == IF Mensaje(c, "MEM_ALLOC") THEN 1 ELSE -1
  IN
  /\ Mensaje(c, "MEM_ALLOC") \/ Mensaje(c, "MEM_FREE")
  /\ IF km[p].segmentos + delta < 0
     THEN EscribeCPU(c, "ERROR", p) /\ UNCHANGED km
     ELSE /\ EscribeCPU(c, "OK", p)
          /\ km' = [km EXCEPT ![p].segmentos = @ + delta, ![p].cambios = @ + 1]
  /\ Atendido(c)
  /\ SoloKS /\ UNCHANGED <<ks, desvios>>
sin_memoria(c) ==
  /\ usos.rechazos < MaxRechazos /\ Mensaje(c, "MEM_ALLOC")
  /\ usos' = [usos EXCEPT !.rechazos = @ + 1]
  /\ EscribeCPU(c, "ERROR", Head(aKS[c]).pid) /\ Atendido(c)
  /\ UNCHANGED <<cpu, aKM, deKM, enKM, ks, real, desvios>>

\* INIT_PROC and MUTEX_CREATE are answered whatever they did.
crear(c) ==
  /\ Mensaje(c, "INIT_PROC") \/ Mensaje(c, "MUTEX_CREATE")
  /\ EscribeCPU(c, "OK", Head(aKS[c]).pid) /\ Atendido(c)
  /\ SoloKS /\ UNCHANGED <<ks, km, desvios>>

atender_cpu_ks(c) ==
  \/ km_notificar_exit(c) \/ finalizar_proceso(c) \/ interrupcionAtendida(c) \/ atender_sleep_ks(c)
  \/ mutex_lock_libre(c) \/ mutex_lock_ocupado(c) \/ avisarBloqueado(c) \/ bloquearPorMutex(c)
  \/ mutex_unlock(c) \/ memoria(c) \/ sin_memoria(c) \/ crear(c)

-----------------------------------------------------------------------------
Next ==
  \/ \E c \in CPUs : Ciclo(c) \/ Sesion(c) \/ atender_cpu_ks(c) \/ \E p \in Procesos : despachar(c, p)
  \/ \E p \in Procesos :
       decidir_interrupcion(p) \/ reubicar(p) \/ finalizar_io_y_desbloquear(p)
  \/ \E i \in DOMAIN ks.interrumpe : enviar_interrupcion_cpu(i)
  \/ avisar \/ notificar_mapa_a_todas(SetToSeq(CPUs))

\* Every thread goes on, and the devices answer.
Justicia ==
  /\ \A c \in CPUs :
       /\ WF_vars(Ciclo(c)) /\ WF_vars(Sesion(c)) /\ WF_vars(atender_cpu_ks(c))
       /\ WF_vars(\E p \in Procesos : despachar(c, p))
  /\ \A p \in Procesos : WF_vars(finalizar_io_y_desbloquear(p))
  /\ WF_vars(avisar)

Spec == Init /\ [][Next]_vars
EspecificacionJusta == Spec /\ Justicia

-----------------------------------------------------------------------------
(* Properties.                                                              *)

\* Whatever frames the thread of a new Memory Stick writes between those of a session,
\* a CPU never executes an instruction other than the one its process has come to.
InstruccionCorrecta ==
  \A c \in CPUs :
    EnPC(c, "ejecuta") /\ cpu[c].instr.t = "instruccion" =>
      cpu[c].instr.pid = cpu[c].pid /\ cpu[c].instr.pc = cpu[c].ctx

EnCiclo(c) ==
  cpu[c].pc \in {"respuesta", "instruccion", "tabla", "segmentos", "ejecuta", "respKS",
                 "interrupciones"}

\* A process goes on where it was, on whatever CPU: what it did before an interrupt, a
\* SLEEP or a MUTEX_LOCK is never done again.  The reserves are the two races of a
\* MUTEX_LOCK that waits: it saves its context once the scheduler may already have handed
\* the process to another CPU, and the mutex may be its own before it is blocked.
ContextoAlDia ==
  desvios \cap {"mutex", "bloqueo"} = {} =>
    \A c \in CPUs : EnCiclo(c) => cpu[c].ctx = real[cpu[c].pid]

\* A CPU translates addresses with the table Kernel Memory has for the process at that
\* moment, wherever its segments were moved while it was out of EXEC, unless that table is
\* empty, when the CPU keeps the one it had.  The reserves: a Memory Stick has connected, a
\* waiter got the mutex before it was blocked, or segments were moved under a process in
\* EXEC.
TablaAlDia ==
  desvios \cap {"stick", "bloqueo", "reubicado"} = {} =>
    \A c \in CPUs :
      LET p == cpu[c].pid IN
      EnPC(c, "ejecuta") /\ Tabla(p) # 0 => cpu[c].tabla = Tabla(p)

\* Unless the design is left, every process ends and every CPU comes back to wait for
\* another: no session waits for a frame that nobody will write, and none is closed.
SesionesTerminan ==
  [](desvios = {}) =>
    <>[](/\ \A p \in Procesos : ks.estado[p] = "EXIT"
         /\ \A c \in CPUs : EnPC(c, "ocioso"))
=============================================================================
