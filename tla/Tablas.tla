------------------------------- MODULE Tablas -------------------------------
(***************************************************************************)
(* The tables of the Kernel Scheduler (kernel_scheduler/src/funciones_ks): *)
(* the PCB of every process and the lists of processes by state, all of    *)
(* them protected by mutex_listas.  Every operator here is the body of one *)
(* critical section over that mutex, so it is a function from a table to a *)
(* table; the modules that use it turn the critical sections into steps.   *)
(***************************************************************************)
EXTENDS Integers, Sequences, SequencesExt

CONSTANTS
  Procesos,           \* the PIDs
  CPUs,               \* the CPU connections (the fd_cpu values)
  Nadie,              \* fd_cpu = -1, pid_tomador = -1
  Algoritmo,          \* PLANIFICATION_ALGORITHM: "FIFO", "RR" or "CMN"
  CantidadColas,      \* number of CMN queues
  QueuePreemption,    \* QUEUE_PREEMPTION
  PrioridadOriginal   \* prioridad_original of each process

ASSUME TablasAssumption ==
  /\ Nadie \notin Procesos \cup CPUs
  /\ Algoritmo \in {"FIFO", "RR", "CMN"}
  /\ CantidadColas \in Nat \ {0}
  /\ QueuePreemption \in BOOLEAN
  /\ PrioridadOriginal \in [Procesos -> Int]

Colas == IF Algoritmo = "CMN" THEN 0..(CantidadColas - 1) ELSE {0}

\* READY has its own queue(s); every other state has one list.
ConLista == {"NEW", "EXEC", "BLOCK", "SUSP_BLOCK", "SUSP_READY", "EXIT"}
Estados == ConLista \cup {"READY", "INEXISTENTE"}

Tabla ==
  [ estado    : [Procesos -> Estados],
    prioridad : [Procesos -> Int],
    fdCpu     : [Procesos -> CPUs \cup {Nadie}],
    orden     : [Procesos -> Nat],
    enSwap    : [Procesos -> BOOLEAN],
    listas    : [ConLista -> Seq(Procesos)],
    ready     : [Colas -> Seq(Procesos)],
    reloj     : Nat ]

(***************************************************************************)
(* READY queues.  With CMN a process is queued by its current priority,    *)
(* and one whose priority names no queue is not queued at all.             *)
(***************************************************************************)
Nivel(t, p) == IF Algoritmo = "CMN" THEN t.prioridad[p] ELSE 0

procesoAReady(t, p) ==
  IF Nivel(t, p) \in Colas
  THEN [t EXCEPT !.ready[Nivel(t, p)] = Append(@, p)]
  ELSE t

\* Removes p from the first queue that holds it.
QuitarDeReady(t, p) ==
  LET con == {k \in Colas : Contains(t.ready[k], p)}
  IN  IF con = {} THEN t ELSE [t EXCEPT !.ready[Min(con)] = RemoveFirst(@, p)]

\* The other procesoA...: the stamp of a suspension is taken on entering
\* SUSP_BLOCK, and on entering SUSP_READY when it is still zero.
ConSello(t, p) == [t EXCEPT !.orden[p] = t.reloj, !.reloj = @ + 1]

\* Mutation: the stamp of the suspension is not kept.
Sellado_siempre(t, p, nuevo) ==
  IF nuevo \in {"SUSP_BLOCK", "SUSP_READY"} THEN ConSello(t, p) ELSE t
Sellado(t, p, nuevo) ==
  IF nuevo = "SUSP_BLOCK" \/ (nuevo = "SUSP_READY" /\ t.orden[p] = 0)
  THEN ConSello(t, p)
  ELSE t

Encolado(t, p, nuevo) ==
  IF nuevo = "READY"
  THEN procesoAReady(t, p)
  ELSE [Sellado(t, p, nuevo) EXCEPT !.listas[nuevo] = Append(@, p)]

\* Removes p from the list of the state its PCB says it is in.
Retirado(t, p) ==
  IF t.estado[p] = "READY"
  THEN QuitarDeReady(t, p)
  ELSE [t EXCEPT !.listas[t.estado[p]] = RemoveFirst(@, p)]

\* Mutation: a process in EXIT is moved like any other.
actualizarEstado_siempre(t, p, nuevo) ==
  Encolado([Retirado(t, p) EXCEPT !.estado[p] = nuevo], p, nuevo)

\* A process in EXIT is refused: its state falls in the default of the switch.
actualizarEstado(t, p, nuevo) ==
  IF t.estado[p] = "EXIT"
  THEN t
  ELSE Encolado([Retirado(t, p) EXCEPT !.estado[p] = nuevo], p, nuevo)

(***************************************************************************)
(* Selection and preemption.                                               *)
(***************************************************************************)
\* The head of the best queue that is not empty, as a set of at most one.
seleccionarProceso(t) ==
  LET llenas == {k \in Colas : t.ready[k] # <<>>}
  IN  IF llenas = {} THEN {} ELSE {Head(t.ready[Min(llenas)])}

\* The process to interrupt when p becomes READY: the least urgent of EXEC,
\* the first one in case of a tie, if p is strictly more urgent.
victimaDe(t, p) ==
  LET exec     == t.listas["EXEC"]
      urgencia(i) == t.prioridad[exec[i]]
      peores   == {i \in DOMAIN exec : \A j \in DOMAIN exec : urgencia(j) <= urgencia(i)}
  IN  IF Algoritmo = "CMN" /\ QueuePreemption /\ exec # <<>>
         /\ t.prioridad[p] < urgencia(Min(peores))
      THEN {exec[Min(peores)]}
      ELSE {}

\* The victims of procesoAReady(t, p), evaluated once p is in its queue.
desalojadosPor(t, p) == IF Nivel(t, p) \in Colas THEN victimaDe(t, p) ELSE {}

(***************************************************************************)
(* Priorities and search.                                                  *)
(***************************************************************************)
\* Mutation: the process stays in the queue of its former priority.
cambiarPrioridad_sinMover(t, p, nueva) == [t EXCEPT !.prioridad[p] = nueva]

cambiarPrioridad(t, p, nueva) ==
  IF t.prioridad[p] = nueva
  THEN t
  ELSE LET vieja == t.prioridad[p]
           fuera == IF Algoritmo = "CMN" /\ t.estado[p] = "READY" /\ vieja \in Colas
                    THEN [t EXCEPT !.ready[vieja] = RemoveFirst(@, p)]
                    ELSE t
           con   == [fuera EXCEPT !.prioridad[p] = nueva]
       IN  IF Algoritmo = "CMN" /\ t.estado[p] = "READY"
           THEN procesoAReady(con, p)
           ELSE con

\* cambiar_prioridad only preempts when it moved p to another CMN queue.
desalojadosPorPrioridad(t, p, nueva) ==
  IF t.prioridad[p] # nueva /\ t.estado[p] = "READY"
  THEN desalojadosPor(cambiarPrioridad(t, p, nueva), p)
  ELSE {}

\* The search by PID looks in every list but EXIT, and in the queues.
buscable(t, p) ==
  \/ \E l \in ConLista \ {"EXIT"} : Contains(t.listas[l], p)
  \/ \E k \in Colas : Contains(t.ready[k], p)

\* Eviction for compaction: the process goes to the front of its queue.
alFrenteDeReady(t, p) ==
  [t EXCEPT !.listas["EXEC"] = RemoveFirst(@, p),
            !.estado[p] = "READY",
            !.fdCpu[p] = Nadie,
            !.ready[Nivel(t, p)] = <<p>> \o @]

\* A CPU that disconnects: its first process in EXEC is queued again.
enCpu(t, c) ==
  LET exec  == t.listas["EXEC"]
      suyos == {i \in DOMAIN exec : t.fdCpu[exec[i]] = c}
  IN  IF suyos = {} THEN {} ELSE {exec[Min(suyos)]}

recuperarDeCpu(t, c) ==
  IF enCpu(t, c) = {} THEN t
  ELSE LET p == CHOOSE q \in enCpu(t, c) : TRUE
       IN  procesoAReady([t EXCEPT !.fdCpu[p] = Nadie], p)
==============================================================================
