# Verification of the scheduler and memory of a distributed toy operating system

The repository simulates an operating system as six kinds of processes that talk over TCP:
a **Kernel Scheduler** (KS), any number of **CPU** modules, a **Kernel Memory** (KM), any number of
**Memory Sticks**, a **SWAP** module and **IO** devices. This directory holds TLA+ models of the parts
where concurrency and bookkeeping are hard, TLC configurations that check them on small instances, and
TLAPS proofs of what holds for every instance. Identifiers keep the source's (Spanish) names.

    tlc -workers 2 -config fifo.cfg MCPlanificador      # any other .cfg of the table below likewise
    tlapm SitiosProofs.tla                              # any other *Proofs.tla likewise

## 1. Inventory

| component | state | operations | talks to | what is hard | what makes it correct |
|---|---|---|---|---|---|
| Process tables (`funciones_ks.c` 222-283, 510-743, 1292-1325) | PCBs, one list per state, READY queue(s), clock of suspensions; all under `mutex_listas` | `procesoA...`, `actualizarEstadoProceso`, `cambiar_prioridad`, search by PID, selection | every KS thread | several threads move one process; `estado` decides from which list it is removed | lists and PCBs agree; EXIT is final |
| Long term (158-183, 285-305) | NEW | `crear_proceso`, one thread NEW -> READY | KM, short term | - | every process created ends |
| Short term (426-507), quantum timers (307-338) | `sem_hay_proceso_ready`, `sem_hay_cpu_libre`, `listaCPUsLibres`, the process chosen | choose, take a CPU, EXEC, send the PID, start a timer | CPUs | the process chosen stays in READY until a later section; a timer checks and sends in two steps | a PID only reaches a CPU that waits for one; no token is lost; tables say what CPUs execute |
| Mutexes and inheritance (687-851) | `listaMutex`: owner and waiting queue | create, lock, unlock | tables, CPUs | queueing, answering and blocking are three steps, hand-over and waking two | mutual exclusion; waiters are woken; inherited priority ends |
| CPU connections (936-1289) | one thread per CPU | one case per message | CPUs, KM | a CPU is freed before its process leaves EXEC; disconnections | a process in EXEC is somebody's business |
| Eviction (1571-1614, 1714-1748) | `en_compactacion`, `sem_desalojo_confirmado` | interrupt all, wait, answer KM | CPUs, KM | a process ends before its interrupt arrives; dispatch past the flag | nothing runs while KM compacts; the wait ends |
| Mid term (341-385, 1458-1535, 1766-1829) | `en_swap`, `orden_suspension`, timers | suspend after a timeout, resume, bring back before an IO | KM, IO threads | check and act in two sections; dialogue with KM in the middle | swapped iff suspended |
| IO threads and IO module (1330-1452, 1883-2062, `io.c`) | pools and semaphores per kind of device | SLEEP, STDIN, STDOUT | IO devices, KM | unblocking a process another thread suspends | every IO is followed by READY or EXIT |
| KS-KM dialogue, monitor, BSOD (`kernel_scheduler.c` 99-125, `handler_kernel_scheduler.c`) | one socket, `mutex_km` | request and answer; peek for a corrupt memory; notice and close | KM | `mutex_km` is released in the middle of a compaction; a notice without a header in a stream of frames | each answer reaches who asked; the scheduler ends if memory was lost and only then |
| CPU cycle and system calls (`cpu.c`, `funciones_cpu.c`, `set_de_instrucciones.c`) | PID, context, kept interrupt | wait for a PID, check interrupts, calls | KS, KM | interrupts that arrive in place of an answer, each call with its own rule | the CPU never leaves the protocol |
| CPU sessions with KM (`handler_cpu.c`, `cpu.c` 160-310, `funciones_cpu.c` 189-460) | saved contexts, the context and segment table of the CPU | open, fetch, refresh the table, save, close | KM, KS | a map of sticks between two frames; a process that moves to another CPU before its context is saved; one destroyed with its session open | a session starts from the last context saved and runs on the current table |
| CPU and KM memory accesses (`funciones_cpu.c` 162-186, 457-584, `memory_manager.c`) | map of sticks, one request at a time | translate, split over sticks | sticks | 32 bit sums, the ends of the sticks | a program reads what it wrote and nobody else writes it |
| KM: holes and sticks (`memory_manager.c`) | total, holes sorted by base, sticks | reserve, free, join, connect a stick | tables, handlers | joining; unlocked growth | holes and segments tile the memory |
| KM: processes and suspension (`process_manager.c`) | segment tables, swapped segments | create, destroy, MEM_ALLOC, MEM_FREE, suspend, resume | swap, holes | a loop that fails halfway | disjoint segments; blocks with one owner |
| KM: compaction (`service_compactacion.c`) | cursor | move each segment, one hole at the end | scheduler | a dialogue before it; contents | no overlap; the request fits afterwards |
| Swap (`handler_swap.c`, `swap.c`) | bitmap, file | read and write blocks | KM | full swap: block -1 | - |
| Memory Stick (`memory_stick.c`) | one buffer, a thread per client | read, write | CPUs, KM | requests out of range are dropped without an answer | no such request is made |
| Sockets, serialisation | frames | send, receive | all | a header and a body are two sends | - |

`PROJECT.json` lists them with what is modelled, and the hazards of the code at their lines.

## 2. Modules

| module | models |
|---|---|
| `Tablas` | the tables under `mutex_listas`: every operator is the body of a critical section, a function from a table to a table |
| `Planificador` | KS threads and CPU modules: long and short term, timers, one handler per CPU, mutexes, eviction, blocking IO, disconnections |
| `PlanificadorProofs` | what each critical section of `Tablas` does to any table; proofs about `Planificador`: types, mutexes, the lists, the tokens |
| `SitiosProofs` | proofs about `Planificador`: where each process is, what CPUs execute, who wakes whom, who holds and awaits the mutexes |
| `MCPlanificador` | constants of `Planificador` for TLC |
| `KernelMemory` | holes, sticks, segment tables, swap, compaction, and the contents of memory and swap |
| `MCKernelMemory` | constants of `KernelMemory` for TLC |
| `KernelMemoryProofs` | proofs about `KernelMemory` |
| `MedianoPlazo` | the mid-term scheduler: suspension timers, the threads of SLEEP, STDIN and STDOUT, the pools of devices, the passes that resume, one mutex, and how much memory is left |
| `MedianoPlazoProofs` | proofs about `MedianoPlazo`, with the lemmas about the critical sections it uses |
| `SesionCPU` | the session of each CPU with KM over its socket, frame by frame, and the calls and interrupts that begin and end it |
| `SesionCPUProofs` | proofs about `SesionCPU`: the frames of a session, whose turn it is between a CPU and the scheduler |
| `ContextosProofs` | more of them: where the context of each process is, which table its CPU has |
| `DialogoKM` | the one socket between KS and KM, the eviction in the middle of a MEM_ALLOC, and the loss of a stick |
| `DialogoKMProofs` | proofs about `DialogoKM` |
| `MemoriaPlana` | what a program is promised of its memory: segments of its own, each access all at once |
| `AccesoMemoria` | MMU, accesses split over the sticks, the threads of the sticks; implements `MemoriaPlana` |
| `AccesoMemoriaProofs` | proofs about `AccesoMemoria`, the refinement among them |
| `MCMedianoPlazo`, `MCSesionCPU`, `MCDialogoKM`, `MCAccesoMemoria` | their constants for TLC |

`Planificador` and `MedianoPlazo` EXTEND `Tablas`: the same critical sections, once with CPUs, tokens and
sockets, once with suspensions and devices. The modules meet at the dialogues: `Planificador` and
`KernelMemory` each model their own side of a request and let the other side answer anything it may
answer; `DialogoKM` is the socket in between; `SesionCPU` has just enough of the scheduler to move a
process from one CPU to another; `AccesoMemoria` takes from `KernelMemory` that segments are disjoint.

Some modules keep a variable `desvios`: the set of the things that have happened which the design does
not foresee (each module lists its values). A property that says "unless ..." is conditioned on that set,
so that what the code does wrong in one known place does not hide what it does elsewhere. Without the
condition the property is false, and section 3 tells how.

### Planificador

| variable | code |
|---|---|
| `t` | PCBs and lists (record of `Tablas`) |
| `cpusLibres`, `semReady`, `semCpu`, `semDesalojo`, `enCompactacion` | the globals of the same names |
| `corto` | program counter and locals of the short-term thread |
| `timers` | `timer_rr` threads: how many sleep, how many found the process still there and are about to send |
| `hiloIO` | `atender_sleep_ks` of each process |
| `manejador` | `atender_cpu_ks` of each connection, with the process it is about to move |
| `tomador`, `cola`, `creados` | `pid_tomador`, `cola_bloqueados`, `listaMutex` |
| `aCpu`, `deCpu` | the two directions of each CPU socket, FIFO |
| `cpu` | mode of each CPU module, its PID, the call it waits for and the interrupt it kept |
| `posee`, `pasos`, `caidas` | what each program believes it holds; bounds |

*Steps.* A step is one critical section over `mutex_listas`, with the `sem_post`, the freed CPU or the reply
that ends the operation merged into it. Also merged are the leading `sem_wait`s of the short-term thread with
its section (between them the thread holds nothing others can see), EXIT and `liberar_cpu` after DONE, the OK
that precedes `mutex_unlock`, and the set flag with the section that interrupts. Kept apart, since other
threads may come in between: the flag, the choice of a process, EXEC and the PID in the short term; the check
and the interrupt of a timer; the free CPU and the process that leaves EXEC in MSG_INTERRUPCION_ATENDIDA; the
hand-over of `mutex_unlock` and the waking; the freed CPU and the BLOCK of a SLEEP. A message of two frames is
one message: `enviar_interrupcion_cpu` and the dispatch hold the connection's mutex. (A CPU that waits for a PID
drops the frames of a late interrupt one by one, which comes to the same unless its PID is 43, the value of
MSG_SOLICITAR_PID.)

*MUTEX_LOCK.* A call that has to wait is three steps, here and in `SesionCPU`: `mutex_lock_ocupado` queues the
process and lends its priority (772-784); `avisarBloqueado` looks up `proceso->fd_cpu` again, with `mutex_listas`
released, and sends BLOQUEADO to whatever CPU that is (789); `bloquearPorMutex` puts it in BLOCK (791) and frees
the CPU of the call, which the caller does last (1135-1136; until then only its own handler may free or
use that CPU, so it might as well be at once). An unlock by another CPU may come after the first or the second:
the process is then READY, or dispatched elsewhere, and the owner of the mutex, when the answer and the BLOCK
reach it. `adelantado` remembers that this happened (`SinAdelantos` is that it has not), since several properties
hold until then and not after; the steps that follow it are those of the code and are checked all the same. A
call that finds the mutex free is one step: it reads `fd_cpu` again too (768), which makes a difference only
once a misdirected answer has been taken for another, that is, after `adelantado`.

*Programs* are any sequence of the calls of `Syscalls`, at most `MaxSyscalls` each. With
`ProgramasCorrectos` they release what they locked before they end or fault, and do not lock twice.

*Assumed.* `mutex_km` serialises the dialogues with KM (`DialogoKM`), KM is inside at most one compaction,
an IO device for SLEEP is always free and no process is suspended (`MedianoPlazo`). A send to a closed
connection is lost (SIGPIPE is not modelled here).

*Fairness.* `EspecificacionJusta` is weak fairness of each thread: they are pthreads the host schedules,
blocking only in `recv`, `sem_wait` and mutexes. Nothing obliges a machine to fail (`caer`). Scheduler
runs turn deadlock checking off: the system stops when every process has ended.

### KernelMemory

| variable | code |
|---|---|
| `total`, `huecos` | `memoria_total`, `huecos_libres` |
| `sticks` | how far `conectar_memory_stick` got, `base_global` |
| `vivos`, `tabla` | `procesos_por_pid`, `tabla_segmentos` |
| `enSwap`, `bitmap`, `swapVivo`, `fallas` | `segmentos_guardados_en_swap`, `bitmap_swap`, the SWAP module |
| `km` | the thread of the scheduler: program counter, request, cursor of the compaction |
| `memoria`, `disco` | who wrote each byte of the sticks and of the swap |
| `escritos`, `compactado` | segments written and not freed; whether a compaction took place |

A step is one iteration of a loop, one answer of the swap or one message of the compaction dialogue. The
answers are left out: the properties are about what was done. Lists ordered by base are sets of records,
and the order of the other lists is left open, which allows more than the code does. A byte that is freed
counts as never written. STDIN writes a whole segment and stands for every write of a program. The
environment follows the scheduler: MEM_ALLOC, MEM_FREE and suspensions come for processes with nothing
in the swap, resumptions for those with something there. The loss of a stick ends the system and is
left to `DialogoKM`; a read of the swap that fails is left out.

### MedianoPlazo

| variable | code |
|---|---|
| `t` | PCBs and lists (record of `Tablas`), with `en_swap` and `orden_suspension` |
| `km` | processes whose segment is in memory, in the swap, or lost in a failed write |
| `libres`, `sem` | `listaIOsLibres` by type and the three semaphores |
| `hilo` | the thread of the last blocking call of each process (`atender_sleep_ks`, `atender_stdin_ks`, `atender_stdout_ks`, `finalizar_proceso`) |
| `timers` | how many `timer_suspension` threads of each PID are at each stage: all a timer carries is the PID |
| `pasadas` | the runs of `intentar_desuspender_procesos` in progress, each with the candidates it sorted |
| `corre`, `tomador`, `cola`, `linea` | what CPUs run, one mutex with its queue, the next call of each program |

A step is one critical section or one dialogue with KM. Each process has one segment, so KM is a set of
processes and a capacity. The processes are READY from the start. The pass after MEM_FREE runs in a thread
of its own, and not in the CPU's handler, which allows more than the code does. A MUTEX_LOCK that waits is two
steps: `mutex_lock` queues the process (772) and `bloquearPorMutex` blocks it later (791); the process no longer
runs (`corre`) from the first, its CPU is taken (`bloqueando`, `Ocupadas`) until the second, and the answer in
between, with the CPU it reaches, is left to `Planificador`. A device that disconnects
in the middle of a request counts as one that answers at once, as the code treats it. An EXIT makes no
pass, in spite of the comment at `funciones_ks.c:1468`. *Fairness:* every thread, every device and every
CPU goes on; liveness is asked of programs that free their memory before they exit.

### SesionCPU

| variable | code |
|---|---|
| `cpu` | where each CPU is in its cycle, the program counter and the version of the segment table of its context, the instruction it fetched, the interrupt it kept |
| `aKM`, `deKM` | frames between each CPU and KM; `aKS`, `deKS` messages to and from the scheduler |
| `sesion` | `atender_cpu` of KM: waiting for a PID, in the loop of a session, and the frames it has yet to write |
| `aviso` | the thread of a stick that connects late, which writes its map over the sockets of all CPUs |
| `km`, `ks` | the saved context and segments of each process; its state and the interrupt about to be sent |
| `real` | the program counter each process has really reached |

Sends of several frames are one step each, since another thread may write to the same socket in between. A
context is a program counter; registers and decoding are left out. The scheduler's side is a small
abstraction of `Planificador`: dispatch, one interrupt in flight, block, exit, and the three steps of a
MUTEX_LOCK that waits (`ks.manejador`, where each handler is in them); BLOQUEADO goes to the CPU the process is on
by then (`ks.en`). An eviction
for a compaction clears that field (1085) and here it keeps the last CPU: nobody looks at it before the next dispatch
but the answer of a MUTEX_LOCK that was overtaken, after `"bloqueo"`. `reubicar` moves the segments of any process at any moment, in EXEC too: a compaction meets
a process that was dispatched past `en_compactacion` (`funciones_ks.c:433`), and an old timer one that went back to
run (357).

### DialogoKM

| variable | code |
|---|---|
| `hilo` | each thread of the scheduler: waiting for a length or a body, or with `mutex_km` released for the eviction |
| `mutexKM`, `enCompactacion` | the globals |
| `aKM`, `deKM` | the two directions of the socket: requests, and words of four bytes |
| `km` | `atender_kernel_scheduler`: reading, in the middle of a MEM_ALLOC, or writing an answer one send at a time |
| `cierre` | `notificar_memoria_corrupta_a_ks`, in the thread of the lost stick: notice, then close |
| `ks` | whether the scheduler runs, and what ended it: BSOD or SIGPIPE |

`recibir_mensaje` reads a length and then as many words, which is how the notice (the bare word 29) may be
taken for a length, and a length of 29 for the notice. `hilo_monitor_km` peeks at the first word nobody has
read. A `close` while the other thread sleeps in `recv` on the same socket keeps the connection open until
that `recv` returns. The eviction itself is in `Planificador`; here its confirmations always come. A
text is memory of the process (`handler_kernel_scheduler.c:418`): `Textos` says which lengths and which words a
STDOUT may read, the word 29 among them, and the monitor may peek it between the reader's `recv` of the header
and that of the body (`kernel_scheduler.c:105-111`). *Fairness:* every thread goes on; no stick has to fail.

### AccesoMemoria and MemoriaPlana

| variable | code |
|---|---|
| `mem` | `espacio_memoria` of each stick |
| `acceso` | the access each CPU and KM are making: address, size, how far it is, the buffer |
| `pedido` | the request sent to a stick and its answer |
| `leido`, `ultimo`, `muertos` | what each process read, its last access, the processes that left their segment |

A step is one request, its service under `mutex_memoria`, or the answer. Translation adds as the machine
does (`Modulo`). *Refinement:* `ImplementaMemoriaPlana` maps the bytes of a segment to those in the sticks,
except that the bytes a write still has to deliver count as written, so the abstract write happens when its
translation succeeds and the abstract read when its last piece arrives. `desplazamiento + tamanio` does wrap
(`process_manager.c:236`), and the refinement shows it is harmless: only a read can be that long, and it
runs off the last stick before it returns anything. `ImplementaLaMemoriaPlana` proves it for every size.
`Configurado` is the stick of `MS_IP` and `MS_PORT`: the CPU uses that connection for the first stick of the
map, so the promise holds when it *is* the first. Accesses are not synchronised with a compaction; segments
stay where they are.

## 3. Runs

Scheduler runs use three processes (two in `rr` and `caida`) and two CPUs (one in `mutex`).

| run | instance | distinct states | shows |
|---|---|---|---|
| `fifo` | FIFO; SLEEP, INIT_PROC, faults; weak fairness | 76,764 | tokens and CPUs agree; every process that is created ends |
| `mutex` | CMN with preemption, 3 priorities, 2 mutexes, 1 CPU | 97,981 | wait queues coherent, inheritance ends with the last mutex, a blocked process has a waker |
| `mutex_dos_cpus` | CMN, 1 mutex, 2 CPUs | 827,284 | inherited priorities and overtaken locks move processes without losing them; until a CPU module ends or a lock is overtaken, a program that executes owns what it believes it owns |
| `rr` | RR, MEM_ALLOC with eviction, SLEEP, timers | 351,876 | CPUs execute what the tables say and never leave the protocol |
| `caida` | one disconnection, programs that misuse mutexes | 213,317 | EXIT is final |
| `memoria` | sticks of 1 and 2 bytes, 2 processes x 2 segments of 0-2 bytes, 2 swap blocks of 2 bytes, one failed write | 1.68 million | segments and holes tile the memory through allocation, compaction, suspension and destruction; a compaction is never in vain; suspension keeps the contents |
| `mediano` | 2 processes that free what they take, a mutex, 1 device, memory for one of them, a failed suspension, two passes at a time, no race of timers or passes; weak fairness | 123,303 | who is blocked waits for something, who may resume has a retry ahead, the order of the suspended is stable but for the stamp 0, everybody ends |
| `carreras` | STDIN, STDOUT and SLEEP, 2 processes, a fault, one pass at a time, one race of any kind per behaviour | 2.46 million | no device is counted twice or lost; no process is READY with its IO under way; what is READY is in memory |
| `sesion` | 2 CPUs, 2 programs with a common mutex, one interrupt, one move of segments, also under a process in EXEC; weak fairness | 595,131 | a session starts from the last context and runs on the current table; sessions end |
| `sticks` | 1 CPU, 2 programs, a stick that connects late, 2 interrupts, a move, a refusal | 3.92 million | the CPU executes the instruction its process has come to, whatever frames come in between |
| `accesos` | sticks of 2, 1 and 2 bytes, a segment over all three, one CPU and KM, 3 accesses, 4-bit words | 90,250 | the accesses implement a flat memory, and every one ends |
| `dialogo` | 2 threads of 2 and 3 requests, one compaction, one lost stick, texts of 0, 5 and 29 bytes, one of 5 with the word 29; weak fairness | 507,952 | answers go to who asked, requests end, the scheduler ends if memory was lost or a text looks like the notice and only then |

*Bounds.* Three processes are the least with a running one, a waiter and a third that competes with both;
two CPUs are the least for two handlers to interleave. Five calls of PID 0 create the others, a mutex, and
lock and release it. In `memoria` a hole in the middle of three bytes is enough for fragmentation: a
request of two bytes with two bytes free apart compacts. Two blocks fill up with three segments, so the
swap is full within reach. Size 0 is a request the code refuses; a stick of another size than a segment makes both
the exact and the larger hole happen. In `mediano` and `carreras` two processes compete for a memory, a
device and a mutex that are enough for one: a third would only wait longer; the two passes of `mediano` are the least
that overlap. In `accesos` a segment over three sticks has a piece at each end and a whole stick in the middle;
words of four bits wrap within the sizes asked for. In `dialogo` two threads are the one inside the eviction
and the one that speaks in the gap; 29 bytes are the text whose length looks like the notice, eight words long,
and one text of five bytes has the word 29. `sesion` has a constraint, `HastaElDesvio`: TLC stops at the states
where a mutex has been handed to a waiter not blocked yet, or segments have moved under a process in EXEC, and
explores no further (the frames that follow make the instance some twenty times larger). No property of the run
says anything past those states: the invariants have the reserve and `SesionesTerminan` asks for no desvio at all;
and the proofs of section 4 have no such bound.
CPUs, processes and segment numbers are symmetric where the runs say so; no run with a liveness property
uses symmetry. Deadlock checking is off where the system stops on its own: programs end, accesses are
bounded, the scheduler ends with a BSOD.

`mutex` has no second CPU because with it `EsperasCoherentes` and `BloqueoTieneDespertador` are false (the
overtaken lock below); `mutex_dos_cpus` has it, with what follows the race.
`fifo` has no timers, since a late interrupt makes `EjecucionTieneResponsable` false. `rr` has no mutexes:
MUTEX_CREATE ends the CPU module on any interrupt, and MUTEX_UNLOCK on a second one.

### Where the properties stop

What the models show the code to do outside the conditions of the properties. No document promises
otherwise word by word, so none of them is a run; lifting the condition named gives the counterexample.

| code | what happens | condition |
|---|---|---|
| `funciones_ks.c:772, 791` | `mutex_lock` queues the waiter in one section and blocks it in a later one. An unlock in between hands the mutex over and moves it to READY; the late BLOCK takes it out again, owner of the mutex and waiting for nobody | `SinAdelantos`, or one CPU; `"bloqueo"` in `MedianoPlazo` and `SesionCPU` |
| `funciones_ks.c:789, 1135` | after such an unlock the process may be dispatched before BLOQUEADO is sent: it goes to the new CPU, whose program takes it for the answer to whatever it calls next, or ends the module; the CPU of the call stays in its `recv`, and is listed as free once the handler is done | the same |
| `funciones_ks.c:433` | the short term tests `en_compactacion`, sleeps on its semaphores and dispatches while KM compacts: the segments of a program that runs are moved, and its CPU keeps the table it had | `"reubicado"` in `TablaAlDia` |
| `funciones_cpu.c:890` | a late interrupt for a former process, kept during a call, makes the CPU leave the current one, which stays in EXEC | no timers in `fifo`; `"interrupcion"` |
| `funciones_ks.c:970` | the process of a lost CPU is queued with `estado` EXEC, still in its list and without a token: it is not run again | no liveness in `caida` |
| `funciones_ks.c:1738` | a process that ends before its eviction interrupt arrives never confirms, and the compaction waits for ever | no liveness in `rr` |
| `service_compactacion.c:35` | a compaction rewrites the bases and copies no byte: a program reads another segment's data | before a compaction, `SuspensionConservaContenido` |
| `funciones_ks.c:363` | a suspension frees the memory a process in SUSP_READY was refused for, and makes no pass, and neither does EXIT; that process may stay out for ever | programs free their memory, `TodosTerminan` |
| `funciones_ks.c:357, 1803` | a timer, or a pass, acts on a state it read before another thread changed it, and leaves a READY process with its segments in the swap; if it is dispatched, they come back at another place while it runs | `"timer"`, `"pasada"`; `"reubicado"` |
| `funciones_ks.c:1501, 846` | `asegurar_proceso_en_memoria` resumes and leaves `en_swap` set; a mutex makes a suspended waiter READY | `"asegurar"`, `"mutex"` |
| `set_de_instrucciones.c:563` | a process that waits for a mutex is saved once the scheduler may have run it elsewhere, from the old context: it is dispatched while the CPU it blocked on has not read the answer that blocks it, or while KM has not read the context that CPU sent | `"mutex"` in `ContextoAlDia` |
| `process_manager.c:347` | KM destroys a process with its session open, and MSG_EXIT_CPU is taken for something else | `"exit"` |
| `handler_memory_stick.c:182` | a map frame in the middle of a session is read as the answer, and the CPU ends | `"stick"` |
| `funciones_ks.c:1593` | a request made while `mutex_km` is released for the eviction is taken by KM for the confirmation; its MEM_ALLOC fails, the answers go to the wrong threads, or nobody gets one | `"desalojo"` |
| `kernel_scheduler.c:105-111` | the header of a STDOUT of 29 bytes, or a text with the word 29 that the monitor peeks between the two `recv` of the reader, ends the scheduler with a BSOD | `"largo"`, `"cuerpo"` |
| `funciones_ks.c:278` | stamp 0 is that of the first suspension of all and also "no stamp": at the end of its wait the process is stamped again, behind those suspended after it | said in `AntiguedadEstable` |
| `handler_kernel_scheduler.c:30` | with a close under a `recv` that sleeps, the thread that read the notice as a length waits for ever, and so does the monitor | `"cierre"` |

## 4. Proofs

`KernelMemoryProofs` proves, for every number and size of sticks, processes, segments and blocks, and both
strategies, under the assumption `~ConexionEnCaliente` (no stick connects while a request is served):

| theorem | statement |
|---|---|
| `InvarianteInductivo` | `Spec => []IInv` |
| `TypeOKSiempre` | no hole or segment is empty; no write misses the memory or the block it is for |
| `SegmentosSiempreDisjuntos` | segments share no byte and are inside the memory, in the middle of a compaction too |
| `HuecosSiempreLibres` | holes share no byte with each other, nor with a segment outside a compaction |
| `HuecosSiempreConsolidados` | no two holes are adjacent |
| `BloquesSiempreConDuenio` | a block of the swap holds one segment, whatever fails |
| `MuertosSiempreSinRecursos` | a destroyed process leaves nothing behind |
| `SinFugasSiempre` | every byte is in a hole, in a segment or in a stick about to be registered (no failure of the swap) |
| `ContenidoSiempreConservado` | what a program wrote in a segment is there, in memory or in the swap, until it frees it (no failure of the swap, no compaction yet) |

*The assumption is needed.* `conectar_memory_stick` grows the total before it registers the hole, with no
lock; a compaction that rebuilds its hole in between covers the new stick, and registering it afterwards
overlaps. `ContenidoSiempreConservado` assumes as well that no program asks for a segment longer than a block
of the swap: `suspender_proceso` reads the segment into a buffer of one block, and that block is all it saves
(`process_manager.c:140-146`).

*The argument.* None of the properties is inductive by itself. `IInv` adds: holes and segments are apart
(`Separados`); while a stick is half connected nothing else is at work and everything ends below its base
(`StickPendiente`); during a compaction the segments already moved end at or before the cursor and those
pending start at or after it (`EnCompactacion`), hence moving the pending one of least base overlaps
nothing and the rebuilt hole covers what is left; and who the request is about (`Pedido`). Two lemmas
carry the weight: `RegistrarHueco` (the result of joining a block with the holes it touches) and
`ReservarEspacio` (the result of taking the front of a hole). Each action has its own lemma, and
`PasoIInv` combines them. `SinFugas` is about coverage: `RegistrarCubre` and `ReservarCubre` say that joining and
splitting holes lose no byte. A compaction ignores the holes, so `CubiertoInv` adds what it relies on meanwhile:
every byte below the cursor is in a segment already moved (`Compactado`), and the rebuilt hole has the others.
`ContenidosInv` follows the contents: a byte written is in the stick at the base of its segment, or in the
block of its entry of the swap, and no other segment, hole or entry shares it, by `IInv`.

`AccesoMemoriaProofs` proves, for every number and size of sticks, of processes, segments, CPUs, addresses
and values, and every length of the machine's word that exceeds the memory plus one segment:

| theorem | statement | under |
|---|---|---|
| `AccesosCoherentes` | `Spec => []IInv` | - |
| `TiposDeAccesos` | `Spec => []TypeOK` | - |
| `NingunPedidoSePierde` | no stick drops a request; reads have what the sticks hold | `Configurado = 1` |
| `ImplementaLaMemoriaPlana` | `Spec => ImplementaMemoriaPlana`: the accesses implement `MemoriaPlana` | `Configurado = 1` |

*The assumption.* The CPU keeps the connection of `MS_IP` and `MS_PORT` as that of the first stick of the map
KM sends (`obtener_fd_ms`). If it is another stick, requests for the first go to the wrong memory.
`AccesoMemoriaAssumption` has the rest: segments apart and inside the memory, which `KernelMemoryProofs`
proves of KM while no stick connects late.

*The argument.* Translation bounds an access that fits: `Desplazamiento + n` does not wrap unless `n` is larger
than the whole memory (`SumaSinVuelta`), and then only a read can be, which runs off the last
stick before its end. So in `IInv` every
other access is inside its segment (`EnCurso`), each process is served by one agent, segments are apart, and
a byte has one writer at most (`UnSoloEscritor`). The cursor of an access picks its stick, and the piece asked
for ends before the stick does (`Pieza`, from the lemmas on the map of the sticks: `SticksEnOrden`,
`SticksCubren`). `ContenidosOK` then says that what was read so far, and what was answered, is what the sticks
hold: a write of another agent is in another segment (`EfectoDeEscribir`, `SinEscritorAjeno`). For the
refinement, a step is a stutter if it leaves what is still to be written as it was (`NoSeVe`), the first step
of a write makes all of it in the abstract memory (`EmpiezaAEscribir`), a piece written moves a byte from
"to be written" to the stick without changing it (`AvanzaLaEscritura`), and the last piece of a read gives
what the programs see (`TramoLeido`). `PasoMemoriaPlana` combines the actions.

`PlanificadorProofs` and `SitiosProofs` prove, for any processes, CPUs, mutexes and priorities, any set of system
calls the programs may make (`Syscalls`), and FIFO, RR and CMN with any quantum and either preemption:

| theorem | statement | under |
|---|---|---|
| `TiposSiempre` | `Spec => []TypeOK` | - |
| `PrioridadHeredadaSiempre` | an inherited priority ends with the last mutex | - |
| `LibreSinEsperasSiempre` | nobody waits for a free mutex | - |
| `LugaresSiempre` | `Spec => []InvariantePlanificador`, the invariant below | its part on places: no connection lost, no overtaken lock |
| `TokensSuficientesSiempre` | no token of `sem_hay_cpu_libre` is lost, nor of `sem_hay_proceso_ready` | for the second: no overtaken lock |
| `DespachoSoloACPULibreSiempre` | a PID goes only to a CPU that waits for one | no connection lost, no overtaken lock |
| `DespachoSinLocks` | the same, with connections lost | no MUTEX_LOCK |
| `CPUsSiguenElProtocoloSiempre` | no CPU module ends because of a message | no mutex calls |
| `SoloCaeEnMutexSiempre` | a CPU module ends because of a message only at a mutex call | no connection lost, no overtaken lock |
| `InterrupcionesMotivadasSiempre` | evictions have the reasons that the algorithm, the priorities and the compaction give | - |
| `EjecucionSegunTablasSiempre` | what a CPU executes is in EXEC with that CPU in its PCB, on no other CPU | no overtaken lock |
| `BloqueoTieneDespertadorSiempre` | a process in BLOCK has an IO or a mutex that will wake it | no connection lost, no overtaken lock |
| `ListasSegunEstadoSiempre` | a process is once in the list of its state, in READY in the queue of its priority, and in no other | no overtaken lock, or no MEM_ALLOC |
| `EjecucionTieneResponsableSiempre` | a process in EXEC is being dispatched, on a CPU, or in the hands of a message or of a thread | nothing interrupts (`MotivosPosibles = {}`), no overtaken lock |
| `ExitEsTerminalConectado` | EXIT is for ever | no connection lost, no overtaken lock |
| `ExitEsTerminalSinCompactacion` | the same, with connections lost | no MEM_ALLOC |
| `PosesionRealSiempre` | the scheduler has the program that executes as the owner of every mutex it believes it holds | programs that lock and unlock in order; no CPU module ends, no overtaken lock |
| `EsperasCoherentesSiempre` | the wait queues are sound: one mutex per waiter, once, and not its own | programs that lock and unlock in order; one CPU |

*The conditions.* The properties themselves say "while no connection is lost" (`SinDesconexiones`) where the
handler of a lost CPU puts its process back in a queue and leaves its `estado` as it was, so that it is in two places. The
others are where the code stops keeping the property (section 3). "No overtaken lock" is `SinAdelantos`: no unlock has
come between the sections of a MUTEX_LOCK that waits. Once one has, the process may be woken, dispatched and executed
before its late BLOCK, its answer may reach a CPU that asked for something else, and the CPU of its call is free and
still waits. With one CPU, whose handler is busy in between, or with no MUTEX_LOCK, it never does. The lists go wrong
only if there is a MEM_ALLOC as well, when a compaction evicts the process while it is in two of them. Besides, an
interrupt during a MUTEX_CREATE, or a second one during a MUTEX_UNLOCK, ends the CPU module; and an interrupt kept for
a former process makes a CPU abandon the current one, so `EjecucionTieneResponsable` is proved where nothing interrupts: FIFO, or CMN with FIFO queues and no preemption by
priority, and no MEM_ALLOC. The two theorems on who holds the mutexes speak of programs that unlock what they
locked and never lock twice (`ProgramasCorrectos`); a CPU module that ends leaves a call without an answer, so
`PosesionReal` holds until the first one does (`SinCaidas`). `EsperasCoherentes` needs one CPU for the reason
above: with two, the process woken before its CPU has read BLOQUEADO is executed by the other one from the PC of
before the call, makes its MUTEX_LOCK again and waits for the mutex it already owns.

*The argument.* The invariant is about places (`EnSitio`): NEW, READY, chosen by the short term, in an IO thread, on
a CPU or in a message to it or from it, in a handler that is about to move it, in the queue of a mutex.
`CadaUnoEnSuSitio` says that a process is in one of them at most and in none after EXIT; a step moves one process
from a place to another (`SubeTabla`, `SubeCPU` and the like: nobody else enters a place). That needs the connection
of each CPU to be at one point of its protocol (`TurnoCPU`: the CPU is free, or chosen, or has a PID on its way, or
runs, or its handler has the message, or an answer is on its way), since a handler acts on the PID it read.
The first lemmas of `PlanificadorProofs` say what every critical section does to states and lists, in particular that
`actualizarEstado` leaves EXIT as it is and every other process alone, and `CambioDeTabla` reduces every step of
the system to a few kinds of change, on which the lists (`Coherente`), the tokens and EXIT are proved once. The
tokens are counted with cardinalities: `TokensDeReady` compares `sem_hay_proceso_ready` with the processes in
READY. `EjecutanEnExec`, `Despertador`, `Responsable` and `InterrupcionesMotivadas` extend the invariant, each
with its own lemmas per action.

`PosesionReal` and `EsperasCoherentes` relate what a program believes it holds with the owner and the queue of
each mutex, two facts the code keeps in different modules and changes at different moments. `Posesiones` is the first
direction: what a program that runs believes is its own (`LoQueCree`), what a call not attended yet asks for or
gives back (`LosPedidos`), what an answer has granted (`LosConcedidos`) and what a queued process will have when it
is woken (`LosQueSeBloquean`) agree with `tomador` and with the queues, point by point of the call. The converse
holds with one CPU: what a process owns or waits for it believes it holds, or it is in that very MUTEX_LOCK
(`Poseidos`); after MUTEX_UNLOCK the owner is another (`Soltados`); nobody asks for what it has (`NoPideLoSuyo`),
hence nobody waits for it (`NadieEsperaLoSuyo`), and one place per process gives one queue per waiter
(`UnaCola`).

`MedianoPlazoProofs` proves, for any processes, programs, devices of each kind, memory and passes:

| theorem | statement | reserve in the property |
|---|---|---|
| `MedianoPlazoInductivo` | `Spec => []IInv` | - |
| `TokensDeIOSiempre` | a token of a kind of device stands for a free device | - |
| `NadieCorreConIOEnCursoSiempre` | no process runs or is READY while a thread is not done with one of its calls | - |
| `ListoEnMemoriaSiempre` | what is READY or runs is in memory | no race of those in `desvios`, the overtaken lock (`"bloqueo"`) among them |
| `BloqueadoEsperaAlgoSiempre` | a blocked process has who will unblock it | the same |
| `SuspReadyConReintentoSiempre` | a process in SUSP_READY is one the next pass takes, or its timer will make that pass | the same, no failed suspension |
| `AntiguedadEstableSiempre` | two processes that stay suspended keep their order, but for the one with stamp 0, that goes behind | the same |

*The argument.* `Duenios` gives each process one owner at most (the program that runs, its IO thread, the queue of
the mutex, READY once), whatever races happen. `Suspensiones` says, while none has, that each process has one
suspension under way at most, from the order to Kernel Memory until `en_swap` is set, that only who is suspended has its
segments in the swap or on their way there, in which state each thread left its process, and that a handler that has
yet to block a waiter finds it in EXEC and in the queue.

`DialogoKMProofs` proves, for any threads, requests and sizes of the answers:

| theorem | statement | reserve in the property |
|---|---|---|
| `DialogoInductivo` | `Spec => []IInv` | - |
| `RespuestaPropiaSiempre` | each thread reads the answer to its own request | no request during an eviction |
| `BSODSoloPorCorrupcionSiempre` | the scheduler ends only if a stick was lost or the text of a STDOUT looked like the notice, by its length or one of its words | - |
| `SoloElTextoEsAviso` | with no such text among those a STDOUT may read, the scheduler ends only if a stick was lost | - |
| `LectorUnicoSiempre` | two threads never read from the socket at once | - |

*The argument.* `EnDialogo` says what is between a request and the end of its answer: the request in the socket,
what Kernel Memory has yet to send and the words in the socket together are always the rest of the answer that
the thread expects, the eviction of a compaction included. `Turnos` is `mutex_km`, `Avisos` the notice: a word
that looks like it is the length of a text or one of its words, since every other length and code differs from it.

`SesionCPUProofs`, and `ContextosProofs` from `TraspasoDeContextos` on, prove, for any CPUs, processes, programs, interrupts, moves, refusals and sticks that connect late:

| theorem | statement | reserve in the property |
|---|---|---|
| `ProtocoloDeSesion` | `Spec => [](Tipos /\ Fases)`: each frame is read by who it is for | - |
| `InstruccionSiempreCorrecta` | a CPU executes the instruction its process has come to | - |
| `TurnosDeLasCPUs` | `Spec => [](Tipos /\ Fases /\ ("bloqueo" \notin desvios => Turnos /\ EnAvisos))`: one turn between the scheduler and each CPU, the steps of a MUTEX_LOCK included | no overtaken lock, `"bloqueo"` |
| `TraspasoDeContextos` | `Spec => [](Tipos /\ Fases /\ ("bloqueo" \notin desvios => Turnos /\ Traspasos))`: the last context of a process is in one place | the same |
| `ContextoSiempreAlDia` | a process goes on from the program counter it had reached | the same, and no answer of a mutex overtaken by the dispatch, `"mutex"` |
| `SesionesExactas` | `Spec => [](Tipos /\ Fases /\ ("bloqueo" \notin desvios => Turnos) /\ Exactas)`: only what a CPU waits for is on its way to it | in `Exactas`: no stick that connects late (`"stick"`), no `"bloqueo"`, no segments moved in EXEC (`"reubicado"`) |
| `TablaSiempreAlDia` | a CPU translates with the last table of its process | the same |

*The argument.* Four layers, the last two on the first two. `Fases` says, for each state of the cycle of a CPU, which
frames may be in its socket in each direction, those its thread in KM has yet to write included: a map of the
sticks is `Ruido`, which may come between any two of them and makes a CPU end rather than take it for something
else, and after a request only one answer follows it (`Acaba`). Neither side keeps a frame of the former process,
so the instruction a CPU decodes is the one it asked for. `Turnos` says that between an order to run and the last
message of that process nothing else crosses on the connection with the scheduler but interrupts: a CPU that runs
(`Corre`) is the one the scheduler has the process on, and a free CPU has nothing to say. A handler that has queued
a process for the mutex has its message before it (`EnAvisos`) and the process still in EXEC on that CPU (`Esperas`),
as long as nobody hands it the mutex in between; one that has answered and not blocked it counts as blocked (`Visto`,
`Libres`): for the CPU it is over. `Traspasos` follows the
context from one CPU to the next: the scheduler has one process per CPU (`Unicos`); a context KM has not read
belongs to a process that the scheduler still has on that CPU, or that blocked in a call, or that ends
(`Guardados`, `Salidas`), so the two CPUs of a process never both have one (`LlevaDe` and `PorGuardarDe` are
disjoint); and a process that sleeps has its last context in KM or in one socket on its way there (`AlDia`). That
last part holds until KM reads the PID of a process whose MUTEX_LOCK has its context still to come; the step that
reads it sets `"mutex"`, and the proof shows that no other step spoils a context. `Exactas` sharpens `Fases` as
long as none of its three reserves is met: without the noise of the maps a CPU never has a request and an answer on their way
at once, the frames of an answer are exactly those its state waits for, and the table among them is the one KM has
at that moment. `Turnos` says why it still is when the CPU uses it: a MEM_ALLOC or a MEM_FREE is of a process
whose CPU waits for the scheduler, and what else moves is, by the reserve `"reubicado"`, of processes out of EXEC.
Without the reserves `Exactas` fails: a map between `NO_VACIA` and the table makes the CPU keep the old one, and so does
a move while the CPU runs, which learns the new table at its next instruction.

*Only model-checked.* All liveness: fairness and ENABLED are out of the prover's reach. In `KernelMemory`,
`CompactacionAlcanza`: it compares a request with the sum of the holes, a recursive fold the provers cannot
reason about.

## 5. Plan

1. `MemoriaIdeal`: an abstract allocator (a set of disjoint intervals) that `KernelMemory` implements,
   with the compaction as one atomic step.
2. `SesionCPU` with the frames of an interrupt apart, for `esperar_pid` and PID 43; a read of the swap that
   fails; a stick that connects while KM serves a request.

*Not modelled:* fetch and decode of instructions beyond their order, registers, the bytes inside a frame, the
text a device reads or prints, the handshakes that dispatch connections, files, configuration and logs, and
the vendored libraries. They keep no state that another component relies on.
