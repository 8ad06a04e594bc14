--------------------------- MODULE AccesoMemoria ---------------------------
(***************************************************************************)
(* The accesses of the programs to the user memory: the MMU of the CPU and *)
(* the translation of Kernel Memory, the reads and writes both split over  *)
(* the Memory Sticks, and the threads of each stick that serve them        *)
(* (cpu/src/funciones_cpu.c, kernel_memory/src/managers/memory_manager.c,  *)
(* memory_stick/src/memory_stick.c).                                       *)
(*                                                                         *)
(* A CPU makes the MOV_IN, MOV_OUT and COPY_MEM of the process it runs,    *)
(* Kernel Memory the STDIN and STDOUT of one that is blocked; nothing else *)
(* stops them from going on at the same time over the same sticks.  The    *)
(* segments stay where they are: KernelMemory models what moves them.  A   *)
(* step is one request to a stick, the service of it (mutex_memoria), or   *)
(* the answer.                                                             *)
(***************************************************************************)
EXTENDS Integers, Sequences

CONSTANTS
  Procesos, Ids, CPUs, KM, Nadie,
  CantidadSticks, TamStick,  \* the sticks in the order of the map, and their bytes
  BaseStick,                 \* base_global of each
  Configurado,               \* the stick of MS_IP and MS_PORT
  Base, Largo,               \* base and tamanio of each segment; Largo 0 is no segment
  SegMax,                    \* SEGMENT_MAX_SIZE
  Modulo,                    \* 2^32: what the word of the machine counts up to
  Bytes, Inicial,
  Valores, Dato,             \* Dato[v][i] is byte i of value v
  Direcciones,               \* bound: logical addresses
  TamRegistro, TamPedido,    \* bound: sizes of registers, and of the other accesses
  MaxAccesos                 \* bound: accesses of one behaviour

Sticks == 1..CantidadSticks
Agentes == CPUs \cup {KM}
MemoriaTotal == BaseStick[CantidadSticks] + TamStick[CantidadSticks]
Disjuntos(p, id, q, jd) ==
  Base[p][id] + Largo[p][id] <= Base[q][jd] \/ Base[q][jd] + Largo[q][jd] <= Base[p][id]

\* Sticks follow each other, and segments are apart, inside the memory and no longer
\* than the longest one may be: what KernelMemory sees to.  The memory and the longest
\* segment are small for the word of the machine.
ASSUME AccesoMemoriaAssumption ==
  /\ CantidadSticks \in Nat \ {0}
  /\ TamStick \in [Sticks -> Nat \ {0}] /\ BaseStick \in [Sticks -> Nat]
  /\ BaseStick[1] = 0
  /\ \A s \in Sticks \ {1} : BaseStick[s] = BaseStick[s - 1] + TamStick[s - 1]
  /\ Configurado \in Sticks
  /\ KM \notin CPUs /\ Nadie \notin Procesos
  /\ Ids \subseteq Nat /\ SegMax \in Nat \ {0} /\ Modulo \in Nat
  /\ Base \in [Procesos -> [Ids -> Nat]] /\ Largo \in [Procesos -> [Ids -> 0..SegMax]]
  /\ \A p \in Procesos, id \in Ids : Base[p][id] + Largo[p][id] <= MemoriaTotal
  /\ \A p, q \in Procesos : \A id, jd \in Ids : <<p, id>> # <<q, jd>> => Disjuntos(p, id, q, jd)
  /\ MemoriaTotal + SegMax <= Modulo /\ 2 * SegMax <= Modulo
  /\ Inicial \in Bytes /\ Dato \in [Valores -> [0..(Modulo - 1) -> Bytes]]
  /\ Direcciones \subseteq Nat /\ \A d \in Direcciones : d \div SegMax \in Ids
  /\ TamRegistro \subseteq 1..SegMax /\ TamPedido \subseteq 0..(Modulo - 1)
  /\ MaxAccesos \in Nat

VARIABLES
  mem,      \* espacio_memoria of each stick
  acceso,   \* the access each agent is making
  pedido,   \* what it has asked the stick for, and the answer
  leido,    \* what each process got with its last read
  ultimo,   \* its last access that ended well, and how many have
  muertos,  \* processes that left their segment
  accesos   \* accesses so far

vars == <<mem, acceso, pedido, leido, ultimo, muertos, accesos>>

Libre == [pc |-> "libre", pid |-> Nadie, instr |-> Nadie, fase |-> "lee", inicio |-> 0,
          n |-> 0, hecho |-> 0, buf |-> <<>>, destino |-> 0]
SinPedido == [estado |-> "nada", stick |-> 1, orden |-> "lee", dir |-> 0, cant |-> 0, datos |-> <<>>]

Init ==
  /\ mem = [s \in Sticks |-> [i \in 0..(TamStick[s] - 1) |-> Inicial]]
  /\ acceso = [a \in Agentes |-> Libre]
  /\ pedido = [a \in Agentes |-> SinPedido]
  /\ leido = [p \in Procesos |-> <<>>]
  /\ ultimo = [p \in Procesos |-> [numero |-> 0, instr |-> Nadie]] /\ muertos = {} /\ accesos = 0

-----------------------------------------------------------------------------
(* Translation.                                                             *)

Segmento(d) == d \div SegMax
Desplazamiento(d) == d % SegMax
Suma(x, y) == (x + y) % Modulo

\* Mutation: an access may end one byte after the segment.
memory_management_unit_unoMas(p, d, n) ==
  IF Largo[p][Segmento(d)] = 0 THEN "INEXISTENTE"
  ELSE IF Suma(Desplazamiento(d), n) > Largo[p][Segmento(d)] + 1 THEN "SEG_FAULT" ELSE "OK"
\* The sum is that of the machine.
memory_management_unit(p, d, n) ==
  IF Largo[p][Segmento(d)] = 0 THEN "INEXISTENTE"
  ELSE IF Suma(Desplazamiento(d), n) > Largo[p][Segmento(d)] THEN "SEG_FAULT" ELSE "OK"
\* Kernel Memory makes the same check, on the table the CPU has a copy of.
traducir_direccion(p, d, n) == memory_management_unit(p, d, n)
DireccionFisica(p, d) == Base[p][Segmento(d)] + Desplazamiento(d)

-----------------------------------------------------------------------------
(* The CPU and Kernel Memory.                                               *)

\* The agent has nothing to do and the process is not being served anywhere else.
Puede(a, p) ==
  /\ accesos < MaxAccesos /\ accesos' = accesos + 1
  /\ acceso[a].pc = "libre"
  /\ p \notin muertos /\ \A b \in Agentes : acceso[b].pid # p
Pasa(a, registro) == acceso' = [acceso EXCEPT ![a] = registro]
Comienza(a, p, instr, fase, d, n, buf, destino) ==
  Pasa(a, [pc |-> "pide", pid |-> p, instr |-> instr, fase |-> fase,
           inicio |-> DireccionFisica(p, d), n |-> n, hecho |-> 0, buf |-> buf, destino |-> destino])
Cumplido(p, instr) == ultimo' = [ultimo EXCEPT ![p] = [numero |-> @.numero + 1, instr |-> instr]]
\* What the program asks for, with its addresses as a segment and a place in it.
Dir(d) == <<Segmento(d), Desplazamiento(d)>>
Lectura(d, n) == [op |-> "lee", dir |-> Dir(d), n |-> n, valor |-> Nadie, hacia |-> Dir(d)]
Escritura(d, n, v) == [op |-> "escribe", dir |-> Dir(d), n |-> n, valor |-> v, hacia |-> Dir(d)]
Copia(o, d, n) == [op |-> "copia", dir |-> Dir(o), n |-> n, valor |-> Nadie, hacia |-> Dir(d)]
Vacio(n) == [i \in 0..(n - 1) |-> Inicial]
Escrito(v, n) == [i \in 0..(n - 1) |-> Dato[v][i]]
\* The CPU ends: exit(EXIT_FAILURE), or the copy from the NULL lectura_ms returns.
Termina(c) == Pasa(c, [Libre EXCEPT !.pc = "fin"])

\* An access of a CPU that does not translate: without the segment the CPU ends, out of
\* it the process does.
NoTraduce(c, p, traduccion) ==
  \/ traduccion = "SEG_FAULT" /\ muertos' = muertos \cup {p} /\ UNCHANGED acceso
  \/ traduccion = "INEXISTENTE" /\ Termina(c) /\ UNCHANGED muertos

mov_in(c, p, d, n) ==
  LET traduccion == memory_management_unit(p, d, n) IN
  /\ Puede(c, p)
  /\ \/ NoTraduce(c, p, traduccion)
     \/ traduccion = "OK" /\ Comienza(c, p, Lectura(d, n), "lee", d, n, Vacio(n), 0) /\ UNCHANGED muertos
  /\ UNCHANGED <<mem, pedido, leido, ultimo>>

mov_out(c, p, d, n, v) ==
  LET traduccion == memory_management_unit(p, d, n) IN
  /\ Puede(c, p)
  /\ \/ NoTraduce(c, p, traduccion)
     \/ traduccion = "OK" /\ Comienza(c, p, Escritura(d, n, v), "escribe", d, n, Escrito(v, n), 0) /\ UNCHANGED muertos
  /\ UNCHANGED <<mem, pedido, leido, ultimo>>

\* Both ends are translated before a byte is read; no bytes end the CPU.
copy_mem(c, p, o, d, n) ==
  LET origen == memory_management_unit(p, o, n)
      destino == memory_management_unit(p, d, n)
  IN
  /\ Puede(c, p)
  /\ \/ NoTraduce(c, p, origen)
     \/ origen = "OK" /\ NoTraduce(c, p, destino)
     \/ /\ origen = "OK" /\ destino = "OK" /\ UNCHANGED muertos
        /\ \/ n = 0 /\ Termina(c)
           \/ n > 0 /\ Comienza(c, p, Copia(o, d, n), "lee", o, n, Vacio(n), DireccionFisica(p, d))
  /\ UNCHANGED <<mem, pedido, leido, ultimo>>

\* MSG_SEG_FAULT ends the process, MSG_ERROR does not.
RespondeFalla(p, traduccion) ==
  muertos' = IF traduccion = "SEG_FAULT" THEN muertos \cup {p} ELSE muertos

\* The text of a STDIN travels with its size as an int: none of no bytes is received, and
\* none of a size with the sign bit.
atender_stdin(p, d, n, v) ==
  LET traduccion == traducir_direccion(p, d, n) IN
  /\ 2 * n < Modulo
  /\ Puede(KM, p)
  /\ \/ n > 0 /\ traduccion = "OK" /\ Comienza(KM, p, Escritura(d, n, v), "escribe", d, n, Escrito(v, n), 0)
        /\ UNCHANGED muertos
     \/ n > 0 /\ traduccion # "OK" /\ RespondeFalla(p, traduccion) /\ UNCHANGED acceso
     \/ n = 0 /\ UNCHANGED <<acceso, muertos>>
  /\ UNCHANGED <<mem, pedido, leido, ultimo>>

\* No bytes are read without a request.
atender_stdout(p, d, n) ==
  LET traduccion == traducir_direccion(p, d, n) IN
  /\ Puede(KM, p)
  /\ \/ n > 0 /\ traduccion = "OK" /\ Comienza(KM, p, Lectura(d, n), "lee", d, n, Vacio(n), 0)
        /\ UNCHANGED <<muertos, leido, ultimo>>
     \/ n = 0 /\ traduccion = "OK" /\ leido' = [leido EXCEPT ![p] = Vacio(0)]
        /\ Cumplido(p, Lectura(d, n)) /\ UNCHANGED <<acceso, muertos>>
     \/ traduccion # "OK" /\ RespondeFalla(p, traduccion) /\ UNCHANGED <<acceso, leido, ultimo>>
  /\ UNCHANGED <<mem, pedido>>

-----------------------------------------------------------------------------
(* One access, stick by stick.                                              *)

Contiene(s, g) == BaseStick[s] <= g /\ g < BaseStick[s] + TamStick[s]
\* stick_de_direccion and buscar_indice_ms: the stick of each byte of the memory.
stick_de_direccion == [g \in 0..(MemoriaTotal - 1) |-> CHOOSE s \in Sticks : Contiene(s, g)]
\* Kernel Memory has the socket of each stick; the CPU has that of the stick it is
\* configured with for the first one of the map, and connects to the rest.
obtener_fd_ms(a, s) == IF a \in CPUs /\ s = 1 THEN Configurado ELSE s
Menor(x, y) == IF x < y THEN x ELSE y
Cursor(a) == acceso[a].inicio + acceso[a].hecho
SubTramo(f, desde, cant) == [i \in 0..(cant - 1) |-> f[desde + i]]

\* Mutation: the piece takes the whole stick, whatever the place in it.
enviarTramo_sinDesplazamiento(a) ==
  LET s == stick_de_direccion[Cursor(a)]
      dir == Cursor(a) - BaseStick[s]
      cant == Menor(acceso[a].n - acceso[a].hecho, TamStick[s])
  IN
  /\ acceso[a].pc = "pide" /\ Cursor(a) \in DOMAIN stick_de_direccion
  /\ Pasa(a, [acceso[a] EXCEPT !.pc = "espera"])
  /\ pedido' = [pedido EXCEPT ![a] =
       [estado |-> "enviado", stick |-> obtener_fd_ms(a, s), orden |-> acceso[a].fase,
        dir |-> dir, cant |-> cant,
        datos |-> IF acceso[a].fase = "lee" THEN <<>> ELSE SubTramo(acceso[a].buf, acceso[a].hecho, cant)]]
  /\ UNCHANGED <<mem, leido, ultimo, muertos, accesos>>
\* MSG_READ or MSG_WRITE of what the stick at hand holds of the rest.
enviarTramo(a) ==
  LET s == stick_de_direccion[Cursor(a)]
      dir == Cursor(a) - BaseStick[s]
      cant == Menor(acceso[a].n - acceso[a].hecho, TamStick[s] - dir)
  IN
  /\ acceso[a].pc = "pide" /\ Cursor(a) \in DOMAIN stick_de_direccion
  /\ Pasa(a, [acceso[a] EXCEPT !.pc = "espera"])
  /\ pedido' = [pedido EXCEPT ![a] =
       [estado |-> "enviado", stick |-> obtener_fd_ms(a, s), orden |-> acceso[a].fase,
        dir |-> dir, cant |-> cant,
        datos |-> IF acceso[a].fase = "lee" THEN <<>> ELSE SubTramo(acceso[a].buf, acceso[a].hecho, cant)]]
  /\ UNCHANGED <<mem, leido, ultimo, muertos, accesos>>

\* No stick holds the next byte: the CPU ends, Kernel Memory answers MSG_ERROR.
sinStick(a) ==
  /\ acceso[a].pc = "pide" /\ Cursor(a) \notin DOMAIN stick_de_direccion
  /\ IF a \in CPUs THEN Termina(a) ELSE Pasa(a, Libre)
  /\ UNCHANGED <<mem, pedido, leido, ultimo, muertos, accesos>>

\* The thread of the stick that serves the agent.  What is not in the stick gets no answer.
atenderPedido(a) ==
  LET r == pedido[a] IN
  /\ r.estado = "enviado"
  /\ \/ /\ r.dir + r.cant > TamStick[r.stick]
        /\ pedido' = [pedido EXCEPT ![a].estado = "perdido"] /\ UNCHANGED mem
     \/ /\ r.dir + r.cant <= TamStick[r.stick] /\ r.orden = "escribe"
        /\ mem' = [mem EXCEPT ![r.stick] = [i \in DOMAIN @ |->
             IF r.dir <= i /\ i < r.dir + r.cant THEN r.datos[i - r.dir] ELSE @[i]]]
        /\ pedido' = [pedido EXCEPT ![a].estado = "respondido"]
     \/ /\ r.dir + r.cant <= TamStick[r.stick] /\ r.orden = "lee"
        /\ pedido' = [pedido EXCEPT ![a].estado = "respondido",
                                    ![a].datos = SubTramo(mem[r.stick], r.dir, r.cant)]
        /\ UNCHANGED mem
  /\ UNCHANGED <<acceso, leido, ultimo, muertos, accesos>>

\* Mutation: each piece is put at the start of the buffer.
recibirTramo_alComienzo(a) ==
  LET x == acceso[a]
      hecho == x.hecho + pedido[a].cant
      buf == IF x.fase = "escribe" THEN x.buf ELSE pedido[a].datos
  IN
  /\ x.pc = "espera" /\ pedido[a].estado = "respondido"
  /\ pedido' = [pedido EXCEPT ![a] = SinPedido]
  /\ \/ /\ hecho < x.n
        /\ Pasa(a, [x EXCEPT !.pc = "pide", !.hecho = hecho, !.buf = buf]) /\ UNCHANGED <<leido, ultimo>>
     \/ /\ hecho = x.n /\ x.fase = "lee" /\ x.instr.op = "copia"
        /\ Pasa(a, [x EXCEPT !.pc = "pide", !.fase = "escribe", !.inicio = x.destino, !.hecho = 0, !.buf = buf])
        /\ UNCHANGED <<leido, ultimo>>
     \/ /\ hecho = x.n /\ x.fase = "lee" /\ x.instr.op # "copia"
        /\ Pasa(a, Libre) /\ Cumplido(x.pid, x.instr) /\ leido' = [leido EXCEPT ![x.pid] = buf]
     \/ /\ hecho = x.n /\ x.fase = "escribe"
        /\ Pasa(a, Libre) /\ Cumplido(x.pid, x.instr) /\ UNCHANGED leido
  /\ UNCHANGED <<mem, muertos, accesos>>
\* The answer: the rest is asked for, a COPY_MEM goes on to write, the access ends.
recibirTramo(a) ==
  LET x == acceso[a]
      hecho == x.hecho + pedido[a].cant
      buf == IF x.fase = "escribe" THEN x.buf
             ELSE [i \in DOMAIN x.buf |->
                     IF x.hecho <= i /\ i < hecho THEN pedido[a].datos[i - x.hecho] ELSE x.buf[i]]
  IN
  /\ x.pc = "espera" /\ pedido[a].estado = "respondido"
  /\ pedido' = [pedido EXCEPT ![a] = SinPedido]
  /\ \/ /\ hecho < x.n
        /\ Pasa(a, [x EXCEPT !.pc = "pide", !.hecho = hecho, !.buf = buf]) /\ UNCHANGED <<leido, ultimo>>
     \/ /\ hecho = x.n /\ x.fase = "lee" /\ x.instr.op = "copia"
        /\ Pasa(a, [x EXCEPT !.pc = "pide", !.fase = "escribe", !.inicio = x.destino, !.hecho = 0, !.buf = buf])
        /\ UNCHANGED <<leido, ultimo>>
     \/ /\ hecho = x.n /\ x.fase = "lee" /\ x.instr.op # "copia"
        /\ Pasa(a, Libre) /\ Cumplido(x.pid, x.instr) /\ leido' = [leido EXCEPT ![x.pid] = buf]
     \/ /\ hecho = x.n /\ x.fase = "escribe"
        /\ Pasa(a, Libre) /\ Cumplido(x.pid, x.instr) /\ UNCHANGED leido
  /\ UNCHANGED <<mem, muertos, accesos>>

-----------------------------------------------------------------------------
Instruccion(c) ==
  \E p \in Procesos, d \in Direcciones :
    \/ \E n \in TamRegistro : mov_in(c, p, d, n) \/ \E v \in Valores : mov_out(c, p, d, n, v)
    \/ \E o \in Direcciones, n \in TamPedido : copy_mem(c, p, o, d, n)
IOdeProceso ==
  \E p \in Procesos, d \in Direcciones, n \in TamPedido :
    atender_stdout(p, d, n) \/ \E v \in Valores : atender_stdin(p, d, n, v)
Acceso(a) == enviarTramo(a) \/ sinStick(a) \/ recibirTramo(a)

Next ==
  \/ \E c \in CPUs : Instruccion(c)
  \/ IOdeProceso
  \/ \E a \in Agentes : Acceso(a) \/ atenderPedido(a)

Spec == Init /\ [][Next]_vars
\* The agent goes on with its access and the sticks serve what they are asked for.
Justicia == \A a \in Agentes : WF_vars(Acceso(a)) /\ WF_vars(atenderPedido(a))
EspecificacionJusta == Spec /\ Justicia

-----------------------------------------------------------------------------
(* Properties.                                                              *)

\* Every variable keeps its type; the buffer of an access has a byte for each one asked for.
TypeOK ==
  /\ \A s \in Sticks : mem[s] \in [0..(TamStick[s] - 1) -> Bytes]
  /\ \A a \in Agentes :
       /\ acceso[a].pc \in {"libre", "pide", "espera", "fin"}
       /\ acceso[a].pid \in Procesos \cup {Nadie}
       /\ acceso[a].fase \in {"lee", "escribe"} /\ acceso[a].n \in 0..(Modulo - 1)
       /\ acceso[a].hecho \in 0..acceso[a].n /\ acceso[a].buf \in [0..(acceso[a].n - 1) -> Bytes]
       /\ pedido[a].estado \in {"nada", "enviado", "respondido", "perdido"}
       /\ pedido[a].stick \in Sticks /\ pedido[a].cant \in 0..acceso[a].n
  /\ DOMAIN leido = Procesos /\ DOMAIN ultimo = Procesos /\ muertos \subseteq Procesos /\ accesos \in 0..MaxAccesos

\* The bytes of memory as the programs see them: those an agent has still to write count
\* as written.
Escribe(a, g) ==
  /\ acceso[a].pc \in {"pide", "espera"} /\ acceso[a].fase = "escribe"
  /\ Cursor(a) <= g /\ g < acceso[a].inicio + acceso[a].n
Fisico(g) == mem[stick_de_direccion[g]][g - BaseStick[stick_de_direccion[g]]]
Visto(g) ==
  IF \E a \in Agentes : Escribe(a, g)
  THEN LET a == CHOOSE b \in Agentes : Escribe(b, g) IN acceso[a].buf[g - acceso[a].inicio]
  ELSE Fisico(g)
Contenido == [p \in Procesos |-> [id \in Ids |-> [i \in 0..(Largo[p][id] - 1) |-> Visto(Base[p][id] + i)]]]

Escritores(p) == {a \in Agentes : acceso[a].pid = p /\ acceso[a].fase = "escribe"}
Ultimo ==
  [p \in Procesos |->
     IF Escritores(p) = {} THEN ultimo[p]
     ELSE [numero |-> ultimo[p].numero + 1, instr |-> acceso[CHOOSE a \in Escritores(p) : TRUE].instr]]

Plana == INSTANCE MemoriaPlana WITH contenido <- Contenido, ultimo <- Ultimo

\* However the accesses of CPUs and Kernel Memory are split over the sticks and
\* interleaved there, each reads or writes all of its bytes as if at once, and no others:
\* memory_management_unit with lectura_ms and escritura_ms, traducir_direccion with
\* leer_memoria_fisica and escribir_memoria_fisica.
ImplementaMemoriaPlana == Plana!Spec

\* Every access ends: each piece of it is one the stick it is sent to holds, so none of
\* the requests the sticks drop without an answer (memory_stick.c:86, 126) is ever made.
AccesosTerminan ==
  \A a \in Agentes : acceso[a].pc \in {"pide", "espera"} ~> acceso[a].pc \in {"libre", "fin"}
=============================================================================
