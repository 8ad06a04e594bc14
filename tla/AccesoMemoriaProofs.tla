------------------------ MODULE AccesoMemoriaProofs ------------------------
(* Proofs about AccesoMemoria, for any sticks, segments, CPUs and sizes.    *)
EXTENDS AccesoMemoria, WellFoundedInduction, TLAPS

-----------------------------------------------------------------------------
(* Arithmetic and the map of the sticks.                                    *)

\* A set of naturals that is not empty has a least element.
LEMMA TieneMinimo ==
  ASSUME NEW T, T \subseteq Nat, T # {}
  PROVE  \E x \in T : \A y \in T : x <= y
<1> DEFINE R == OpToRel(<, Nat)
<1>1. IsWellFoundedOn(R, Nat)
  BY NatLessThanWellFounded
<1>2. \A x, y \in Nat : <<x, y>> \in R <=> x < y
  BY DEF OpToRel
<1> HIDE DEF R
<1>3. PICK x \in T : \A y \in T : ~(<<y, x>> \in R)
  BY <1>1, WFMin
<1>4. \A y \in T : y \in Nat /\ x \in Nat
  OBVIOUS
<1>5. \A y \in T : ~(y < x)
  BY <1>2, <1>3, <1>4
<1>6. \A y \in T : x <= y
  BY <1>4, <1>5
<1> QED  BY <1>6

\* What is less than the divisor is its own remainder.
LEMMA RestoMenor ==
  ASSUME NEW z \in Nat, NEW m \in Nat, z < m
  PROVE  z % m = z
OBVIOUS

\* A sum the word of the machine holds does not wrap.
LEMMA SumaSinVuelta ==
  ASSUME NEW x \in Nat, NEW y \in Nat, x + y < Modulo
  PROVE  Suma(x, y) = x + y
<1>1. x + y \in Nat /\ Modulo \in Nat
  BY AccesoMemoriaAssumption
<1> QED  BY <1>1, RestoMenor DEF Suma

\* The place of an address in its segment.
LEMMA RangoDesplazamiento ==
  ASSUME NEW d \in Nat
  PROVE  Desplazamiento(d) \in 0..(SegMax - 1)
<1>1. SegMax \in Nat /\ SegMax > 0
  BY AccesoMemoriaAssumption
<1> QED  BY <1>1 DEF Desplazamiento

\* The types of the map of the sticks.
LEMMA TiposSticks ==
  /\ CantidadSticks \in Sticks
  /\ \A s \in Sticks : s \in Nat /\ BaseStick[s] \in Nat /\ TamStick[s] \in Nat /\ TamStick[s] > 0
  /\ MemoriaTotal \in Nat
<1>1. /\ CantidadSticks \in Nat \ {0}
      /\ TamStick \in [Sticks -> Nat \ {0}] /\ BaseStick \in [Sticks -> Nat]
  BY AccesoMemoriaAssumption
<1>2. CantidadSticks \in Sticks /\ Sticks \subseteq Nat
  BY <1>1 DEF Sticks
<1>3. \A s \in Sticks : BaseStick[s] \in Nat /\ TamStick[s] \in Nat \ {0}
  BY <1>1
<1>4. \A s \in Sticks : TamStick[s] > 0
  BY <1>3
<1> QED  BY <1>2, <1>3, <1>4 DEF MemoriaTotal

\* A stick begins where the previous one ends.
LEMMA StickSiguiente ==
  ASSUME NEW s \in Sticks, s # 1
  PROVE  s - 1 \in Sticks /\ BaseStick[s] = BaseStick[s - 1] + TamStick[s - 1]
<1>1. s - 1 \in Sticks
  BY TiposSticks DEF Sticks
<1>2. s \in Sticks \ {1}
  OBVIOUS
<1> QED  BY <1>1, <1>2, AccesoMemoriaAssumption

\* A stick ends where a later one begins or before.
LEMMA SticksEnOrden ==
  ASSUME NEW s \in Sticks, NEW t \in Sticks, s < t
  PROVE  BaseStick[s] + TamStick[s] <= BaseStick[t]
<1> DEFINE Fuera == {k \in Sticks : s < k /\ ~(BaseStick[s] + TamStick[s] <= BaseStick[k])}
<1>1. SUFFICES ASSUME Fuera # {} PROVE FALSE
  OBVIOUS
<1>2. Fuera \subseteq Nat
  BY DEF Sticks
<1>3. PICK k \in Fuera : \A j \in Fuera : k <= j
  BY <1>1, <1>2, TieneMinimo
<1>4. k \in Sticks /\ s < k /\ k \in Nat /\ k - 1 \in Sticks /\ k # 1 /\ s <= k - 1
  <2>1. k \in Sticks /\ s < k
    BY <1>3
  <2> QED  BY <2>1, TiposSticks DEF Sticks
<1>5. BaseStick[k] = BaseStick[k - 1] + TamStick[k - 1]
  BY <1>4, StickSiguiente
<1>6. k - 1 \notin Fuera
  BY <1>2, <1>3
<1>7. k - 1 = s \/ BaseStick[s] + TamStick[s] <= BaseStick[k - 1]
  BY <1>4, <1>6, TiposSticks
<1>8. BaseStick[s] + TamStick[s] <= BaseStick[k]
  BY <1>4, <1>5, <1>7, TiposSticks
<1> QED  BY <1>3, <1>8

\* Every byte of the memory is in a stick, and in no other.
LEMMA SticksCubren ==
  ASSUME NEW g \in 0..(MemoriaTotal - 1)
  PROVE  \E s \in Sticks : Contiene(s, g) /\ \A t \in Sticks : Contiene(t, g) => t = s
<1> DEFINE Alcanzan == {k \in Sticks : g < BaseStick[k] + TamStick[k]}
<1>1. CantidadSticks \in Alcanzan
  BY TiposSticks DEF MemoriaTotal
<1>2. Alcanzan \subseteq Nat /\ Alcanzan # {}
  BY <1>1 DEF Sticks
<1>3. PICK s \in Alcanzan : \A j \in Alcanzan : s <= j
  BY <1>2, TieneMinimo
<1>4. BaseStick[s] <= g
  <2>1. CASE s = 1
    BY <2>1, AccesoMemoriaAssumption
  <2>2. CASE s # 1
    <3>0. s \in Sticks
      BY <1>3
    <3>1. s \in Nat /\ s - 1 \in Sticks
      BY <2>2, <3>0, StickSiguiente, TiposSticks
    <3>2. s - 1 \notin Alcanzan
      BY <1>2, <1>3
    <3>3. BaseStick[s] = BaseStick[s - 1] + TamStick[s - 1]
      BY <2>2, <3>0, StickSiguiente
    <3> QED  BY <3>0, <3>1, <3>2, <3>3, TiposSticks
  <2> QED  BY <2>1, <2>2
<1>5. s \in Sticks /\ Contiene(s, g)
  BY <1>3, <1>4 DEF Contiene
<1>6. ASSUME NEW t \in Sticks, Contiene(t, g) PROVE t = s
  <2>1. s < t \/ t < s \/ s = t
    BY <1>5 DEF Sticks
  <2> QED  BY <1>5, <1>6, <2>1, SticksEnOrden, TiposSticks DEF Contiene
<1> QED  BY <1>5, <1>6

\* The stick of a byte is the one that holds it.
LEMMA StickDeDireccion ==
  /\ DOMAIN stick_de_direccion = 0..(MemoriaTotal - 1)
  /\ \A g \in 0..(MemoriaTotal - 1) :
       /\ stick_de_direccion[g] \in Sticks
       /\ Contiene(stick_de_direccion[g], g)
       /\ \A t \in Sticks : Contiene(t, g) => t = stick_de_direccion[g]
<1>1. ASSUME NEW g \in 0..(MemoriaTotal - 1)
      PROVE  /\ stick_de_direccion[g] \in Sticks
             /\ Contiene(stick_de_direccion[g], g)
             /\ \A t \in Sticks : Contiene(t, g) => t = stick_de_direccion[g]
  <2>1. stick_de_direccion[g] = CHOOSE s \in Sticks : Contiene(s, g)
    BY DEF stick_de_direccion
  <2> QED  BY <2>1, SticksCubren
<1> QED  BY <1>1 DEF stick_de_direccion

-----------------------------------------------------------------------------
(* What the assumption says, in the pieces the proofs cite.                 *)

\* A word holds every address and every size: sums of both do not wrap.
LEMMA Palabra ==
  /\ SegMax \in Nat /\ SegMax > 0 /\ Modulo \in Nat
  /\ MemoriaTotal + SegMax <= Modulo /\ 2 * SegMax <= Modulo
BY AccesoMemoriaAssumption

\* Kernel Memory is no CPU, nobody is no process, and bytes are what is written.
LEMMA Nombres ==
  /\ KM \notin CPUs /\ Nadie \notin Procesos /\ Configurado \in Sticks /\ MaxAccesos \in Nat
  /\ Inicial \in Bytes /\ Dato \in [Valores -> [0..(Modulo - 1) -> Bytes]]
BY AccesoMemoriaAssumption

\* A segment lies inside the memory.
LEMMA Segmentos ==
  ASSUME NEW p \in Procesos, NEW id \in Ids
  PROVE  /\ Base[p][id] \in Nat /\ Largo[p][id] \in Nat
         /\ Base[p][id] + Largo[p][id] <= MemoriaTotal
<1>1. Base \in [Procesos -> [Ids -> Nat]] /\ Largo \in [Procesos -> [Ids -> 0..SegMax]]
  BY AccesoMemoriaAssumption
<1>2. Base[p][id] + Largo[p][id] <= MemoriaTotal
  BY AccesoMemoriaAssumption
<1>3. Largo[p][id] \in 0..SegMax
  BY <1>1
<1>4. Base[p][id] \in Nat
  BY <1>1
<1> QED  BY <1>2, <1>3, <1>4, Palabra

\* No byte is in two segments.
LEMMA SegmentosApartados ==
  ASSUME NEW p \in Procesos, NEW q \in Procesos, NEW id \in Ids, NEW jd \in Ids,
         NEW g \in Nat,
         Base[p][id] <= g, g < Base[p][id] + Largo[p][id],
         Base[q][jd] <= g, g < Base[q][jd] + Largo[q][jd]
  PROVE  p = q /\ id = jd
<1>1. SUFFICES ASSUME ~(p = q /\ id = jd) PROVE FALSE
  OBVIOUS
<1>2. Disjuntos(p, id, q, jd)
  BY <1>1, AccesoMemoriaAssumption
<1> QED  BY <1>2, Segmentos DEF Disjuntos

\* The addresses a program uses.
LEMMA DireccionesValidas ==
  ASSUME NEW d \in Direcciones
  PROVE  /\ Segmento(d) \in Ids /\ Desplazamiento(d) \in Nat /\ Desplazamiento(d) < SegMax
         /\ Dir(d) \in Ids \X Nat /\ Dir(d)[1] = Segmento(d) /\ Dir(d)[2] = Desplazamiento(d)
<1>1. d \in Nat /\ Segmento(d) \in Ids
  BY AccesoMemoriaAssumption DEF Segmento
<1>2. Desplazamiento(d) \in Nat /\ Desplazamiento(d) < SegMax
  BY <1>1, RangoDesplazamiento, Palabra
<1> QED  BY <1>1, <1>2 DEF Dir

\* The sizes of the accesses.
LEMMA TamaniosValidos ==
  /\ \A n \in TamRegistro : n \in Nat /\ 0 < n /\ n <= SegMax /\ n < Modulo
  /\ \A n \in TamPedido : n \in Nat /\ n < Modulo
<1>1. TamRegistro \subseteq 1..SegMax /\ TamPedido \subseteq 0..(Modulo - 1)
  BY AccesoMemoriaAssumption
<1> QED  BY <1>1, Palabra

-----------------------------------------------------------------------------
(* The inductive invariant: who is making which access, and what it asked   *)
(* its stick for.                                                           *)

Buffers == UNION {[0..(k - 1) -> Bytes] : k \in Nat}
Instrucciones ==
  [op : {"lee", "escribe", "copia"}, dir : Ids \X Nat, n : Nat, valor : Valores \cup {Nadie}, hacia : Ids \X Nat]
Accesos ==
  [pc : {"libre", "pide", "espera", "fin"}, pid : Procesos \cup {Nadie}, instr : Instrucciones \cup {Nadie},
   fase : {"lee", "escribe"}, inicio : Nat, n : 0..(Modulo - 1), hecho : Nat, buf : Buffers, destino : Nat]
Pedidos ==
  [estado : {"nada", "enviado", "respondido", "perdido"}, stick : Sticks, orden : {"lee", "escribe"},
   dir : Nat, cant : Nat, datos : Buffers]

\* Bytes of an address are in its segment; where they are in the memory.
Dentro(p, dir, n) == dir[2] + n <= Largo[p][dir[1]]
Fisica(p, dir) == Base[p][dir[1]] + dir[2]

Activo(x) == x.pc \in {"pide", "espera"}

\* An access under way is that of its instruction.  A size the sum of the check wrapped
\* for is more than the memory has, and only a read may have it.
EnCurso(x) ==
  /\ x.pid \in Procesos /\ x.instr \in Instrucciones /\ x.instr.n = x.n
  /\ x.n > 0 /\ x.hecho < x.n
  /\ x.fase = "lee" => x.inicio = Fisica(x.pid, x.instr.dir)
  /\ x.fase = "escribe" => x.inicio = Fisica(x.pid, x.instr.hacia) /\ x.n <= MemoriaTotal
  /\ x.n <= MemoriaTotal => Dentro(x.pid, x.instr.dir, x.n) /\ Dentro(x.pid, x.instr.hacia, x.n)
  /\ \/ x.fase = "lee" /\ x.instr = Plana!Lectura(x.instr.dir, x.n)
     \/ /\ x.fase = "escribe" /\ x.instr.valor \in Valores
        /\ x.instr = Plana!Escritura(x.instr.dir, x.n, x.instr.valor)
        /\ x.buf = Escrito(x.instr.valor, x.n)
     \/ /\ x.instr = Plana!Copia(x.instr.dir, x.instr.hacia, x.n)
        /\ x.destino = Fisica(x.pid, x.instr.hacia)

AccesoOK(x) ==
  /\ x.buf \in [0..(x.n - 1) -> Bytes]
  /\ Activo(x) => EnCurso(x)
  /\ ~Activo(x) => x.pid = Nadie /\ x.fase = "lee" /\ x.hecho = 0

\* What an agent waits for is the piece of its access that the stick at hand holds.
PedidoOK(a, x, r) ==
  /\ x.pc # "espera" => r.estado = "nada" /\ r.cant = 0
  /\ x.pc = "espera" =>
       LET g == x.inicio + x.hecho
           s == stick_de_direccion[g]
       IN
       /\ g \in 0..(MemoriaTotal - 1) /\ r.stick = obtener_fd_ms(a, s) /\ r.orden = x.fase
       /\ r.dir = g - BaseStick[s]
       /\ 0 < r.cant /\ x.hecho + r.cant <= x.n /\ r.dir + r.cant <= TamStick[s]
       /\ r.orden = "escribe" => r.datos = SubTramo(x.buf, x.hecho, r.cant)
       /\ r.estado = "respondido" => r.datos \in [0..(r.cant - 1) -> Bytes]

AgentesOK ==
  /\ acceso \in [Agentes -> Accesos] /\ pedido \in [Agentes -> Pedidos]
  /\ \A a \in Agentes : AccesoOK(acceso[a]) /\ PedidoOK(a, acceso[a], pedido[a])
  /\ \A a, b \in Agentes : acceso[a].pid = acceso[b].pid /\ acceso[a].pid \in Procesos => a = b

MemoriaOK ==
  /\ DOMAIN mem = Sticks
  /\ \A s \in Sticks : mem[s] \in [0..(TamStick[s] - 1) -> Bytes]
ResultadosOK ==
  /\ DOMAIN leido = Procesos
  /\ ultimo \in [Procesos -> [numero : Nat, instr : Instrucciones \cup {Nadie}]]
  /\ muertos \subseteq Procesos /\ accesos \in 0..MaxAccesos

IInv == AgentesOK /\ MemoriaOK /\ ResultadosOK

\* What was read so far is what is in the memory, and so is what was answered; what was
\* answered to a write is there.  For the rest of the argument the socket of a stick is
\* that of the stick.
Leidos(x) ==
  Activo(x) /\ x.fase = "lee" /\ x.n <= MemoriaTotal =>
    \A i \in 0..(x.hecho - 1) : x.buf[i] = Fisico(x.inicio + i)
Respondidos(x, r) ==
  r.estado = "respondido" /\ x.n <= MemoriaTotal =>
    \A i \in 0..(r.cant - 1) :
      Fisico(x.inicio + x.hecho + i) = IF r.orden = "lee" THEN r.datos[i] ELSE x.buf[x.hecho + i]
ContenidosOK ==
  \A a \in Agentes : Leidos(acceso[a]) /\ Respondidos(acceso[a], pedido[a])

\* None of the requests is one the stick drops.
NadaSePierde == \A a \in Agentes : pedido[a].estado # "perdido"

-----------------------------------------------------------------------------
(* Type correctness.                                                        *)

\* An agent changes its access and what it asks for, and no other agent serves the process.
LEMMA AgenteCambia ==
  ASSUME AgentesOK, NEW a \in Agentes, NEW x \in Accesos, NEW r \in Pedidos,
         AccesoOK(x), PedidoOK(a, x, r),
         \A b \in Agentes \ {a} : acceso[b].pid # x.pid \/ x.pid = Nadie,
         acceso' = [acceso EXCEPT ![a] = x], pedido' = [pedido EXCEPT ![a] = r]
  PROVE  AgentesOK'
<1>1. acceso' \in [Agentes -> Accesos] /\ pedido' \in [Agentes -> Pedidos]
  BY DEF AgentesOK
<1>2. /\ acceso'[a] = x /\ pedido'[a] = r
      /\ \A b \in Agentes \ {a} : acceso'[b] = acceso[b] /\ pedido'[b] = pedido[b]
  BY DEF AgentesOK
<1>3. ASSUME NEW b \in Agentes PROVE AccesoOK(acceso'[b]) /\ PedidoOK(b, acceso'[b], pedido'[b])
  <2>1. CASE b = a
    BY <1>2, <2>1
  <2>2. CASE b # a
    BY <1>2, <2>2 DEF AgentesOK
  <2> QED  BY <2>1, <2>2
<1>4. ASSUME NEW b \in Agentes, NEW c \in Agentes,
             acceso'[b].pid = acceso'[c].pid, acceso'[b].pid \in Procesos
      PROVE  b = c
  <2>1. CASE b = a \/ c = a
    BY <1>2, <1>4, <2>1, Nombres
  <2>2. CASE b # a /\ c # a
    BY <1>2, <1>4, <2>2 DEF AgentesOK
  <2> QED  BY <2>1, <2>2
<1> QED  BY <1>1, <1>3, <1>4 DEF AgentesOK

\* What traducir_direccion lets through is in its segment when the sum does not wrap.
LEMMA TraduceDentro ==
  ASSUME NEW p \in Procesos, NEW d \in Direcciones, NEW n \in Nat,
         Desplazamiento(d) + n < Modulo,
         memory_management_unit(p, d, n) = "OK"
  PROVE  Dentro(p, Dir(d), n)
<1>1. Suma(Desplazamiento(d), n) = Desplazamiento(d) + n
  BY DireccionesValidas, SumaSinVuelta
<1>2. ~(Suma(Desplazamiento(d), n) > Largo[p][Segmento(d)])
  BY DEF memory_management_unit
<1> QED  BY <1>1, <1>2, DireccionesValidas, Segmentos DEF Dentro

\* The address the code computes, without wrapping, is the base plus the offset.
LEMMA FisicaDireccion ==
  ASSUME NEW p \in Procesos, NEW d \in Direcciones
  PROVE  DireccionFisica(p, d) = Fisica(p, Dir(d)) /\ DireccionFisica(p, d) \in Nat
BY DireccionesValidas, Segmentos DEF DireccionFisica, Fisica

\* A buffer of n bytes is one of the buffers.
LEMMA EsBuffer ==
  ASSUME NEW n \in Nat, NEW f \in [0..(n - 1) -> Bytes]
  PROVE  f \in Buffers
BY DEF Buffers

\* The buffer of no bytes.
LEMMA BufferVacio == <<>> \in [0..(0 - 1) -> Bytes]
OBVIOUS

\* An agent without an access has the type of one, and so has one that ended.
LEMMA TiposLibre ==
  /\ Libre \in Accesos /\ [Libre EXCEPT !.pc = "fin"] \in Accesos /\ SinPedido \in Pedidos
  /\ AccesoOK(Libre) /\ AccesoOK([Libre EXCEPT !.pc = "fin"])
<1>1. <<>> \in Buffers
  BY BufferVacio DEF Buffers
<1>2. 0 \in 0..(Modulo - 1)
  BY Palabra
<1>3. 1 \in Sticks
  BY TiposSticks DEF Sticks
<1>4. Libre \in Accesos /\ [Libre EXCEPT !.pc = "fin"] \in Accesos
  BY <1>1, <1>2 DEF Libre, Accesos
<1>5. SinPedido \in Pedidos
  BY <1>1, <1>3 DEF SinPedido, Pedidos
<1>6. AccesoOK(Libre) /\ AccesoOK([Libre EXCEPT !.pc = "fin"])
  BY BufferVacio DEF AccesoOK, Libre, Activo
<1> QED  BY <1>4, <1>5, <1>6

\* An agent that had nothing to do begins the access of an instruction.
LEMMA Empieza ==
  ASSUME AgentesOK, NEW a \in Agentes, NEW p \in Procesos,
         acceso[a].pc = "libre", \A b \in Agentes : acceso[b].pid # p,
         NEW instr \in Instrucciones, NEW fase \in {"lee", "escribe"}, NEW d \in Direcciones,
         NEW n \in Nat, 0 < n, n < Modulo, NEW buf \in [0..(n - 1) -> Bytes], NEW destino \in Nat,
         instr.n = n,
         instr.dir = Dir(d) \/ fase = "escribe",
         fase = "escribe" => n <= MemoriaTotal /\ instr.hacia = Dir(d),
         n <= MemoriaTotal => Dentro(p, instr.dir, n) /\ Dentro(p, instr.hacia, n),
         \/ fase = "lee" /\ instr = Plana!Lectura(instr.dir, n)
         \/ /\ fase = "escribe" /\ instr.valor \in Valores
            /\ instr = Plana!Escritura(instr.dir, n, instr.valor) /\ buf = Escrito(instr.valor, n)
         \/ instr = Plana!Copia(instr.dir, instr.hacia, n) /\ destino = Fisica(p, instr.hacia),
         Comienza(a, p, instr, fase, d, n, buf, destino), UNCHANGED pedido
  PROVE  AgentesOK'
<1> DEFINE x == [pc |-> "pide", pid |-> p, instr |-> instr, fase |-> fase,
                 inicio |-> DireccionFisica(p, d), n |-> n, hecho |-> 0, buf |-> buf, destino |-> destino]
<1>1. acceso' = [acceso EXCEPT ![a] = x]
  BY DEF Comienza, Pasa
<1>2. pedido' = [pedido EXCEPT ![a] = pedido[a]] /\ pedido[a] \in Pedidos
  BY DEF AgentesOK
<1>3. x \in Accesos
  BY EsBuffer, FisicaDireccion, Palabra DEF Accesos
<1>4. EnCurso(x)
  BY FisicaDireccion DEF EnCurso
<1>5. AccesoOK(x)
  BY <1>4 DEF AccesoOK, Activo
<1>6. pedido[a].estado = "nada" /\ pedido[a].cant = 0
  BY DEF AgentesOK, PedidoOK
<1>7. PedidoOK(a, x, pedido[a])
  BY <1>6 DEF PedidoOK
<1>8. \A b \in Agentes \ {a} : acceso[b].pid # x.pid
  OBVIOUS
<1> HIDE DEF x
<1> QED  BY <1>1, <1>2, <1>3, <1>5, <1>7, <1>8, AgenteCambia

\* A CPU that ends, or an agent that has done with its access.
LEMMA Suelta ==
  ASSUME AgentesOK, NEW a \in Agentes, NEW x \in {Libre, [Libre EXCEPT !.pc = "fin"]},
         Pasa(a, x),
         \/ pedido' = [pedido EXCEPT ![a] = SinPedido]
         \/ UNCHANGED pedido /\ acceso[a].pc # "espera"
  PROVE  AgentesOK'
<1>1. acceso' = [acceso EXCEPT ![a] = x]
  BY DEF Pasa
<1>2. x \in Accesos /\ AccesoOK(x)
  BY TiposLibre
<1>3. x.pc # "espera" /\ x.pid = Nadie
  BY DEF Libre
<1>4. PedidoOK(a, x, SinPedido)
  BY <1>3 DEF PedidoOK, SinPedido
<1>5. CASE pedido' = [pedido EXCEPT ![a] = SinPedido]
  BY <1>1, <1>2, <1>3, <1>4, <1>5, TiposLibre, AgenteCambia
<1>6. CASE UNCHANGED pedido /\ acceso[a].pc # "espera"
  <2>1. pedido' = [pedido EXCEPT ![a] = pedido[a]] /\ pedido[a] \in Pedidos
    BY <1>6 DEF AgentesOK
  <2>2. PedidoOK(a, x, pedido[a])
    BY <1>3, <1>6 DEF AgentesOK, PedidoOK
  <2> QED  BY <1>1, <1>2, <1>3, <2>1, <2>2, AgenteCambia
<1> QED  BY <1>5, <1>6

\* AgentesOK speaks of the accesses and of their requests only.
LEMMA AgentesIguales ==
  ASSUME AgentesOK, UNCHANGED <<acceso, pedido>>
  PROVE  AgentesOK'
BY DEF AgentesOK

\* The instructions of the programs are those of MemoriaPlana.
LEMMA LecturaTipo ==
  ASSUME NEW d \in Direcciones, NEW n \in Nat
  PROVE  /\ Lectura(d, n) \in Instrucciones /\ Lectura(d, n).n = n
         /\ Lectura(d, n).dir = Dir(d) /\ Lectura(d, n).hacia = Dir(d)
         /\ Lectura(d, n) = Plana!Lectura(Lectura(d, n).dir, n)
BY DireccionesValidas DEF Lectura, Plana!Lectura, Instrucciones

\* The record of a write, field by field, here and in the abstract memory.
LEMMA EscrituraTipo ==
  ASSUME NEW d \in Direcciones, NEW n \in Nat, NEW v \in Valores
  PROVE  /\ Escritura(d, n, v) \in Instrucciones /\ Escritura(d, n, v).n = n
         /\ Escritura(d, n, v).dir = Dir(d) /\ Escritura(d, n, v).hacia = Dir(d)
         /\ Escritura(d, n, v).valor = v
         /\ Escritura(d, n, v) = Plana!Escritura(Escritura(d, n, v).dir, n, Escritura(d, n, v).valor)
BY DireccionesValidas DEF Escritura, Plana!Escritura, Instrucciones

\* The record of a copy, field by field, here and in the abstract memory.
LEMMA CopiaTipo ==
  ASSUME NEW o \in Direcciones, NEW d \in Direcciones, NEW n \in Nat
  PROVE  /\ Copia(o, d, n) \in Instrucciones /\ Copia(o, d, n).n = n
         /\ Copia(o, d, n).dir = Dir(o) /\ Copia(o, d, n).hacia = Dir(d)
         /\ Copia(o, d, n) = Plana!Copia(Copia(o, d, n).dir, Copia(o, d, n).hacia, n)
BY DireccionesValidas DEF Copia, Plana!Copia, Instrucciones

\* A buffer of n bytes that nothing has been read into.
LEMMA BufferVacioDe ==
  ASSUME NEW n \in Nat
  PROVE  Vacio(n) \in [0..(n - 1) -> Bytes]
BY Nombres DEF Vacio

\* A buffer with the n bytes of the value to write.
LEMMA BufferEscrito ==
  ASSUME NEW v \in Valores, NEW n \in Nat, n < Modulo
  PROVE  Escrito(v, n) \in [0..(n - 1) -> Bytes]
<1>1. \A i \in 0..(n - 1) : i \in 0..(Modulo - 1)
  BY Palabra
<1>2. \A i \in 0..(n - 1) : Dato[v][i] \in Bytes
  BY <1>1, Nombres
<1> QED  BY <1>2 DEF Escrito

\* The beginning of a write that translates.
LEMMA EmpiezaEscritura ==
  ASSUME AgentesOK, NEW a \in Agentes, NEW p \in Procesos, NEW d \in Direcciones, NEW v \in Valores,
         acceso[a].pc = "libre", \A b \in Agentes : acceso[b].pid # p, UNCHANGED pedido,
         NEW n \in Nat, 0 < n, n < Modulo, Dentro(p, Dir(d), n),
         Comienza(a, p, Escritura(d, n, v), "escribe", d, n, Escrito(v, n), 0)
  PROVE  AgentesOK'
<1> DEFINE instr == Escritura(d, n, v)
           buf == Escrito(v, n)
<1>1. n <= MemoriaTotal
  BY DireccionesValidas, Segmentos, TiposSticks DEF Dentro
<1>2. /\ instr \in Instrucciones /\ instr.n = n /\ instr.dir = Dir(d) /\ instr.hacia = Dir(d) /\ instr.valor = v
      /\ instr = Plana!Escritura(instr.dir, n, instr.valor)
  BY EscrituraTipo
<1>3. buf \in [0..(n - 1) -> Bytes] /\ buf = Escrito(instr.valor, n)
  BY <1>2, BufferEscrito
<1>4. Comienza(a, p, instr, "escribe", d, n, buf, 0)
  OBVIOUS
<1> HIDE DEF instr, buf
<1> QED  BY <1>1, <1>2, <1>3, <1>4, Empieza

\* The beginning of an access of a CPU that does not translate.
LEMMA NoTraduceOK ==
  ASSUME AgentesOK, NEW c \in CPUs, NEW p \in Procesos, NEW t, NoTraduce(c, p, t),
         acceso[c].pc = "libre", UNCHANGED pedido
  PROVE  AgentesOK'
<1>1. c \in Agentes
  BY DEF Agentes
<1>2. CASE UNCHANGED acceso
  BY <1>2, AgentesIguales
<1>3. CASE Termina(c)
  BY <1>1, <1>3, Suelta DEF Termina
<1> QED  BY <1>2, <1>3 DEF NoTraduce

\* MOV_IN starts an access of the right type.
LEMMA MovInOK ==
  ASSUME AgentesOK, NEW c \in CPUs, NEW p \in Procesos, NEW d \in Direcciones,
         NEW n \in TamRegistro, mov_in(c, p, d, n)
  PROVE  AgentesOK'
<1>1. c \in Agentes /\ acceso[c].pc = "libre" /\ (\A b \in Agentes : acceso[b].pid # p) /\ UNCHANGED pedido
  BY DEF Agentes, mov_in, Puede
<1>2. CASE NoTraduce(c, p, memory_management_unit(p, d, n))
  BY <1>1, <1>2, NoTraduceOK
<1>3. CASE /\ memory_management_unit(p, d, n) = "OK"
           /\ Comienza(c, p, Lectura(d, n), "lee", d, n, Vacio(n), 0)
  <2>1. n \in Nat /\ 0 < n /\ n < Modulo /\ Desplazamiento(d) + n < Modulo
    BY TamaniosValidos, DireccionesValidas, Palabra
  <2>2. Dentro(p, Dir(d), n)
    BY <1>3, <2>1, TraduceDentro
  <2> QED  BY <1>1, <1>3, <2>1, <2>2, LecturaTipo, BufferVacioDe, Empieza
<1> QED  BY <1>2, <1>3 DEF mov_in

\* A STDOUT starts an access of Kernel Memory of the right type.
LEMMA AtenderStdoutOK ==
  ASSUME AgentesOK, NEW p \in Procesos, NEW d \in Direcciones,
         NEW n \in TamPedido, atender_stdout(p, d, n)
  PROVE  AgentesOK'
<1>1. KM \in Agentes /\ acceso[KM].pc = "libre" /\ (\A b \in Agentes : acceso[b].pid # p) /\ UNCHANGED pedido
  BY DEF Agentes, atender_stdout, Puede
<1>2. CASE UNCHANGED acceso
  BY <1>1, <1>2, AgentesIguales
<1>3. CASE /\ n > 0 /\ traducir_direccion(p, d, n) = "OK"
           /\ Comienza(KM, p, Lectura(d, n), "lee", d, n, Vacio(n), 0)
  <2>1. n \in Nat /\ 0 < n /\ n < Modulo
    BY <1>3, TamaniosValidos
  <2>2. n <= MemoriaTotal => Dentro(p, Dir(d), n)
    BY <1>3, <2>1, TraduceDentro, DireccionesValidas, Palabra, TiposSticks DEF traducir_direccion
  <2> QED  BY <1>1, <1>3, <2>1, <2>2, LecturaTipo, BufferVacioDe, Empieza
<1> QED  BY <1>2, <1>3 DEF atender_stdout

\* MOV_OUT starts an access of the right type.
LEMMA MovOutOK ==
  ASSUME AgentesOK, NEW c \in CPUs, NEW p \in Procesos, NEW d \in Direcciones,
         NEW n \in TamRegistro, NEW v \in Valores, mov_out(c, p, d, n, v)
  PROVE  AgentesOK'
<1>1. c \in Agentes /\ acceso[c].pc = "libre" /\ (\A b \in Agentes : acceso[b].pid # p) /\ UNCHANGED pedido
  BY DEF Agentes, mov_out, Puede
<1>2. CASE NoTraduce(c, p, memory_management_unit(p, d, n))
  BY <1>1, <1>2, NoTraduceOK
<1>3. CASE /\ memory_management_unit(p, d, n) = "OK"
           /\ Comienza(c, p, Escritura(d, n, v), "escribe", d, n, Escrito(v, n), 0)
  <2>1. n \in Nat /\ 0 < n /\ n < Modulo /\ Desplazamiento(d) + n < Modulo
    BY TamaniosValidos, DireccionesValidas, Palabra
  <2>2. Dentro(p, Dir(d), n)
    BY <1>3, <2>1, TraduceDentro
  <2> QED  BY <1>1, <1>3, <2>1, <2>2, EmpiezaEscritura
<1> QED  BY <1>2, <1>3 DEF mov_out

\* A STDIN starts an access of Kernel Memory of the right type.
LEMMA AtenderStdinOK ==
  ASSUME AgentesOK, NEW p \in Procesos, NEW d \in Direcciones,
         NEW n \in TamPedido, NEW v \in Valores, atender_stdin(p, d, n, v)
  PROVE  AgentesOK'
<1>1. /\ KM \in Agentes /\ acceso[KM].pc = "libre" /\ (\A b \in Agentes : acceso[b].pid # p)
      /\ UNCHANGED pedido /\ 2 * n < Modulo
  BY DEF Agentes, atender_stdin, Puede
<1>2. CASE UNCHANGED acceso
  BY <1>1, <1>2, AgentesIguales
<1>3. CASE /\ n > 0 /\ traducir_direccion(p, d, n) = "OK"
           /\ Comienza(KM, p, Escritura(d, n, v), "escribe", d, n, Escrito(v, n), 0)
  <2>1. n \in Nat /\ 0 < n /\ n < Modulo /\ Desplazamiento(d) + n < Modulo
    BY <1>1, <1>3, TamaniosValidos, DireccionesValidas, Palabra
  <2>2. Dentro(p, Dir(d), n)
    BY <1>3, <2>1, TraduceDentro DEF traducir_direccion
  <2> QED  BY <1>1, <1>3, <2>1, <2>2, EmpiezaEscritura
<1> QED  BY <1>2, <1>3 DEF atender_stdin

\* COPY_MEM starts an access of the right type.
LEMMA CopyMemOK ==
  ASSUME AgentesOK, NEW c \in CPUs, NEW p \in Procesos, NEW o \in Direcciones,
         NEW d \in Direcciones, NEW n \in TamPedido, copy_mem(c, p, o, d, n)
  PROVE  AgentesOK'
<1>1. c \in Agentes /\ acceso[c].pc = "libre" /\ (\A b \in Agentes : acceso[b].pid # p) /\ UNCHANGED pedido
  BY DEF Agentes, copy_mem, Puede
<1>2. CASE \E t : NoTraduce(c, p, t)
  BY <1>1, <1>2, NoTraduceOK
<1>3. CASE Termina(c)
  BY <1>1, <1>3, Suelta DEF Termina
<1>4. CASE /\ n > 0
           /\ memory_management_unit(p, o, n) = "OK" /\ memory_management_unit(p, d, n) = "OK"
           /\ Comienza(c, p, Copia(o, d, n), "lee", o, n, Vacio(n), DireccionFisica(p, d))
  <2>1. n \in Nat /\ 0 < n /\ n < Modulo
    BY <1>4, TamaniosValidos
  <2>2. n <= MemoriaTotal => Dentro(p, Dir(o), n) /\ Dentro(p, Dir(d), n)
    BY <1>4, <2>1, TraduceDentro, DireccionesValidas, Palabra, TiposSticks
  <2>3. /\ DireccionFisica(p, d) \in Nat
        /\ DireccionFisica(p, d) = Fisica(p, Copia(o, d, n).hacia)
    BY <2>1, CopiaTipo, FisicaDireccion
  <2>4. /\ Copia(o, d, n) \in Instrucciones /\ Copia(o, d, n).n = n /\ Copia(o, d, n).dir = Dir(o)
        /\ Copia(o, d, n) = Plana!Copia(Copia(o, d, n).dir, Copia(o, d, n).hacia, n)
        /\ n <= MemoriaTotal => Dentro(p, Copia(o, d, n).dir, n) /\ Dentro(p, Copia(o, d, n).hacia, n)
    BY <2>1, <2>2, CopiaTipo
  <2>5. Vacio(n) \in [0..(n - 1) -> Bytes]
    BY <2>1, BufferVacioDe
  <2> QED  BY <1>1, <1>4, <2>1, <2>3, <2>4, <2>5, Empieza
<1> QED  BY <1>2, <1>3, <1>4 DEF copy_mem

\* The types of the access of an agent and of what it asked for.
LEMMA TiposDelAgente ==
  ASSUME AgentesOK, NEW a \in Agentes
  PROVE  /\ acceso[a] \in Accesos /\ pedido[a] \in Pedidos
         /\ acceso[a].n \in Nat /\ acceso[a].hecho \in Nat /\ acceso[a].inicio \in Nat
         /\ acceso[a].buf \in [0..(acceso[a].n - 1) -> Bytes]
         /\ acceso[a].fase \in {"lee", "escribe"}
         /\ pedido[a].cant \in Nat /\ pedido[a].dir \in Nat /\ pedido[a].stick \in Sticks
         /\ pedido[a].orden \in {"lee", "escribe"} /\ pedido[a].datos \in Buffers
         /\ AccesoOK(acceso[a]) /\ PedidoOK(a, acceso[a], pedido[a])
         /\ acceso[a].pc \in {"pide", "espera"} => EnCurso(acceso[a])
<1>1. acceso[a] \in Accesos /\ pedido[a] \in Pedidos
  BY DEF AgentesOK
<1>2. AccesoOK(acceso[a]) /\ PedidoOK(a, acceso[a], pedido[a])
  BY DEF AgentesOK
<1>3. \A k \in 0..(Modulo - 1) : k \in Nat
  BY Palabra
<1> QED  BY <1>1, <1>2, <1>3 DEF Accesos, Pedidos, AccesoOK, Activo

\* A piece of a buffer is a buffer.
LEMMA TipoSubTramo ==
  ASSUME NEW n \in Nat, NEW f \in [0..(n - 1) -> Bytes], NEW desde \in Nat, NEW cant \in Nat,
         desde + cant <= n
  PROVE  SubTramo(f, desde, cant) \in [0..(cant - 1) -> Bytes]
<1>1. \A i \in 0..(cant - 1) : desde + i \in 0..(n - 1)
  OBVIOUS
<1> QED  BY <1>1 DEF SubTramo

\* The piece an agent asks for: it is in the stick at hand and in what is left.
LEMMA Pieza ==
  ASSUME NEW g \in 0..(MemoriaTotal - 1), NEW resta \in Nat, resta > 0,
         NEW s, s = stick_de_direccion[g]
  PROVE  /\ s \in Sticks /\ g - BaseStick[s] \in Nat
         /\ Menor(resta, TamStick[s] - (g - BaseStick[s])) \in Nat
         /\ Menor(resta, TamStick[s] - (g - BaseStick[s])) > 0
         /\ Menor(resta, TamStick[s] - (g - BaseStick[s])) <= resta
         /\ (g - BaseStick[s]) + Menor(resta, TamStick[s] - (g - BaseStick[s])) <= TamStick[s]
<1>1. s \in Sticks /\ Contiene(s, g)
  BY StickDeDireccion
<1> QED  BY <1>1, TiposSticks DEF Contiene, Menor

\* The request of the next piece fits what is left of the access.
LEMMA EnviarTramoOK ==
  ASSUME AgentesOK, NEW a \in Agentes, enviarTramo(a)
  PROVE  AgentesOK'
<1> DEFINE x == acceso[a]
           g == Cursor(a)
           s == stick_de_direccion[g]
           dir == g - BaseStick[s]
           cant == Menor(x.n - x.hecho, TamStick[s] - dir)
           datos == IF x.fase = "lee" THEN <<>> ELSE SubTramo(x.buf, x.hecho, cant)
           y == [x EXCEPT !.pc = "espera"]
           r == [estado |-> "enviado", stick |-> obtener_fd_ms(a, s), orden |-> x.fase,
                 dir |-> dir, cant |-> cant, datos |-> datos]
<1>1. /\ x.pc = "pide" /\ g \in DOMAIN stick_de_direccion
      /\ acceso' = [acceso EXCEPT ![a] = y] /\ pedido' = [pedido EXCEPT ![a] = r]
  BY DEF enviarTramo, Pasa
<1>2. g \in 0..(MemoriaTotal - 1)
  BY <1>1, StickDeDireccion
<1>3. EnCurso(x) /\ x \in Accesos /\ AccesoOK(x) /\ g = x.inicio + x.hecho
  BY <1>1, TiposDelAgente DEF Cursor
<1>4. x.n \in Nat /\ x.hecho \in Nat /\ x.buf \in [0..(x.n - 1) -> Bytes]
  BY TiposDelAgente
<1>5. x.n - x.hecho \in Nat /\ x.n - x.hecho > 0
  BY <1>3, <1>4 DEF EnCurso
<1>6. /\ s \in Sticks /\ dir \in Nat /\ cant \in Nat /\ cant > 0 /\ cant <= x.n - x.hecho
      /\ dir + cant <= TamStick[s]
  BY <1>2, <1>5, Pieza
<1>7. x.hecho + cant <= x.n
  BY <1>4, <1>6
<1>8. datos \in Buffers
  <2>1. SubTramo(x.buf, x.hecho, cant) \in [0..(cant - 1) -> Bytes]
    BY <1>4, <1>6, <1>7, TipoSubTramo
  <2>2. <<>> \in Buffers
    BY BufferVacio, EsBuffer
  <2> QED  BY <1>6, <2>1, <2>2, EsBuffer
<1>9. r \in Pedidos
  <2>1. obtener_fd_ms(a, s) \in Sticks
    BY <1>6, Nombres DEF obtener_fd_ms
  <2>2. x.fase \in {"lee", "escribe"}
    BY TiposDelAgente
  <2> HIDE DEF dir, cant, datos, s
  <2> QED  BY <1>6, <1>8, <2>1, <2>2 DEF Pedidos
<1>10. y \in Accesos /\ AccesoOK(y)
  BY <1>3 DEF Accesos, AccesoOK, Activo, EnCurso
<1>11. PedidoOK(a, y, r)
  <2>1. y.pc = "espera" /\ y.inicio = x.inicio /\ y.hecho = x.hecho /\ y.n = x.n /\ y.buf = x.buf /\ y.fase = x.fase
    BY <1>3 DEF Accesos
  <2>2. r.orden = "escribe" => r.datos = SubTramo(x.buf, x.hecho, cant)
    OBVIOUS
  <2> HIDE DEF dir, cant, datos, y
  <2> QED  BY <1>2, <1>3, <1>6, <1>7, <2>1, <2>2 DEF PedidoOK, dir
<1>12. \A b \in Agentes \ {a} : acceso[b].pid # y.pid \/ y.pid = Nadie
  BY <1>3 DEF Accesos, AgentesOK, EnCurso
<1> HIDE DEF y, r
<1> QED  BY <1>1, <1>9, <1>10, <1>11, <1>12, AgenteCambia

\* An agent with no stick for its address gives the access up.
LEMMA SinStickOK ==
  ASSUME AgentesOK, NEW a \in Agentes, sinStick(a)
  PROVE  AgentesOK'
<1>1. acceso[a].pc # "espera" /\ UNCHANGED pedido
  BY DEF sinStick
<1>2. Pasa(a, Libre) \/ Pasa(a, [Libre EXCEPT !.pc = "fin"])
  BY DEF sinStick, Termina
<1> QED  BY <1>1, <1>2, Suelta

\* An agent changes what it asks for and not its access.
LEMMA PedidoCambia ==
  ASSUME AgentesOK, NEW a \in Agentes, NEW r \in Pedidos, PedidoOK(a, acceso[a], r),
         UNCHANGED acceso, pedido' = [pedido EXCEPT ![a] = r]
  PROVE  AgentesOK'
<1>1. acceso' = [acceso EXCEPT ![a] = acceso[a]] /\ acceso[a] \in Accesos /\ AccesoOK(acceso[a])
  BY DEF AgentesOK
<1>2. \A b \in Agentes \ {a} : acceso[b].pid # acceso[a].pid \/ acceso[a].pid = Nadie
  BY <1>1 DEF AgentesOK, Accesos
<1> QED  BY <1>1, <1>2, AgenteCambia

\* A request that was sent is of an agent that waits.
LEMMA EnviadoEspera ==
  ASSUME AgentesOK, NEW a \in Agentes, pedido[a].estado # "nada"
  PROVE  acceso[a].pc = "espera" /\ EnCurso(acceso[a])
BY TiposDelAgente DEF PedidoOK

\* A stick serves a piece: as many bytes as were asked for, or written inside it.
LEMMA AtenderPedidoOK ==
  ASSUME AgentesOK, MemoriaOK, NEW a \in Agentes, atenderPedido(a)
  PROVE  AgentesOK' /\ MemoriaOK'
<1> DEFINE r == pedido[a]
           x == acceso[a]
<1>1. r.estado = "enviado" /\ UNCHANGED acceso
  BY DEF atenderPedido
<1>2. x.pc = "espera" /\ PedidoOK(a, x, r) /\ r \in Pedidos /\ r.cant \in Nat /\ r.dir \in Nat /\ r.stick \in Sticks
  BY <1>1, EnviadoEspera, TiposDelAgente
<1>3. CASE /\ r.dir + r.cant > TamStick[r.stick]
           /\ pedido' = [pedido EXCEPT ![a].estado = "perdido"] /\ UNCHANGED mem
  <2> DEFINE q == [r EXCEPT !.estado = "perdido"]
  <2>1. pedido' = [pedido EXCEPT ![a] = q] /\ q \in Pedidos
    BY <1>2, <1>3 DEF Pedidos
  <2>2. PedidoOK(a, x, q)
    BY <1>2 DEF PedidoOK, Pedidos
  <2> HIDE DEF q
  <2> QED  BY <1>1, <1>3, <2>1, <2>2, PedidoCambia DEF MemoriaOK
<1>4. CASE /\ r.dir + r.cant <= TamStick[r.stick] /\ r.orden = "escribe"
           /\ mem' = [mem EXCEPT ![r.stick] = [i \in DOMAIN @ |->
                IF r.dir <= i /\ i < r.dir + r.cant THEN r.datos[i - r.dir] ELSE @[i]]]
           /\ pedido' = [pedido EXCEPT ![a].estado = "respondido"]
  <2> DEFINE q == [r EXCEPT !.estado = "respondido"]
  <2>1. pedido' = [pedido EXCEPT ![a] = q] /\ q \in Pedidos
    BY <1>2, <1>4 DEF Pedidos
  <2>2. r.datos \in [0..(r.cant - 1) -> Bytes]
    <3>1. r.datos = SubTramo(x.buf, x.hecho, r.cant) /\ x.hecho + r.cant <= x.n
      BY <1>2, <1>4 DEF PedidoOK
    <3>2. x.n \in Nat /\ x.hecho \in Nat /\ x.buf \in [0..(x.n - 1) -> Bytes]
      BY TiposDelAgente
    <3>3. SubTramo(x.buf, x.hecho, r.cant) \in [0..(r.cant - 1) -> Bytes]
      BY <1>2, <3>1, <3>2, TipoSubTramo
    <3> QED  BY <3>1, <3>3
  <2>3. PedidoOK(a, x, q)
    BY <1>2, <2>2 DEF PedidoOK, Pedidos
  <2>4. AgentesOK'
    <3> HIDE DEF q
    <3> QED  BY <1>1, <2>1, <2>3, PedidoCambia
  <2>5. mem[r.stick] \in [0..(TamStick[r.stick] - 1) -> Bytes]
    BY <1>2 DEF MemoriaOK
  <2>6. [i \in DOMAIN mem[r.stick] |->
           IF r.dir <= i /\ i < r.dir + r.cant THEN r.datos[i - r.dir] ELSE mem[r.stick][i]]
          \in [0..(TamStick[r.stick] - 1) -> Bytes]
    <3>1. \A i \in 0..(TamStick[r.stick] - 1) :
            r.dir <= i /\ i < r.dir + r.cant => r.datos[i - r.dir] \in Bytes
      <4>1. \A i \in 0..(TamStick[r.stick] - 1) :
              r.dir <= i /\ i < r.dir + r.cant => i - r.dir \in 0..(r.cant - 1)
        BY <1>2
      <4> QED  BY <2>2, <4>1
    <3> QED  BY <2>5, <3>1
  <2>7. MemoriaOK'
    BY <1>4, <2>6 DEF MemoriaOK
  <2> QED  BY <2>4, <2>7
<1>5. CASE /\ r.dir + r.cant <= TamStick[r.stick] /\ r.orden = "lee"
           /\ pedido' = [pedido EXCEPT ![a].estado = "respondido",
                                       ![a].datos = SubTramo(mem[r.stick], r.dir, r.cant)]
           /\ UNCHANGED mem
  <2> DEFINE q == [r EXCEPT !.estado = "respondido", !.datos = SubTramo(mem[r.stick], r.dir, r.cant)]
  <2>1. SubTramo(mem[r.stick], r.dir, r.cant) \in [0..(r.cant - 1) -> Bytes]
    BY <1>2, <1>5, TipoSubTramo, TiposSticks DEF MemoriaOK
  <2>2. q \in Pedidos
    BY <1>2, <2>1, EsBuffer DEF Pedidos
  <2>3. pedido' = [pedido EXCEPT ![a] = q]
    BY <1>5 DEF AgentesOK
  <2>4. PedidoOK(a, x, q)
    BY <1>2, <1>5, <2>1 DEF PedidoOK, Pedidos
  <2> HIDE DEF q
  <2> QED  BY <1>1, <1>5, <2>2, <2>3, <2>4, PedidoCambia DEF MemoriaOK
<1> QED  BY <1>1, <1>3, <1>4, <1>5 DEF atenderPedido

\* A stick lies inside the memory.
LEMMA FinDeStick ==
  ASSUME NEW s \in Sticks
  PROVE  BaseStick[s] + TamStick[s] <= MemoriaTotal
<1>1. s = CantidadSticks \/ s < CantidadSticks
  BY TiposSticks DEF Sticks
<1>2. CASE s < CantidadSticks
  BY <1>2, SticksEnOrden, TiposSticks DEF MemoriaTotal
<1> QED  BY <1>1, <1>2, TiposSticks DEF MemoriaTotal

\* The pieces of the answer an agent receives.
LEMMA Recibido ==
  ASSUME AgentesOK, NEW a \in Agentes, acceso[a].pc = "espera", pedido[a].estado = "respondido"
  PROVE  /\ pedido[a].datos \in [0..(pedido[a].cant - 1) -> Bytes]
         /\ pedido[a].cant > 0 /\ acceso[a].hecho + pedido[a].cant <= acceso[a].n
         /\ acceso[a].inicio + acceso[a].hecho + pedido[a].cant <= MemoriaTotal
<1> DEFINE x == acceso[a]
           r == pedido[a]
           g == x.inicio + x.hecho
           s == stick_de_direccion[g]
<1>1. /\ g \in 0..(MemoriaTotal - 1) /\ r.dir = g - BaseStick[s]
      /\ r.cant > 0 /\ x.hecho + r.cant <= x.n /\ r.dir + r.cant <= TamStick[s]
      /\ r.datos \in [0..(r.cant - 1) -> Bytes]
  BY TiposDelAgente DEF PedidoOK
<1>2. s \in Sticks
  BY <1>1, StickDeDireccion
<1>3. x.inicio \in Nat /\ x.hecho \in Nat /\ r.cant \in Nat
  BY TiposDelAgente
<1>4. g + r.cant <= MemoriaTotal
  <2>1. BaseStick[s] \in Nat /\ TamStick[s] \in Nat /\ BaseStick[s] + TamStick[s] <= MemoriaTotal
    BY <1>2, FinDeStick, TiposSticks
  <2>2. g \in Nat
    BY <1>3
  <2>3. r.dir = g - BaseStick[s] /\ r.dir + r.cant <= TamStick[s]
    BY <1>1
  <2> HIDE DEF g, s, r
  <2> QED  BY <1>3, <2>1, <2>2, <2>3, TiposSticks
<1> QED  BY <1>1, <1>3, <1>4

\* The answer of a piece advances the access by that piece.
LEMMA RecibirTramoOK ==
  ASSUME AgentesOK, NEW a \in Agentes, recibirTramo(a)
  PROVE  AgentesOK'
<1> DEFINE x == acceso[a]
           r == pedido[a]
           hecho == x.hecho + r.cant
           buf == IF x.fase = "escribe" THEN x.buf
                  ELSE [i \in DOMAIN x.buf |-> IF x.hecho <= i /\ i < hecho THEN r.datos[i - x.hecho] ELSE x.buf[i]]
<1>1. x.pc = "espera" /\ r.estado = "respondido" /\ pedido' = [pedido EXCEPT ![a] = SinPedido]
  BY DEF recibirTramo
<1>2. /\ x \in Accesos /\ EnCurso(x) /\ x.n \in Nat /\ x.hecho \in Nat /\ r.cant \in Nat
      /\ x.buf \in [0..(x.n - 1) -> Bytes] /\ x.inicio \in Nat /\ x.fase \in {"lee", "escribe"}
  BY <1>1, TiposDelAgente
<1>3. /\ r.datos \in [0..(r.cant - 1) -> Bytes] /\ r.cant > 0 /\ hecho <= x.n
      /\ x.inicio + hecho <= MemoriaTotal
  BY <1>1, <1>2, Recibido
<1>4. buf \in [0..(x.n - 1) -> Bytes] /\ hecho \in Nat
  <2> HIDE DEF x, r
  <2>1. \A i \in 0..(x.n - 1) : x.hecho <= i /\ i < hecho => i - x.hecho \in 0..(r.cant - 1)
    BY <1>2
  <2>2. [i \in DOMAIN x.buf |-> IF x.hecho <= i /\ i < hecho THEN r.datos[i - x.hecho] ELSE x.buf[i]]
          \in [0..(x.n - 1) -> Bytes]
    BY <1>2, <1>3, <2>1
  <2> QED  BY <1>2, <2>2
<1>5. buf \in Buffers
  BY <1>2, <1>4, EsBuffer
<1>6. \A b \in Agentes \ {a} : acceso[b].pid # x.pid
  BY <1>2 DEF AgentesOK, EnCurso
<1>7. SinPedido \in Pedidos /\ \A y \in Accesos : y.pc = "pide" => PedidoOK(a, y, SinPedido)
  BY TiposLibre DEF PedidoOK, SinPedido
<1>8. CASE hecho < x.n /\ Pasa(a, [x EXCEPT !.pc = "pide", !.hecho = hecho, !.buf = buf])
  <2> DEFINE y == [x EXCEPT !.pc = "pide", !.hecho = hecho, !.buf = buf]
  <2> HIDE DEF hecho, buf
  <2>1. y \in Accesos /\ y.pc = "pide" /\ y.pid = x.pid
    BY <1>2, <1>4, <1>5 DEF Accesos
  <2>2. x.fase = "escribe" => y.buf = x.buf
    BY <1>2 DEF Accesos, buf
  <2>3. /\ y.instr = x.instr /\ y.n = x.n /\ y.hecho = hecho /\ y.inicio = x.inicio
        /\ y.fase = x.fase /\ y.destino = x.destino /\ y.buf = buf
    BY <1>2 DEF Accesos
  <2> HIDE DEF y
  <2>4. EnCurso(y)
    BY <1>2, <1>4, <1>8, <2>1, <2>2, <2>3 DEF EnCurso
  <2>5. AccesoOK(y)
    BY <1>4, <2>1, <2>3, <2>4 DEF AccesoOK, Activo
  <2>6. acceso' = [acceso EXCEPT ![a] = y]
    BY <1>8 DEF Pasa, y
  <2> QED  BY <1>1, <1>6, <1>7, <2>1, <2>5, <2>6, AgenteCambia
<1>9. CASE /\ hecho = x.n /\ x.fase = "lee" /\ x.instr.op = "copia"
           /\ Pasa(a, [x EXCEPT !.pc = "pide", !.fase = "escribe", !.inicio = x.destino, !.hecho = 0, !.buf = buf])
  <2> DEFINE y == [x EXCEPT !.pc = "pide", !.fase = "escribe", !.inicio = x.destino, !.hecho = 0, !.buf = buf]
  <2>1. y \in Accesos /\ y.pc = "pide" /\ y.pid = x.pid
    BY <1>2, <1>4, <1>5 DEF Accesos
  <2>2. /\ y.instr = x.instr /\ y.n = x.n /\ y.hecho = 0 /\ y.inicio = x.destino
        /\ y.fase = "escribe" /\ y.destino = x.destino /\ y.buf = buf
    BY <1>2 DEF Accesos
  <2>3. /\ x.instr = Plana!Copia(x.instr.dir, x.instr.hacia, x.n)
        /\ x.destino = Fisica(x.pid, x.instr.hacia)
    BY <1>2, <1>9 DEF EnCurso, Plana!Lectura, Plana!Escritura
  <2>4. x.n <= MemoriaTotal
    BY <1>2, <1>3, <1>9, TiposSticks
  <2> HIDE DEF hecho, buf, y
  <2>5. EnCurso(y)
    BY <1>2, <2>1, <2>2, <2>3, <2>4 DEF EnCurso
  <2>6. AccesoOK(y)
    BY <1>4, <2>1, <2>2, <2>5 DEF AccesoOK, Activo
  <2>7. acceso' = [acceso EXCEPT ![a] = y]
    BY <1>9 DEF Pasa, y
  <2> QED  BY <1>1, <1>6, <1>7, <2>1, <2>6, <2>7, AgenteCambia
<1>10. CASE Pasa(a, Libre)
  BY <1>1, <1>10, Suelta
<1>11. \/ hecho < x.n /\ Pasa(a, [x EXCEPT !.pc = "pide", !.hecho = hecho, !.buf = buf])
       \/ /\ hecho = x.n /\ x.fase = "lee" /\ x.instr.op = "copia"
          /\ Pasa(a, [x EXCEPT !.pc = "pide", !.fase = "escribe", !.inicio = x.destino, !.hecho = 0, !.buf = buf])
       \/ Pasa(a, Libre)
  BY Zenon DEF recibirTramo
<1> HIDE DEF x, r, hecho, buf
<1> QED  BY <1>8, <1>9, <1>10, <1>11

\* The results, when at most one process gets one or dies.
LEMMA ResultadosCambian ==
  ASSUME ResultadosOK, NEW p \in Procesos, NEW instr \in Instrucciones,
         UNCHANGED leido \/ \E f : leido' = [leido EXCEPT ![p] = f],
         UNCHANGED ultimo \/ Cumplido(p, instr),
         muertos' \subseteq muertos \cup {p},
         UNCHANGED accesos \/ (accesos < MaxAccesos /\ accesos' = accesos + 1)
  PROVE  ResultadosOK'
<1>1. DOMAIN leido' = Procesos
  BY DEF ResultadosOK
<1>2. ultimo' \in [Procesos -> [numero : Nat, instr : Instrucciones \cup {Nadie}]]
  BY DEF ResultadosOK, Cumplido
<1>3. accesos' \in 0..MaxAccesos
  BY Nombres DEF ResultadosOK
<1> QED  BY <1>1, <1>2, <1>3 DEF ResultadosOK

\* ResultadosOK speaks of what was read and written, and of the counters.
LEMMA ResultadosIguales ==
  ASSUME ResultadosOK, UNCHANGED <<leido, ultimo, muertos, accesos>>
  PROVE  ResultadosOK'
BY DEF ResultadosOK

\* No access is in course at the start.
LEMMA IInvInicial == Init => IInv
<1> SUFFICES ASSUME Init PROVE IInv
  OBVIOUS
<1>1. \A a \in Agentes : acceso[a] = Libre /\ pedido[a] = SinPedido
  BY DEF Init
<1>2. acceso \in [Agentes -> Accesos] /\ pedido \in [Agentes -> Pedidos]
  BY TiposLibre DEF Init
<1>3. \A a \in Agentes : PedidoOK(a, Libre, SinPedido)
  BY DEF PedidoOK, Libre, SinPedido
<1>4. Libre.pid \notin Procesos
  BY Nombres DEF Libre
<1>5. AgentesOK
  BY <1>1, <1>2, <1>3, <1>4, TiposLibre DEF AgentesOK
<1>6. MemoriaOK
  BY Nombres DEF Init, MemoriaOK
<1>7. ResultadosOK
  BY Nombres DEF Init, ResultadosOK
<1> QED  BY <1>5, <1>6, <1>7 DEF IInv

\* A memory instruction of a CPU keeps the invariant.
LEMMA InstruccionIInv ==
  ASSUME IInv, NEW c \in CPUs, Instruccion(c)
  PROVE  IInv'
<1> USE DEF IInv
<1>1. PICK p \in Procesos, d \in Direcciones :
        \/ \E n \in TamRegistro : mov_in(c, p, d, n) \/ \E v \in Valores : mov_out(c, p, d, n, v)
        \/ \E o \in Direcciones, n \in TamPedido : copy_mem(c, p, o, d, n)
  BY DEF Instruccion
<1>2. AgentesOK'
  BY <1>1, MovInOK, MovOutOK, CopyMemOK
<1>3. /\ UNCHANGED <<mem, leido, ultimo>>
      /\ accesos < MaxAccesos /\ accesos' = accesos + 1
  BY <1>1 DEF mov_in, mov_out, copy_mem, Puede
<1>4. muertos' \subseteq muertos \cup {p}
  BY <1>1 DEF mov_in, mov_out, copy_mem, NoTraduce
<1>5. MemoriaOK'
  BY <1>3 DEF MemoriaOK
<1>6. Lectura(d, 0) \in Instrucciones
  BY LecturaTipo
<1>7. ResultadosOK'
  BY <1>3, <1>4, <1>6, ResultadosCambian
<1> QED  BY <1>2, <1>5, <1>7

\* A STDIN or a STDOUT keeps the invariant.
LEMMA IOIInv ==
  ASSUME IInv, IOdeProceso
  PROVE  IInv'
<1> USE DEF IInv
<1>1. PICK p \in Procesos, d \in Direcciones, n \in TamPedido :
        atender_stdout(p, d, n) \/ \E v \in Valores : atender_stdin(p, d, n, v)
  BY DEF IOdeProceso
<1>2. AgentesOK'
  BY <1>1, AtenderStdinOK, AtenderStdoutOK
<1>3. /\ UNCHANGED mem /\ accesos < MaxAccesos /\ accesos' = accesos + 1
      /\ UNCHANGED leido \/ \E f : leido' = [leido EXCEPT ![p] = f]
      /\ UNCHANGED ultimo \/ Cumplido(p, Lectura(d, n))
  BY <1>1 DEF atender_stdin, atender_stdout, Puede
<1>4. muertos' \subseteq muertos \cup {p}
  BY <1>1 DEF atender_stdin, atender_stdout, RespondeFalla
<1>5. MemoriaOK'
  BY <1>3 DEF MemoriaOK
<1>6. Lectura(d, n) \in Instrucciones
  BY LecturaTipo, TamaniosValidos
<1>7. ResultadosOK'
  BY <1>3, <1>4, <1>6, ResultadosCambian
<1> QED  BY <1>2, <1>5, <1>7

\* A step of an access in course keeps the invariant.
LEMMA AccesoIInv ==
  ASSUME IInv, NEW a \in Agentes, Acceso(a)
  PROVE  IInv'
<1> USE DEF IInv
<1>1. AgentesOK'
  BY EnviarTramoOK, SinStickOK, RecibirTramoOK DEF Acceso
<1>2. UNCHANGED mem
  BY DEF Acceso, enviarTramo, sinStick, recibirTramo
<1>3. ASSUME UNCHANGED <<leido, ultimo, muertos, accesos>> PROVE ResultadosOK'
  BY <1>3, ResultadosIguales
<1>4. ASSUME recibirTramo(a) PROVE ResultadosOK'
  <2> DEFINE x == acceso[a]
  <2>1. x.pid \in Procesos /\ x.instr \in Instrucciones
    BY <1>4, TiposDelAgente DEF recibirTramo, EnCurso
  <2>2. /\ UNCHANGED leido \/ \E f : leido' = [leido EXCEPT ![x.pid] = f]
        /\ UNCHANGED ultimo \/ Cumplido(x.pid, x.instr)
        /\ UNCHANGED accesos /\ muertos' \subseteq muertos \cup {x.pid}
    BY <1>4 DEF recibirTramo
  <2> HIDE DEF x
  <2> QED  BY <2>1, <2>2, ResultadosCambian
<1>5. ResultadosOK'
  BY <1>3, <1>4 DEF Acceso, enviarTramo, sinStick
<1> QED  BY <1>1, <1>2, <1>5 DEF MemoriaOK

\* Every step keeps the invariant.
LEMMA PasoIInv == IInv /\ [Next]_vars => IInv'
<1> SUFFICES ASSUME IInv, [Next]_vars PROVE IInv'
  OBVIOUS
<1>1. CASE \E c \in CPUs : Instruccion(c)
  BY <1>1, InstruccionIInv
<1>2. CASE IOdeProceso
  BY <1>2, IOIInv
<1>3. CASE \E a \in Agentes : Acceso(a)
  BY <1>3, AccesoIInv
<1>4. ASSUME NEW a \in Agentes, atenderPedido(a) PROVE IInv'
  BY <1>4, AtenderPedidoOK, ResultadosIguales DEF IInv, atenderPedido
<1>5. CASE UNCHANGED vars
  BY <1>5, AgentesIguales, ResultadosIguales DEF IInv, MemoriaOK, vars
<1> QED  BY <1>1, <1>2, <1>3, <1>4, <1>5 DEF Next

\* The invariant holds always, whatever agents and sticks do and in any order.
THEOREM AccesosCoherentes == Spec => []IInv
BY IInvInicial, PasoIInv, PTL DEF Spec

\* Every variable of AccesoMemoria keeps its type: a buffer has a byte for each one asked
\* for, and none is read or written past its end.
THEOREM TiposDeAccesos == Spec => []TypeOK
<1>1. ASSUME IInv PROVE TypeOK
  <2>1. ASSUME NEW a \in Agentes
        PROVE  /\ acceso[a].pc \in {"libre", "pide", "espera", "fin"}
               /\ acceso[a].pid \in Procesos \cup {Nadie}
               /\ acceso[a].fase \in {"lee", "escribe"} /\ acceso[a].n \in 0..(Modulo - 1)
               /\ pedido[a].estado \in {"nada", "enviado", "respondido", "perdido"}
               /\ pedido[a].stick \in Sticks
    BY <1>1, TiposDelAgente DEF IInv, Accesos, Pedidos
  <2>2. ASSUME NEW a \in Agentes
        PROVE  /\ acceso[a].hecho \in 0..acceso[a].n /\ pedido[a].cant \in 0..acceso[a].n
               /\ acceso[a].buf \in [0..(acceso[a].n - 1) -> Bytes]
    BY <1>1, <2>1, TiposDelAgente DEF IInv, AccesoOK, PedidoOK, EnCurso, Activo
  <2> QED  BY <1>1, <2>1, <2>2 DEF IInv, MemoriaOK, ResultadosOK, TypeOK
<1> QED  BY <1>1, AccesosCoherentes, PTL

-----------------------------------------------------------------------------
(* The memory of the programs: who writes a byte of a segment, and what is  *)
(* seen in it.                                                              *)

\* A byte of a segment.
EsByte(p, id, g) == g \in Nat /\ Base[p][id] <= g /\ g < Base[p][id] + Largo[p][id]

\* Where an access of n bytes that has its place ends: in its segment.
LEMMA AccesoDentro ==
  ASSUME NEW x \in Accesos, EnCurso(x), x.n <= MemoriaTotal, NEW i \in 0..(x.n - 1)
  PROVE  /\ x.fase = "lee" => x.instr.dir[1] \in Ids /\ EsByte(x.pid, x.instr.dir[1], x.inicio + i)
         /\ x.fase = "escribe" => x.instr.hacia[1] \in Ids /\ EsByte(x.pid, x.instr.hacia[1], x.inicio + i)
         /\ x.inicio + i \in 0..(MemoriaTotal - 1)
<1>1. /\ x.pid \in Procesos /\ x.instr.dir \in Ids \X Nat /\ x.instr.hacia \in Ids \X Nat
      /\ x.inicio \in Nat /\ x.n \in Nat /\ x.fase \in {"lee", "escribe"}
  BY Palabra DEF EnCurso, Accesos, Instrucciones
<1>2. /\ x.fase = "lee" => x.inicio = Fisica(x.pid, x.instr.dir) /\ Dentro(x.pid, x.instr.dir, x.n)
      /\ x.fase = "escribe" => x.inicio = Fisica(x.pid, x.instr.hacia) /\ Dentro(x.pid, x.instr.hacia, x.n)
  BY DEF EnCurso
<1>3. ASSUME NEW dir \in Ids \X Nat, x.inicio = Fisica(x.pid, dir), Dentro(x.pid, dir, x.n)
      PROVE  dir[1] \in Ids /\ EsByte(x.pid, dir[1], x.inicio + i) /\ x.inicio + i \in 0..(MemoriaTotal - 1)
  <2>1. dir[1] \in Ids /\ dir[2] \in Nat
    OBVIOUS
  <2>2. /\ Base[x.pid][dir[1]] \in Nat /\ Largo[x.pid][dir[1]] \in Nat
        /\ Base[x.pid][dir[1]] + Largo[x.pid][dir[1]] <= MemoriaTotal
    BY <1>1, <2>1, Segmentos
  <2>3. x.inicio = Base[x.pid][dir[1]] + dir[2] /\ dir[2] + x.n <= Largo[x.pid][dir[1]]
    BY <1>3 DEF Fisica, Dentro
  <2>4. i \in Nat /\ i < x.n
    BY <1>1
  <2>5. EsByte(x.pid, dir[1], x.inicio + i)
    BY <1>1, <2>1, <2>2, <2>3, <2>4 DEF EsByte
  <2>6. x.inicio + i \in 0..(MemoriaTotal - 1)
    BY <1>1, <2>1, <2>2, <2>3, <2>4, TiposSticks
  <2> QED  BY <2>1, <2>5, <2>6
<1> QED  BY <1>1, <1>2, <1>3

\* An agent writes in the segment of its instruction.
LEMMA EscribeDentro ==
  ASSUME AgentesOK, NEW a \in Agentes, NEW g \in Nat, Escribe(a, g)
  PROVE  /\ EnCurso(acceso[a]) /\ acceso[a].pid \in Procesos /\ acceso[a].instr.hacia[1] \in Ids
         /\ EsByte(acceso[a].pid, acceso[a].instr.hacia[1], g)
         /\ g - acceso[a].inicio \in 0..(acceso[a].n - 1) /\ g \in 0..(MemoriaTotal - 1)
<1> DEFINE x == acceso[a]
<1>1. /\ x \in Accesos /\ EnCurso(x) /\ x.fase = "escribe" /\ x.inicio \in Nat /\ x.hecho \in Nat /\ x.n \in Nat
      /\ x.inicio + x.hecho <= g /\ g < x.inicio + x.n
  BY TiposDelAgente DEF Escribe, Cursor
<1>2. x.pid \in Procesos /\ x.n <= MemoriaTotal
  BY <1>1 DEF EnCurso
<1>3. g - x.inicio \in 0..(x.n - 1) /\ g = x.inicio + (g - x.inicio)
  BY <1>1
<1> HIDE DEF x
<1>4. x.instr.hacia[1] \in Ids /\ EsByte(x.pid, x.instr.hacia[1], g) /\ g \in 0..(MemoriaTotal - 1)
  BY <1>1, <1>2, <1>3, AccesoDentro
<1> QED  BY <1>1, <1>2, <1>3, <1>4 DEF x

\* Who writes a byte of a segment serves the process of the segment, and nobody else
\* writes the byte.
UnEscritor ==
  \A p \in Procesos, id \in Ids, g \in Nat : EsByte(p, id, g) =>
    \A a \in Agentes : Escribe(a, g) =>
      /\ acceso[a].pid = p /\ acceso[a].instr.hacia[1] = id
      /\ \A b \in Agentes : Escribe(b, g) => b = a
\* One agent at most writes a byte of a segment: the one that serves its process.
LEMMA UnSoloEscritor == IInv => UnEscritor
<1> SUFFICES ASSUME IInv, NEW p \in Procesos, NEW id \in Ids, NEW g \in Nat, EsByte(p, id, g),
                    NEW a \in Agentes, Escribe(a, g)
             PROVE  /\ acceso[a].pid = p /\ acceso[a].instr.hacia[1] = id
                    /\ \A b \in Agentes : Escribe(b, g) => b = a
  BY DEF UnEscritor
<1>1. ASSUME NEW b \in Agentes, Escribe(b, g)
      PROVE  acceso[b].pid = p /\ acceso[b].instr.hacia[1] = id
  BY <1>1, EscribeDentro, SegmentosApartados DEF IInv, EsByte
<1> QED  BY <1>1 DEF IInv, AgentesOK

\* What is seen in a byte of a segment.
VistoEs ==
  \A p \in Procesos, id \in Ids, g \in Nat : EsByte(p, id, g) =>
    /\ \A a \in Agentes : Escribe(a, g) => Visto(g) = acceso[a].buf[g - acceso[a].inicio]
    /\ (\A a \in Agentes : ~Escribe(a, g)) => Visto(g) = Fisico(g)
\* What is seen of a byte is in the buffer of its writer, or in its stick.
LEMMA LoVisto == IInv => VistoEs
<1> SUFFICES ASSUME IInv, NEW p \in Procesos, NEW id \in Ids, NEW g \in Nat, EsByte(p, id, g)
             PROVE  /\ \A a \in Agentes : Escribe(a, g) => Visto(g) = acceso[a].buf[g - acceso[a].inicio]
                    /\ (\A a \in Agentes : ~Escribe(a, g)) => Visto(g) = Fisico(g)
  BY DEF VistoEs
<1>1. ASSUME NEW a \in Agentes, Escribe(a, g)
      PROVE  Visto(g) = acceso[a].buf[g - acceso[a].inicio]
  <2>1. \A b \in Agentes : Escribe(b, g) => b = a
    BY <1>1, UnSoloEscritor DEF UnEscritor
  <2>2. (CHOOSE b \in Agentes : Escribe(b, g)) = a
    BY <1>1, <2>1
  <2> QED  BY <1>1, <2>2 DEF Visto
<1>2. ASSUME \A a \in Agentes : ~Escribe(a, g) PROVE Visto(g) = Fisico(g)
  BY <1>2 DEF Visto
<1> QED  BY <1>1, <1>2

\* The last access of a process, and the one a writer counts as made.
UltimoEs ==
  \A p \in Procesos :
    /\ \A a \in Agentes : acceso[a].pid = p /\ acceso[a].fase = "escribe" =>
         Ultimo[p] = [numero |-> ultimo[p].numero + 1, instr |-> acceso[a].instr]
    /\ (\A a \in Agentes : ~(acceso[a].pid = p /\ acceso[a].fase = "escribe")) => Ultimo[p] = ultimo[p]
\* The last access of a process is the one in course that writes, or the recorded one.
LEMMA LoUltimo == IInv => UltimoEs
<1> SUFFICES ASSUME IInv, NEW p \in Procesos
             PROVE  /\ \A a \in Agentes : acceso[a].pid = p /\ acceso[a].fase = "escribe" =>
                         Ultimo[p] = [numero |-> ultimo[p].numero + 1, instr |-> acceso[a].instr]
                    /\ (\A a \in Agentes : ~(acceso[a].pid = p /\ acceso[a].fase = "escribe")) =>
                         Ultimo[p] = ultimo[p]
  BY DEF UltimoEs
<1>1. Ultimo[p] = IF Escritores(p) = {} THEN ultimo[p]
                  ELSE [numero |-> ultimo[p].numero + 1, instr |-> acceso[CHOOSE a \in Escritores(p) : TRUE].instr]
  BY DEF Ultimo
<1>2. ASSUME NEW a \in Agentes, acceso[a].pid = p, acceso[a].fase = "escribe"
      PROVE  Ultimo[p] = [numero |-> ultimo[p].numero + 1, instr |-> acceso[a].instr]
  <2>1. Escritores(p) = {a}
    BY <1>2 DEF Escritores, IInv, AgentesOK
  <2> QED  BY <1>1, <2>1
<1>3. ASSUME \A a \in Agentes : ~(acceso[a].pid = p /\ acceso[a].fase = "escribe")
      PROVE  Ultimo[p] = ultimo[p]
  <2>1. Escritores(p) = {}
    BY <1>3 DEF Escritores
  <2> QED  BY <1>1, <2>1
<1> QED  BY <1>2, <1>3

-----------------------------------------------------------------------------
(* What is read and written is what is asked for, when the stick of the     *)
(* configuration of the CPUs is the first one of the map.                   *)

\* With that configuration an agent speaks to the stick it means.
LEMMA SocketPropio ==
  ASSUME Configurado = 1, NEW a, NEW s
  PROVE  obtener_fd_ms(a, s) = s
BY DEF obtener_fd_ms

\* The bytes of a piece are in the stick it is asked to, one after the other.
LEMMA PiezaEnStick ==
  ASSUME NEW g \in 0..(MemoriaTotal - 1), NEW cant \in Nat,
         (g - BaseStick[stick_de_direccion[g]]) + cant <= TamStick[stick_de_direccion[g]],
         NEW h \in 0..(MemoriaTotal - 1)
  PROVE  g <= h /\ h < g + cant <=>
           /\ stick_de_direccion[h] = stick_de_direccion[g]
           /\ g - BaseStick[stick_de_direccion[g]] <= h - BaseStick[stick_de_direccion[g]]
           /\ h - BaseStick[stick_de_direccion[g]] < (g - BaseStick[stick_de_direccion[g]]) + cant
<1> DEFINE s == stick_de_direccion[g]
           t == stick_de_direccion[h]
<1>1. s \in Sticks /\ Contiene(s, g) /\ t \in Sticks /\ (Contiene(s, h) => s = t)
  BY StickDeDireccion
<1>2. BaseStick[s] \in Nat /\ TamStick[s] \in Nat /\ BaseStick[s] <= g
  BY <1>1, TiposSticks DEF Contiene
<1>3. g \in Nat /\ h \in Nat
  BY TiposSticks
<1>4. (g - BaseStick[s]) + cant <= TamStick[s]
  OBVIOUS
<1> HIDE DEF s, t
<1>5. ASSUME g <= h, h < g + cant PROVE Contiene(s, h)
  BY <1>2, <1>3, <1>4, <1>5 DEF Contiene
<1>6. g <= h <=> g - BaseStick[s] <= h - BaseStick[s]
  BY <1>2, <1>3
<1>7. h < g + cant <=> h - BaseStick[s] < (g - BaseStick[s]) + cant
  BY <1>2, <1>3
<1>8. g <= h /\ h < g + cant <=>
        t = s /\ g - BaseStick[s] <= h - BaseStick[s] /\ h - BaseStick[s] < (g - BaseStick[s]) + cant
  BY <1>1, <1>5, <1>6, <1>7
<1> QED  BY <1>8 DEF s, t

\* A request that was sent: the byte of the memory it starts at, and its place.
LEMMA PedidoEnviado ==
  ASSUME Configurado = 1, AgentesOK, NEW a \in Agentes, acceso[a].pc = "espera"
  PROVE  /\ Cursor(a) \in 0..(MemoriaTotal - 1) /\ Cursor(a) = acceso[a].inicio + acceso[a].hecho
         /\ pedido[a].stick = stick_de_direccion[Cursor(a)]
         /\ pedido[a].dir = Cursor(a) - BaseStick[stick_de_direccion[Cursor(a)]]
         /\ pedido[a].dir + pedido[a].cant <= TamStick[stick_de_direccion[Cursor(a)]]
         /\ 0 < pedido[a].cant /\ acceso[a].hecho + pedido[a].cant <= acceso[a].n
         /\ pedido[a].orden = acceso[a].fase
         /\ pedido[a].orden = "escribe" => pedido[a].datos = SubTramo(acceso[a].buf, acceso[a].hecho, pedido[a].cant)
BY TiposDelAgente, SocketPropio DEF PedidoOK, Cursor

\* None of the pieces a CPU or Kernel Memory asks for goes past the end of its stick.
LEMMA PiezaCabe ==
  ASSUME Configurado = 1, AgentesOK, NEW a \in Agentes, pedido[a].estado # "nada"
  PROVE  pedido[a].dir + pedido[a].cant <= TamStick[pedido[a].stick]
BY EnviadoEspera, PedidoEnviado

\* A write changes the bytes of its piece and no others.
LEMMA EfectoDeEscribir ==
  ASSUME Configurado = 1, AgentesOK, MemoriaOK, NEW a \in Agentes,
         pedido[a].estado = "enviado", pedido[a].orden = "escribe",
         mem' = [mem EXCEPT ![pedido[a].stick] = [i \in DOMAIN @ |->
             IF pedido[a].dir <= i /\ i < pedido[a].dir + pedido[a].cant THEN pedido[a].datos[i - pedido[a].dir] ELSE @[i]]],
         NEW h \in 0..(MemoriaTotal - 1)
  PROVE  Fisico(h)' = IF Cursor(a) <= h /\ h < Cursor(a) + pedido[a].cant
                      THEN acceso[a].buf[h - acceso[a].inicio] ELSE Fisico(h)
<1> DEFINE x == acceso[a]
           r == pedido[a]
           g == Cursor(a)
           s == stick_de_direccion[g]
           t == stick_de_direccion[h]
           i == h - BaseStick[t]
<1>1. /\ x.inicio \in Nat /\ x.hecho \in Nat /\ r.cant \in Nat
      /\ g \in 0..(MemoriaTotal - 1) /\ g = x.inicio + x.hecho /\ r.stick = s
      /\ r.dir = g - BaseStick[s] /\ r.dir + r.cant <= TamStick[s]
      /\ r.datos = SubTramo(x.buf, x.hecho, r.cant)
  BY EnviadoEspera, PedidoEnviado, TiposDelAgente
<1>2. s \in Sticks /\ t \in Sticks /\ Contiene(t, h)
  BY <1>1, StickDeDireccion
<1>3. h \in Nat /\ g \in Nat /\ BaseStick[t] \in Nat /\ TamStick[t] \in Nat
  <2>1. h \in Nat
    BY TiposSticks
  <2>2. g \in Nat
    <3>1. g \in 0..(MemoriaTotal - 1)
      BY <1>1
    <3> HIDE DEF g
    <3> QED  BY <3>1
  <2> HIDE DEF g, s, t
  <2> QED  BY <1>2, <2>1, <2>2, TiposSticks
<1>4. g <= h /\ h < g + r.cant <=> t = s /\ r.dir <= h - BaseStick[s] /\ h - BaseStick[s] < r.dir + r.cant
  <2>1. g \in 0..(MemoriaTotal - 1) /\ r.cant \in Nat /\ (g - BaseStick[s]) + r.cant <= TamStick[s]
    BY <1>1
  <2>2. r.dir = g - BaseStick[s]
    BY <1>1
  <2> HIDE DEF g, r
  <2>3. g <= h /\ h < g + r.cant <=>
          t = s /\ g - BaseStick[s] <= h - BaseStick[s] /\ h - BaseStick[s] < (g - BaseStick[s]) + r.cant
    BY <2>1, PiezaEnStick
  <2> QED  BY <2>2, <2>3
<1>5. Fisico(h)' = mem'[t][i] /\ Fisico(h) = mem[t][i]
  BY DEF Fisico
<1>6. DOMAIN mem = Sticks /\ DOMAIN mem[t] = 0..(TamStick[t] - 1)
  BY <1>2 DEF MemoriaOK
<1> DEFINE nuevo == [j \in DOMAIN mem[s] |->
                       IF r.dir <= j /\ j < r.dir + r.cant THEN r.datos[j - r.dir] ELSE mem[s][j]]
<1>10. mem' = [mem EXCEPT ![s] = nuevo]
  BY <1>1
<1>11. /\ i \in 0..(TamStick[t] - 1)
       /\ t = s => nuevo[i] = IF r.dir <= i /\ i < r.dir + r.cant THEN r.datos[i - r.dir] ELSE mem[s][i]
  BY <1>2, <1>3, <1>6 DEF Contiene
<1>12. (Cursor(a) <= h /\ h < Cursor(a) + pedido[a].cant) = (g <= h /\ h < g + r.cant)
  OBVIOUS
<1>13. acceso[a].buf[h - acceso[a].inicio] = x.buf[h - x.inicio]
  OBVIOUS
<1>14. i = h - BaseStick[t]
  OBVIOUS
<1> HIDE DEF x, r, g, s, t, i, nuevo
<1>7. CASE t # s
  BY <1>2, <1>4, <1>5, <1>6, <1>7, <1>10, <1>12
<1>8. CASE t = s /\ ~(r.dir <= i /\ i < r.dir + r.cant)
  BY <1>2, <1>4, <1>5, <1>6, <1>8, <1>10, <1>11, <1>12, <1>14
<1>9. CASE t = s /\ r.dir <= i /\ i < r.dir + r.cant
  <2>1. mem'[t][i] = r.datos[i - r.dir]
    BY <1>2, <1>6, <1>9, <1>10, <1>11
  <2>2. i - r.dir = h - g /\ i - r.dir \in 0..(r.cant - 1)
    BY <1>1, <1>3, <1>9, <1>14
  <2>3. r.datos[i - r.dir] = x.buf[x.hecho + (h - g)]
    BY <1>1, <2>2 DEF SubTramo
  <2>4. x.hecho + (h - g) = h - x.inicio
    BY <1>1, <1>3
  <2> QED  BY <1>4, <1>5, <1>9, <1>12, <1>13, <1>14, <2>1, <2>3, <2>4
<1> QED  BY <1>7, <1>8, <1>9

\* The bytes of an access are not being written by another agent.
LEMMA SinEscritorAjeno ==
  ASSUME IInv, NEW a \in Agentes, NEW b \in Agentes, b # a, Activo(acceso[b]),
         acceso[b].n <= MemoriaTotal, NEW i \in 0..(acceso[b].n - 1)
  PROVE  ~Escribe(a, acceso[b].inicio + i)
<1> DEFINE x == acceso[b]
           g == x.inicio + i
<1>1. SUFFICES ASSUME Escribe(a, g) PROVE FALSE
  OBVIOUS
<1>2. x \in Accesos /\ EnCurso(x) /\ x.pid \in Procesos /\ x.fase \in {"lee", "escribe"}
  BY TiposDelAgente DEF IInv, Activo, EnCurso
<1>3. PICK id \in Ids : EsByte(x.pid, id, g)
  BY <1>2, AccesoDentro
<1>4. acceso[a].pid = x.pid
  <2>1. g \in Nat
    BY <1>3 DEF EsByte
  <2> HIDE DEF x, g
  <2> QED  BY <1>1, <1>2, <1>3, <2>1, UnSoloEscritor DEF UnEscritor
<1> QED  BY <1>2, <1>4 DEF IInv, AgentesOK

\* The contents when the memory stays as it is and one agent moves on.
LEMMA ContenidosCambian ==
  ASSUME IInv, ContenidosOK, UNCHANGED mem, NEW a \in Agentes, NEW x, NEW r,
         acceso' = [acceso EXCEPT ![a] = x], pedido' = [pedido EXCEPT ![a] = r],
         Leidos(x), Respondidos(x, r)
  PROVE  ContenidosOK'
<1>1. \A g : Fisico(g)' = Fisico(g)
  BY DEF Fisico
<1>2. ASSUME NEW b \in Agentes PROVE (Leidos(acceso[b]) /\ Respondidos(acceso[b], pedido[b]))'
  <2>1. CASE b = a
    <3>1. acceso'[b] = x /\ pedido'[b] = r
      BY <2>1 DEF IInv, AgentesOK
    <3> QED  BY <1>1, <3>1 DEF Leidos, Respondidos
  <2>2. CASE b # a
    <3>1. acceso'[b] = acceso[b] /\ pedido'[b] = pedido[b]
      BY <2>2 DEF IInv, AgentesOK
    <3> QED  BY <1>1, <3>1 DEF ContenidosOK, Leidos, Respondidos
  <2> QED  BY <2>1, <2>2
<1> QED  BY <1>2 DEF ContenidosOK

\* An agent that begins or leaves an access, or asks for a piece, has nothing answered.
LEMMA ContenidosSinRespuesta ==
  ASSUME IInv, ContenidosOK, UNCHANGED mem, NEW a \in Agentes, NEW x, NEW r,
         acceso' = [acceso EXCEPT ![a] = x], pedido' = [pedido EXCEPT ![a] = r],
         r.estado # "respondido",
         ~Activo(x) \/ x.hecho = 0
  PROVE  ContenidosOK'
<1>1. Leidos(x)
  <2>1. CASE ~Activo(x)
    BY <2>1 DEF Leidos
  <2>2. CASE x.hecho = 0
    <3>1. 0..(x.hecho - 1) = {}
      BY <2>2
    <3> QED  BY <3>1 DEF Leidos
  <2> QED  BY <2>1, <2>2
<1>2. Respondidos(x, r)
  BY DEF Respondidos
<1> QED  BY <1>1, <1>2, ContenidosCambian

\* A piece read is the bytes of the memory it is for.
LEMMA PiezaLeida ==
  ASSUME Configurado = 1, AgentesOK, NEW a \in Agentes, acceso[a].pc = "espera",
         NEW i \in 0..(pedido[a].cant - 1)
  PROVE  Fisico(Cursor(a) + i) = mem[pedido[a].stick][pedido[a].dir + i]
<1> DEFINE r == pedido[a]
           g == Cursor(a)
           s == stick_de_direccion[g]
           h == g + i
<1>1. /\ g \in 0..(MemoriaTotal - 1) /\ r.stick = s /\ r.dir = g - BaseStick[s]
      /\ r.dir + r.cant <= TamStick[s] /\ r.cant \in Nat
  BY PedidoEnviado, TiposDelAgente
<1>2. s \in Sticks /\ BaseStick[s] \in Nat /\ TamStick[s] \in Nat /\ BaseStick[s] + TamStick[s] <= MemoriaTotal
  BY <1>1, StickDeDireccion, TiposSticks, FinDeStick
<1>3. i \in Nat /\ i < r.cant /\ g \in Nat
  BY <1>1
<1>4. h = g + i /\ Fisico(h) = mem[stick_de_direccion[h]][h - BaseStick[stick_de_direccion[h]]]
  BY DEF Fisico
<1>5. s = stick_de_direccion[g]
  OBVIOUS
<1> HIDE DEF r, g, s, h
<1>6. h \in 0..(MemoriaTotal - 1) /\ g <= h /\ h < g + r.cant
  BY <1>1, <1>2, <1>3, <1>4, TiposSticks
<1>7. stick_de_direccion[h] = s
  BY <1>1, <1>5, <1>6, PiezaEnStick
<1>8. h - BaseStick[s] = r.dir + i
  BY <1>1, <1>2, <1>3, <1>4
<1> QED  BY <1>1, <1>4, <1>7, <1>8 DEF h, r, g

\* ContenidosOK speaks of the sticks, the accesses and the requests.
LEMMA ContenidosIguales ==
  ASSUME ContenidosOK, UNCHANGED <<mem, acceso, pedido>>
  PROVE  ContenidosOK'
BY DEF ContenidosOK, Leidos, Respondidos, Fisico

\* What an agent with nothing to do begins.
LEMMA ContenidosAlComenzar ==
  ASSUME IInv, ContenidosOK, UNCHANGED <<mem, pedido>>, NEW a \in Agentes, acceso[a].pc = "libre",
         NEW x, Pasa(a, x), ~Activo(x) \/ x.hecho = 0
  PROVE  ContenidosOK'
<1>1. acceso' = [acceso EXCEPT ![a] = x] /\ pedido' = [pedido EXCEPT ![a] = pedido[a]]
  BY DEF Pasa, IInv, AgentesOK
<1>2. pedido[a].estado # "respondido"
  BY TiposDelAgente DEF IInv, PedidoOK
<1> QED  BY <1>1, <1>2, ContenidosSinRespuesta

\* An access that starts has read nothing yet.
LEMMA ContenidosComienza ==
  ASSUME IInv, ContenidosOK, UNCHANGED <<mem, pedido>>, NEW a \in Agentes, acceso[a].pc = "libre",
         NEW p, NEW instr, NEW fase, NEW d, NEW n, NEW buf, NEW destino,
         Comienza(a, p, instr, fase, d, n, buf, destino)
  PROVE  ContenidosOK'
<1> DEFINE x == [pc |-> "pide", pid |-> p, instr |-> instr, fase |-> fase,
                 inicio |-> DireccionFisica(p, d), n |-> n, hecho |-> 0, buf |-> buf, destino |-> destino]
<1>1. Pasa(a, x) /\ x.hecho = 0
  BY DEF Comienza
<1> HIDE DEF x
<1> QED  BY <1>1, ContenidosAlComenzar

\* A memory instruction of a CPU keeps what the buffers hold.
LEMMA ContenidosInstruccion ==
  ASSUME IInv, ContenidosOK, NEW c \in CPUs, Instruccion(c)
  PROVE  ContenidosOK'
<1>1. c \in Agentes /\ ~Activo([Libre EXCEPT !.pc = "fin"])
  BY DEF Agentes, Libre, Activo
<1>2. UNCHANGED <<mem, pedido>> /\ acceso[c].pc = "libre"
  BY DEF Instruccion, mov_in, mov_out, copy_mem, Puede
<1>3. \/ UNCHANGED acceso
      \/ Termina(c)
      \/ \E p, instr, fase, d, n, buf, destino : Comienza(c, p, instr, fase, d, n, buf, destino)
  BY DEF Instruccion, mov_in, mov_out, copy_mem, NoTraduce
<1>4. CASE UNCHANGED acceso
  BY <1>2, <1>4, ContenidosIguales
<1>5. CASE Termina(c)
  BY <1>1, <1>2, <1>5, ContenidosAlComenzar DEF Termina
<1>6. CASE \E p, instr, fase, d, n, buf, destino : Comienza(c, p, instr, fase, d, n, buf, destino)
  BY <1>1, <1>2, <1>6, ContenidosComienza
<1> QED  BY <1>3, <1>4, <1>5, <1>6

\* A STDIN or a STDOUT keeps what the buffers hold.
LEMMA ContenidosIO ==
  ASSUME IInv, ContenidosOK, IOdeProceso
  PROVE  ContenidosOK'
<1>1. KM \in Agentes /\ UNCHANGED <<mem, pedido>> /\ acceso[KM].pc = "libre"
  BY DEF Agentes, IOdeProceso, atender_stdin, atender_stdout, Puede
<1>2. \/ UNCHANGED acceso
      \/ \E p, instr, fase, d, n, buf, destino : Comienza(KM, p, instr, fase, d, n, buf, destino)
  BY DEF IOdeProceso, atender_stdin, atender_stdout
<1>3. CASE UNCHANGED acceso
  BY <1>1, <1>3, ContenidosIguales
<1>4. CASE \E p, instr, fase, d, n, buf, destino : Comienza(KM, p, instr, fase, d, n, buf, destino)
  BY <1>1, <1>4, ContenidosComienza
<1> QED  BY <1>2, <1>3, <1>4

\* An agent that asks for a piece waits for its stick.
LEMMA PideUnaPieza ==
  ASSUME NEW a, enviarTramo(a)
  PROVE  \E r : r.estado = "enviado" /\ pedido' = [pedido EXCEPT ![a] = r]
<1> DEFINE x == acceso[a]
           s == stick_de_direccion[Cursor(a)]
           dir == Cursor(a) - BaseStick[s]
           cant == Menor(x.n - x.hecho, TamStick[s] - dir)
           r == [estado |-> "enviado", stick |-> obtener_fd_ms(a, s), orden |-> x.fase, dir |-> dir, cant |-> cant,
                 datos |-> IF x.fase = "lee" THEN <<>> ELSE SubTramo(x.buf, x.hecho, cant)]
<1>1. pedido' = [pedido EXCEPT ![a] = r] /\ r.estado = "enviado"
  BY DEF enviarTramo
<1> HIDE DEF r
<1> QED  BY <1>1

\* The piece asked for is the next one of the buffer.
LEMMA ContenidosEnviar ==
  ASSUME IInv, ContenidosOK, NEW a \in Agentes, enviarTramo(a)
  PROVE  ContenidosOK'
<1> DEFINE x == acceso[a]
           y == [x EXCEPT !.pc = "espera"]
<1>1. x.pc = "pide" /\ UNCHANGED mem /\ acceso' = [acceso EXCEPT ![a] = y]
  BY DEF enviarTramo, Pasa
<1>2. PICK r : r.estado = "enviado" /\ pedido' = [pedido EXCEPT ![a] = r]
  BY PideUnaPieza
<1>3. x \in Accesos /\ Leidos(x)
  BY TiposDelAgente DEF IInv, ContenidosOK
<1>4. Activo(x) /\ y.fase = x.fase /\ y.n = x.n /\ y.hecho = x.hecho /\ y.buf = x.buf /\ y.inicio = x.inicio
  BY <1>1, <1>3 DEF Accesos, Activo
<1> HIDE DEF y
<1>5. Leidos(y)
  BY <1>3, <1>4 DEF Leidos
<1>6. Respondidos(y, r)
  BY <1>2 DEF Respondidos
<1> QED  BY <1>1, <1>2, <1>5, <1>6, ContenidosCambian

\* An access given up holds nothing of the memory.
LEMMA ContenidosSinStick ==
  ASSUME IInv, ContenidosOK, NEW a \in Agentes, sinStick(a)
  PROVE  ContenidosOK'
<1>1. PICK x \in {Libre, [Libre EXCEPT !.pc = "fin"]} : acceso' = [acceso EXCEPT ![a] = x]
  BY DEF sinStick, Termina, Pasa
<1>2. ~Activo(x)
  BY DEF Libre, Activo
<1>3. UNCHANGED <<mem, pedido>> /\ acceso[a].pc = "pide"
  BY DEF sinStick
<1>4. pedido[a].estado # "respondido"
  BY <1>3, TiposDelAgente DEF IInv, PedidoOK
<1>5. pedido' = [pedido EXCEPT ![a] = pedido[a]]
  BY <1>3 DEF IInv, AgentesOK
<1> QED  BY <1>1, <1>2, <1>3, <1>4, <1>5, ContenidosSinRespuesta

\* The byte of the memory at an address, in the bytes m of the sticks.
En(m, h) == m[stick_de_direccion[h]][h - BaseStick[stick_de_direccion[h]]]

\* What a stick answers is what it holds, and it writes no other bytes.
LEMMA ContenidosAtender ==
  ASSUME Configurado = 1, IInv, ContenidosOK, NadaSePierde, NEW a \in Agentes, atenderPedido(a)
  PROVE  ContenidosOK' /\ NadaSePierde'
<1> DEFINE r == pedido[a]
           x == acceso[a]
<1>1. r.estado = "enviado" /\ UNCHANGED acceso /\ x.pc = "espera" /\ Activo(x)
  BY EnviadoEspera DEF atenderPedido, IInv, Activo
<1>2. /\ x.inicio \in Nat /\ x.hecho \in Nat /\ x.n \in Nat /\ r.cant \in Nat /\ r \in Pedidos /\ x \in Accesos
      /\ Cursor(a) = x.inicio + x.hecho /\ x.hecho + r.cant <= x.n /\ r.orden = x.fase /\ r.cant > 0
  BY <1>1, PedidoEnviado, TiposDelAgente DEF IInv
<1>3. r.dir + r.cant <= TamStick[r.stick]
  BY <1>1, PiezaCabe DEF IInv
<1>4. ~(r.dir + r.cant > TamStick[r.stick])
  BY <1>2, <1>3, TiposDelAgente, TiposSticks DEF IInv
<1>5. CASE /\ r.orden = "lee"
           /\ pedido' = [pedido EXCEPT ![a].estado = "respondido",
                                       ![a].datos = SubTramo(mem[r.stick], r.dir, r.cant)]
           /\ UNCHANGED mem
  <2> DEFINE q == [r EXCEPT !.estado = "respondido", !.datos = SubTramo(mem[r.stick], r.dir, r.cant)]
  <2>1. pedido' = [pedido EXCEPT ![a] = q] /\ acceso' = [acceso EXCEPT ![a] = x]
    BY <1>1, <1>5 DEF IInv, AgentesOK
  <2>2. /\ q.cant = r.cant /\ q.orden = "lee" /\ q.estado = "respondido"
        /\ q.datos = SubTramo(mem[r.stick], r.dir, r.cant)
    BY <1>2, <1>5 DEF Pedidos
  <2>3. \A i \in 0..(r.cant - 1) : Fisico(x.inicio + x.hecho + i) = mem[r.stick][r.dir + i]
    BY <1>1, <1>2, PiezaLeida DEF IInv
  <2> HIDE DEF q, x, r
  <2>4. Respondidos(x, q)
    BY <2>2, <2>3 DEF Respondidos, SubTramo
  <2>5. Leidos(x)
    BY DEF ContenidosOK, x
  <2>6. ContenidosOK'
    BY <1>5, <2>1, <2>4, <2>5, ContenidosCambian
  <2>7. NadaSePierde'
    BY <2>1, <2>2 DEF NadaSePierde, IInv, AgentesOK
  <2> QED  BY <2>6, <2>7
<1>6. CASE /\ r.orden = "escribe"
           /\ mem' = [mem EXCEPT ![r.stick] = [i \in DOMAIN @ |->
                IF r.dir <= i /\ i < r.dir + r.cant THEN r.datos[i - r.dir] ELSE @[i]]]
           /\ pedido' = [pedido EXCEPT ![a].estado = "respondido"]
  <2>1. \A h \in 0..(MemoriaTotal - 1) :
          En(mem', h) = IF Cursor(a) <= h /\ h < Cursor(a) + r.cant THEN x.buf[h - x.inicio] ELSE En(mem, h)
    BY <1>1, <1>6, EfectoDeEscribir DEF IInv, Fisico, En
  <2>2. ASSUME NEW b \in Agentes, b # a, Activo(acceso[b]), acceso[b].n <= MemoriaTotal,
               NEW i \in 0..(acceso[b].n - 1)
        PROVE  En(mem', acceso[b].inicio + i) = En(mem, acceso[b].inicio + i)
    <3> DEFINE h == acceso[b].inicio + i
    <3>1. ~Escribe(a, h)
      BY <2>2, SinEscritorAjeno
    <3>2. h \in 0..(MemoriaTotal - 1) /\ h \in Nat
      BY <2>2, AccesoDentro, TiposDelAgente, TiposSticks DEF IInv, Activo
    <3> HIDE DEF h
    <3>3. ~(Cursor(a) <= h /\ h < Cursor(a) + r.cant)
      BY <1>1, <1>2, <1>6, <3>1, <3>2 DEF Escribe
    <3> QED  BY <2>1, <3>2, <3>3 DEF h
  <2>3. ASSUME NEW b \in Agentes, b # a PROVE (Leidos(acceso[b]) /\ Respondidos(acceso[b], pedido[b]))'
    <3>1. acceso'[b] = acceso[b] /\ pedido'[b] = pedido[b]
      BY <1>1, <1>6, <2>3 DEF IInv, AgentesOK
    <3>2. Leidos(acceso[b]) /\ Respondidos(acceso[b], pedido[b])
      BY DEF ContenidosOK
    <3>3. /\ acceso[b].n \in Nat /\ acceso[b].hecho \in Nat /\ pedido[b].cant \in Nat /\ acceso[b].inicio \in Nat
          /\ Activo(acceso[b]) => acceso[b].hecho < acceso[b].n
          /\ pedido[b].estado = "respondido" =>
               Activo(acceso[b]) /\ acceso[b].hecho + pedido[b].cant <= acceso[b].n
      BY TiposDelAgente, EnviadoEspera, PedidoEnviado DEF IInv, Activo, EnCurso
    <3>4. ASSUME Activo(acceso[b]), acceso[b].n <= MemoriaTotal, NEW i \in 0..(acceso[b].hecho - 1)
          PROVE  En(mem', acceso[b].inicio + i) = En(mem, acceso[b].inicio + i)
      BY <2>2, <2>3, <3>3, <3>4
    <3>5. Leidos(acceso[b])'
      BY <3>1, <3>2, <3>4 DEF Leidos, Fisico, En
    <3>6. ASSUME pedido[b].estado = "respondido", acceso[b].n <= MemoriaTotal, NEW i \in 0..(pedido[b].cant - 1)
          PROVE  En(mem', acceso[b].inicio + acceso[b].hecho + i) = En(mem, acceso[b].inicio + acceso[b].hecho + i)
      <4>1. acceso[b].hecho + i \in 0..(acceso[b].n - 1)
        BY <3>3, <3>6
      <4>2. acceso[b].inicio + acceso[b].hecho + i = acceso[b].inicio + (acceso[b].hecho + i)
        BY <3>3
      <4>3. En(mem', acceso[b].inicio + (acceso[b].hecho + i)) = En(mem, acceso[b].inicio + (acceso[b].hecho + i))
        BY <2>2, <2>3, <3>3, <3>6, <4>1
      <4> QED  BY <4>2, <4>3
    <3>7. Respondidos(acceso[b], pedido[b])'
      BY <3>1, <3>2, <3>6 DEF Respondidos, Fisico, En
    <3> QED  BY <3>5, <3>7
  <2>4. (Leidos(acceso[a]) /\ Respondidos(acceso[a], pedido[a]))'
    <3>1. acceso'[a] = x /\ pedido'[a].estado = "respondido" /\ pedido'[a].orden = "escribe" /\ pedido'[a].cant = r.cant
      BY <1>1, <1>2, <1>6 DEF IInv, AgentesOK, Pedidos
    <3>2. ASSUME x.n <= MemoriaTotal, NEW i \in 0..(r.cant - 1)
          PROVE  En(mem', x.inicio + x.hecho + i) = x.buf[x.hecho + i]
      <4> DEFINE h == x.inicio + x.hecho + i
      <4>1. Cursor(a) <= h /\ h < Cursor(a) + r.cant /\ h - x.inicio = x.hecho + i /\ x.hecho + i \in 0..(x.n - 1)
        BY <1>2
      <4>2. h = x.inicio + (x.hecho + i)
        BY <1>2
      <4>3. EnCurso(x)
        BY <1>1, EnviadoEspera DEF IInv
      <4> HIDE DEF h, x, r
      <4>4. h \in 0..(MemoriaTotal - 1)
        BY <1>2, <3>2, <4>1, <4>2, <4>3, AccesoDentro
      <4>5. En(mem', h) = x.buf[x.hecho + i]
        BY <2>1, <4>1, <4>4
      <4> QED  BY <4>5 DEF h
    <3>3. Leidos(acceso[a])'
      BY <1>2, <1>6, <3>1 DEF Leidos
    <3>4. Respondidos(acceso[a], pedido[a])'
      BY <3>1, <3>2 DEF Respondidos, Fisico, En
    <3> QED  BY <3>3, <3>4
  <2>5. NadaSePierde'
    BY <1>2, <1>6 DEF NadaSePierde, IInv, AgentesOK, Pedidos
  <2> QED  BY <2>3, <2>4, <2>5 DEF ContenidosOK
<1> QED  BY <1>4, <1>5, <1>6 DEF atenderPedido

\* The buffer of an access when an answer is received.
Recibe(x, r) ==
  IF x.fase = "escribe" THEN x.buf
  ELSE [i \in DOMAIN x.buf |->
          IF x.hecho <= i /\ i < x.hecho + r.cant THEN r.datos[i - x.hecho] ELSE x.buf[i]]

\* What a read has after an answer is what is in the memory.
LEMMA BufferLeido ==
  ASSUME IInv, ContenidosOK, NEW a \in Agentes, acceso[a].pc = "espera", pedido[a].estado = "respondido",
         acceso[a].fase = "lee", acceso[a].n <= MemoriaTotal, Configurado = 1,
         NEW i \in 0..(acceso[a].hecho + pedido[a].cant - 1)
  PROVE  Recibe(acceso[a], pedido[a])[i] = Fisico(acceso[a].inicio + i)
<1> DEFINE x == acceso[a]
           r == pedido[a]
<1>1. /\ x.inicio \in Nat /\ x.hecho \in Nat /\ x.n \in Nat /\ r.cant \in Nat /\ DOMAIN x.buf = 0..(x.n - 1)
      /\ x.hecho + r.cant <= x.n /\ r.orden = "lee"
  BY PedidoEnviado, TiposDelAgente DEF IInv
<1>2. \A j \in 0..(x.hecho - 1) : x.buf[j] = Fisico(x.inicio + j)
  BY DEF ContenidosOK, Leidos, Activo
<1>3. \A j \in 0..(r.cant - 1) : Fisico(x.inicio + x.hecho + j) = r.datos[j]
  BY <1>1 DEF ContenidosOK, Respondidos
<1>4. i \in DOMAIN x.buf
  BY <1>1
<1>5. Recibe(x, r)[i] = IF x.hecho <= i /\ i < x.hecho + r.cant THEN r.datos[i - x.hecho] ELSE x.buf[i]
  BY <1>4 DEF Recibe
<1>6. i \in 0..(x.hecho + r.cant - 1)
  OBVIOUS
<1> HIDE DEF x, r
<1>7. CASE x.hecho <= i
  <2>1. i - x.hecho \in 0..(r.cant - 1) /\ x.inicio + x.hecho + (i - x.hecho) = x.inicio + i
    BY <1>1, <1>7, <1>6
  <2>2. Recibe(x, r)[i] = r.datos[i - x.hecho]
    BY <1>1, <1>5, <1>7, <2>1
  <2> QED  BY <1>3, <2>1, <2>2 DEF x, r
<1>8. CASE ~(x.hecho <= i)
  <2>1. i \in 0..(x.hecho - 1)
    BY <1>1, <1>8, <1>6
  <2> QED  BY <1>2, <1>5, <1>8, <2>1 DEF x, r
<1> QED  BY <1>7, <1>8

\* What recibirTramo does, case by case.
LEMMA CasosDeRecibir ==
  ASSUME NEW a, recibirTramo(a)
  PROVE  /\ acceso[a].pc = "espera" /\ pedido[a].estado = "respondido"
         /\ pedido' = [pedido EXCEPT ![a] = SinPedido] /\ UNCHANGED <<mem, muertos, accesos>>
         /\ \/ /\ acceso[a].hecho + pedido[a].cant < acceso[a].n
               /\ Pasa(a, [acceso[a] EXCEPT !.pc = "pide", !.hecho = acceso[a].hecho + pedido[a].cant,
                                            !.buf = Recibe(acceso[a], pedido[a])])
               /\ UNCHANGED <<leido, ultimo>>
            \/ /\ acceso[a].hecho + pedido[a].cant = acceso[a].n /\ acceso[a].fase = "lee"
               /\ acceso[a].instr.op = "copia"
               /\ Pasa(a, [acceso[a] EXCEPT !.pc = "pide", !.fase = "escribe", !.inicio = acceso[a].destino,
                                            !.hecho = 0, !.buf = Recibe(acceso[a], pedido[a])])
               /\ UNCHANGED <<leido, ultimo>>
            \/ /\ acceso[a].hecho + pedido[a].cant = acceso[a].n /\ acceso[a].fase = "lee"
               /\ acceso[a].instr.op # "copia" /\ Pasa(a, Libre)
               /\ Cumplido(acceso[a].pid, acceso[a].instr)
               /\ leido' = [leido EXCEPT ![acceso[a].pid] = Recibe(acceso[a], pedido[a])]
            \/ /\ acceso[a].hecho + pedido[a].cant = acceso[a].n /\ acceso[a].fase = "escribe"
               /\ Pasa(a, Libre) /\ Cumplido(acceso[a].pid, acceso[a].instr) /\ UNCHANGED leido
BY Zenon DEF recibirTramo, Recibe

\* The piece received goes to its place in the buffer.
LEMMA ContenidosRecibir ==
  ASSUME Configurado = 1, IInv, ContenidosOK, NEW a \in Agentes, recibirTramo(a)
  PROVE  ContenidosOK'
<1> DEFINE x == acceso[a]
           r == pedido[a]
           buf == Recibe(x, r)
<1>1. /\ x.pc = "espera" /\ r.estado = "respondido" /\ UNCHANGED mem
      /\ pedido' = [pedido EXCEPT ![a] = SinPedido] /\ SinPedido.estado # "respondido"
  BY CasosDeRecibir DEF SinPedido
<1>2. x \in Accesos /\ x.hecho \in Nat /\ r.cant \in Nat
  BY TiposDelAgente DEF IInv
<1>3. CASE Pasa(a, [x EXCEPT !.pc = "pide", !.hecho = x.hecho + r.cant, !.buf = buf])
  <2> DEFINE y == [x EXCEPT !.pc = "pide", !.hecho = x.hecho + r.cant, !.buf = buf]
  <2>1. /\ y.fase = x.fase /\ y.n = x.n /\ y.inicio = x.inicio
        /\ y.hecho = x.hecho + r.cant /\ y.buf = buf
    BY <1>2 DEF Accesos
  <2> HIDE DEF y
  <2>2. Leidos(y)
    <3>1. ASSUME x.fase = "lee", x.n <= MemoriaTotal, NEW i \in 0..(x.hecho + r.cant - 1)
          PROVE  buf[i] = Fisico(x.inicio + i)
      BY <1>1, <3>1, BufferLeido
    <3> HIDE DEF x, r, buf
    <3> QED  BY <1>2, <2>1, <3>1 DEF Leidos
  <2>3. Respondidos(y, SinPedido)
    BY <1>1 DEF Respondidos
  <2>4. acceso' = [acceso EXCEPT ![a] = y]
    BY <1>3 DEF Pasa, y
  <2> QED  BY <1>1, <2>2, <2>3, <2>4, ContenidosCambian
<1>4. CASE Pasa(a, [x EXCEPT !.pc = "pide", !.fase = "escribe", !.inicio = x.destino, !.hecho = 0, !.buf = buf])
  <2> DEFINE y == [x EXCEPT !.pc = "pide", !.fase = "escribe", !.inicio = x.destino, !.hecho = 0, !.buf = buf]
  <2>1. y.hecho = 0
    BY <1>2 DEF Accesos
  <2> HIDE DEF y
  <2>2. acceso' = [acceso EXCEPT ![a] = y]
    BY <1>4 DEF Pasa, y
  <2> QED  BY <1>1, <2>1, <2>2, ContenidosSinRespuesta
<1>5. CASE Pasa(a, Libre)
  <2>1. ~Activo(Libre)
    BY DEF Libre, Activo
  <2> QED  BY <1>1, <1>5, <2>1, ContenidosSinRespuesta DEF Pasa
<1> QED  BY <1>3, <1>4, <1>5, CasosDeRecibir

\* What is read and written, and that nothing is lost, holds all along.
CInv == ContenidosOK /\ NadaSePierde

\* Every step keeps what the buffers hold.
LEMMA PasoCInv ==
  ASSUME Configurado = 1, IInv, CInv, [Next]_vars
  PROVE  CInv'
<1> USE DEF CInv
<1>1. ASSUME NEW c \in CPUs, Instruccion(c) PROVE CInv'
  <2>1. UNCHANGED pedido
    BY <1>1 DEF Instruccion, mov_in, mov_out, copy_mem
  <2> QED  BY <1>1, <2>1, ContenidosInstruccion DEF NadaSePierde
<1>2. CASE IOdeProceso
  <2>1. UNCHANGED pedido
    BY <1>2 DEF IOdeProceso, atender_stdin, atender_stdout
  <2> QED  BY <1>2, <2>1, ContenidosIO DEF NadaSePierde
<1>3. ASSUME NEW a \in Agentes, enviarTramo(a) PROVE CInv'
  <2>1. \E r : r.estado = "enviado" /\ pedido' = [pedido EXCEPT ![a] = r]
    BY <1>3, PideUnaPieza
  <2> QED  BY <1>3, <2>1, ContenidosEnviar DEF NadaSePierde, IInv, AgentesOK
<1>4. ASSUME NEW a \in Agentes, sinStick(a) PROVE CInv'
  BY <1>4, ContenidosSinStick DEF NadaSePierde, sinStick
<1>5. ASSUME NEW a \in Agentes, recibirTramo(a) PROVE CInv'
  <2>1. pedido' = [pedido EXCEPT ![a] = SinPedido] /\ SinPedido.estado # "perdido"
    BY <1>5, CasosDeRecibir DEF SinPedido
  <2> QED  BY <1>5, <2>1, ContenidosRecibir DEF NadaSePierde, IInv, AgentesOK
<1>6. ASSUME NEW a \in Agentes, atenderPedido(a) PROVE CInv'
  BY <1>6, ContenidosAtender
<1>7. CASE UNCHANGED vars
  BY <1>7, ContenidosIguales DEF vars, NadaSePierde
<1> QED  BY <1>1, <1>2, <1>3, <1>4, <1>5, <1>6, <1>7 DEF Next, Acceso

\* At the start no buffer holds anything.
LEMMA CInvInicial == Init => CInv
<1> SUFFICES ASSUME Init PROVE CInv
  OBVIOUS
<1>1. \A a \in Agentes : acceso[a] = Libre /\ pedido[a] = SinPedido
  BY DEF Init
<1>2. ~Activo(Libre) /\ SinPedido.estado = "nada"
  BY DEF Activo, Libre, SinPedido
<1> QED  BY <1>1, <1>2 DEF CInv, ContenidosOK, Leidos, Respondidos, NadaSePierde

\* A Memory Stick drops no request (memory_stick.c:86, 126), and what an agent has read of
\* its piece is what the sticks hold, when the stick the CPUs are configured with is the
\* first one of the map.
THEOREM NingunPedidoSePierde ==
  ASSUME Configurado = 1
  PROVE  Spec => [](NadaSePierde /\ ContenidosOK)
<1>1. IInv /\ CInv /\ [Next]_vars => CInv'
  BY PasoCInv
<1> QED  BY <1>1, CInvInicial, AccesosCoherentes, PTL DEF Spec, CInv

-----------------------------------------------------------------------------
(* The refinement: what a step does to the memory the programs see.         *)

VistoIgual ==
  \A p \in Procesos, id \in Ids : \A i \in 0..(Largo[p][id] - 1) :
    Visto(Base[p][id] + i)' = Visto(Base[p][id] + i)
\* The contents of the segments are those of the bytes seen.
LEMMA ContenidoIgual == VistoIgual => Contenido' = Contenido
BY DEF VistoIgual, Contenido

\* The bytes of a segment, as bytes of the memory.
LEMMA ByteDeSegmento ==
  ASSUME NEW p \in Procesos, NEW id \in Ids, NEW i \in 0..(Largo[p][id] - 1)
  PROVE  EsByte(p, id, Base[p][id] + i) /\ Base[p][id] + i \in Nat /\ Base[p][id] + i \in 0..(MemoriaTotal - 1)
BY Segmentos, TiposSticks DEF EsByte

\* What a writer still has to write is as it was.
Inmovil(x, y) ==
  \/ x.fase = "lee" /\ y.fase = "lee"
  \/ /\ Activo(x) /\ Activo(y) /\ y.pid = x.pid /\ y.instr = x.instr /\ y.fase = x.fase
     /\ y.inicio = x.inicio /\ y.hecho = x.hecho /\ y.n = x.n /\ y.buf = x.buf

\* An access that only changes its progress changes nothing that is seen.
LEMMA MismaVista ==
  ASSUME IInv, IInv', UNCHANGED mem, NEW a \in Agentes, NEW y, acceso' = [acceso EXCEPT ![a] = y],
         Inmovil(acceso[a], y)
  PROVE  Contenido' = Contenido
<1>1. VistoEs /\ VistoEs'
  BY LoVisto, PTL
<1>2. acceso'[a] = y /\ \A b \in Agentes : b # a => acceso'[b] = acceso[b]
  BY DEF IInv, AgentesOK
<1>3. ASSUME NEW g, NEW b \in Agentes
      PROVE  /\ Escribe(b, g)' <=> Escribe(b, g)
             /\ Escribe(b, g) => acceso'[b].buf = acceso[b].buf /\ acceso'[b].inicio = acceso[b].inicio
  <2>1. CASE b = a
    BY <1>2, <2>1 DEF Inmovil, Escribe, Cursor, Activo
  <2>2. CASE b # a
    BY <1>2, <2>2 DEF Escribe, Cursor
  <2> QED  BY <2>1, <2>2
<1>4. ASSUME NEW p \in Procesos, NEW id \in Ids, NEW g \in Nat, EsByte(p, id, g)
      PROVE  Visto(g)' = Visto(g)
  <2>1. Fisico(g)' = Fisico(g)
    BY DEF Fisico
  <2>2. CASE \A b \in Agentes : ~Escribe(b, g)
    <3>1. Visto(g) = Fisico(g)
      BY <1>1, <1>4, <2>2 DEF VistoEs
    <3>2. Visto(g)' = Fisico(g)'
      BY <1>1, <1>3, <1>4, <2>2 DEF VistoEs
    <3> QED  BY <2>1, <3>1, <3>2
  <2>3. ASSUME NEW b \in Agentes, Escribe(b, g) PROVE Visto(g)' = Visto(g)
    <3>1. Visto(g) = acceso[b].buf[g - acceso[b].inicio]
      BY <1>1, <1>4, <2>3 DEF VistoEs
    <3>2. Visto(g)' = acceso'[b].buf[g - acceso'[b].inicio]
      BY <1>1, <1>3, <1>4, <2>3 DEF VistoEs
    <3> QED  BY <1>3, <2>3, <3>1, <3>2
  <2> QED  BY <2>2, <2>3
<1>5. VistoIgual
  BY <1>4, ByteDeSegmento DEF VistoIgual
<1> QED  BY <1>5, ContenidoIgual

\* The last accesses, when no agent begins or ends to write.
LEMMA MismosUltimos ==
  ASSUME IInv, IInv', NEW a \in Agentes, NEW y, acceso' = [acceso EXCEPT ![a] = y],
         Inmovil(acceso[a], y), NEW p \in Procesos
  PROVE  /\ ultimo'[p] = ultimo[p] => Ultimo'[p] = Ultimo[p]
         /\ acceso[a].pid = p /\ acceso[a].fase = "lee" => Ultimo'[p] = ultimo'[p] /\ Ultimo[p] = ultimo[p]
<1>1. UltimoEs /\ UltimoEs'
  BY LoUltimo, PTL
<1>2. acceso'[a] = y /\ \A b \in Agentes : b # a => acceso'[b] = acceso[b]
  BY DEF IInv, AgentesOK
<1>3. \A b \in Agentes :
        /\ acceso'[b].pid = p /\ acceso'[b].fase = "escribe" <=> acceso[b].pid = p /\ acceso[b].fase = "escribe"
        /\ acceso[b].fase = "escribe" => acceso'[b].instr = acceso[b].instr
  BY <1>2 DEF Inmovil
<1>4. ASSUME ultimo'[p] = ultimo[p] PROVE Ultimo'[p] = Ultimo[p]
  <2>1. CASE \A b \in Agentes : ~(acceso[b].pid = p /\ acceso[b].fase = "escribe")
    BY <1>1, <1>3, <1>4, <2>1 DEF UltimoEs
  <2>2. ASSUME NEW b \in Agentes, acceso[b].pid = p, acceso[b].fase = "escribe"
        PROVE  Ultimo'[p] = Ultimo[p]
    <3>1. Ultimo[p] = [numero |-> ultimo[p].numero + 1, instr |-> acceso[b].instr]
      BY <1>1, <2>2 DEF UltimoEs
    <3>2. Ultimo'[p] = [numero |-> ultimo'[p].numero + 1, instr |-> acceso'[b].instr]
      BY <1>1, <1>3, <2>2 DEF UltimoEs
    <3> QED  BY <1>3, <1>4, <2>2, <3>1, <3>2
  <2> QED  BY <2>1, <2>2
<1>5. ASSUME acceso[a].pid = p, acceso[a].fase = "lee"
      PROVE  Ultimo'[p] = ultimo'[p] /\ Ultimo[p] = ultimo[p]
  <2>1. \A b \in Agentes : ~(acceso[b].pid = p /\ acceso[b].fase = "escribe")
    BY <1>5 DEF IInv, AgentesOK
  <2> QED  BY <1>1, <1>3, <2>1 DEF UltimoEs
<1> QED  BY <1>4, <1>5

\* The last accesses are equal when they are for every process.
LEMMA UltimoIgual ==
  ASSUME \A p \in Procesos : Ultimo'[p] = Ultimo[p]
  PROVE  Ultimo' = Ultimo
BY DEF Ultimo

\* A step the programs do not see.
LEMMA NoSeVe ==
  ASSUME IInv, IInv', UNCHANGED <<mem, leido, ultimo>>, NEW a \in Agentes, NEW y,
         acceso' = [acceso EXCEPT ![a] = y], Inmovil(acceso[a], y)
  PROVE  UNCHANGED Plana!vars
<1>1. Contenido' = Contenido
  BY MismaVista
<1>2. Ultimo' = Ultimo
  BY MismosUltimos, UltimoIgual
<1> QED  BY <1>1, <1>2 DEF Plana!vars

\* An agent begins to write.
LEMMA EmpiezaAEscribir ==
  ASSUME IInv, IInv', UNCHANGED <<mem, ultimo>>, NEW a \in Agentes, NEW y,
         acceso' = [acceso EXCEPT ![a] = y], acceso[a].fase = "lee",
         Activo(y), y.fase = "escribe", y.hecho = 0
  PROVE  /\ Contenido' = [Contenido EXCEPT ![y.pid][y.instr.hacia[1]] =
                            Plana!Pisado(@, y.instr.hacia[2], y.n, y.buf)]
         /\ Ultimo' = [Ultimo EXCEPT ![y.pid] = Plana!Otro(@, y.instr)]
<1> DEFINE p == y.pid
           jd == y.instr.hacia[1]
           e == y.instr.hacia[2]
<1>1. VistoEs /\ VistoEs' /\ UltimoEs /\ UltimoEs' /\ UnEscritor'
  BY LoVisto, LoUltimo, UnSoloEscritor, PTL
<1>2. acceso'[a] = y /\ \A b \in Agentes : b # a => acceso'[b] = acceso[b]
  BY DEF IInv, AgentesOK
<1>3. /\ y \in Accesos /\ EnCurso(y)
      /\ \A b \in Agentes : acceso'[b].pid = y.pid => b = a
  BY <1>2 DEF IInv, AgentesOK, AccesoOK, EnCurso
<1>4. /\ p \in Procesos /\ jd \in Ids /\ e \in Nat /\ y.n \in Nat /\ y.inicio = Base[p][jd] + e
      /\ e + y.n <= Largo[p][jd] /\ Base[p][jd] \in Nat /\ Largo[p][jd] \in Nat
  <2>1. p \in Procesos /\ jd \in Ids /\ e \in Nat /\ y.n \in Nat
    BY <1>3, Palabra DEF Accesos, EnCurso, Instrucciones
  <2>2. y.inicio = Base[p][jd] + e /\ e + y.n <= Largo[p][jd]
    BY <1>3 DEF EnCurso, Fisica, Dentro
  <2> QED  BY <2>1, <2>2, Segmentos
<1>5. \A g : Escribe(a, g)' <=> y.inicio <= g /\ g < y.inicio + y.n
  BY <1>2, <1>3, <1>4 DEF Escribe, Cursor, Activo, Accesos
<1>6. \A b \in Agentes, g \in Nat : b # a => (Escribe(b, g)' <=> Escribe(b, g))
  BY <1>2 DEF Escribe, Cursor
<1>7. \A g : ~Escribe(a, g)
  BY DEF Escribe
<1>8. ASSUME NEW q \in Procesos, NEW id \in Ids, NEW i \in 0..(Largo[q][id] - 1)
      PROVE  Visto(Base[q][id] + i)' =
               IF q = p /\ id = jd /\ e <= i /\ i < e + y.n THEN y.buf[i - e] ELSE Visto(Base[q][id] + i)
  <2> DEFINE g == Base[q][id] + i
  <2>1. EsByte(q, id, g) /\ g \in Nat
    BY ByteDeSegmento
  <2>2. Fisico(g)' = Fisico(g)
    BY DEF Fisico
  <2>3. g = Base[q][id] + i /\ i \in Nat
    BY Segmentos
  <2> HIDE DEF g, p, jd, e
  <2>4. CASE Escribe(a, g)'
    <3>1. q = p /\ id = jd
      BY <1>1, <1>2, <2>1, <2>4 DEF UnEscritor, p, jd
    <3>2. e <= i /\ i < e + y.n /\ g - y.inicio = i - e
      BY <1>4, <1>5, <2>3, <2>4, <3>1
    <3>3. Visto(g)' = y.buf[g - y.inicio]
      BY <1>1, <1>2, <2>1, <2>4 DEF VistoEs
    <3> QED  BY <3>1, <3>2, <3>3 DEF g
  <2>5. CASE ~(Escribe(a, g)')
    <3>1. ~(q = p /\ id = jd /\ e <= i /\ i < e + y.n)
      BY <1>4, <1>5, <2>3, <2>5
    <3>2. CASE \A b \in Agentes : ~Escribe(b, g)
      <4>1. Visto(g) = Fisico(g)
        BY <1>1, <2>1, <3>2 DEF VistoEs
      <4>2. Visto(g)' = Fisico(g)'
        BY <1>1, <1>6, <2>1, <2>5, <3>2 DEF VistoEs
      <4> QED  BY <2>2, <3>1, <4>1, <4>2 DEF g
    <3>3. ASSUME NEW b \in Agentes, Escribe(b, g) PROVE Visto(g)' = Visto(g)
      <4>1. b # a /\ acceso'[b] = acceso[b] /\ Escribe(b, g)'
        BY <1>2, <1>6, <1>7, <2>1, <3>3
      <4>2. Visto(g) = acceso[b].buf[g - acceso[b].inicio]
        BY <1>1, <2>1, <3>3 DEF VistoEs
      <4>3. Visto(g)' = acceso'[b].buf[g - acceso'[b].inicio]
        BY <1>1, <2>1, <4>1 DEF VistoEs
      <4> QED  BY <4>1, <4>2, <4>3
    <3> QED  BY <3>1, <3>2, <3>3 DEF g
  <2> QED  BY <2>4, <2>5
<1>9. ASSUME NEW q \in Procesos, NEW id \in Ids
      PROVE  Contenido'[q][id] =
               IF q = p /\ id = jd THEN Plana!Pisado(Contenido[q][id], e, y.n, y.buf) ELSE Contenido[q][id]
  <2>1. /\ Contenido'[q][id] = [i \in 0..(Largo[q][id] - 1) |-> Visto(Base[q][id] + i)']
        /\ Contenido[q][id] = [i \in 0..(Largo[q][id] - 1) |-> Visto(Base[q][id] + i)]
    BY DEF Contenido
  <2>2. Plana!Pisado(Contenido[q][id], e, y.n, y.buf) =
          [i \in 0..(Largo[q][id] - 1) |->
             IF e <= i /\ i < e + y.n THEN y.buf[i - e] ELSE Visto(Base[q][id] + i)]
    BY <2>1 DEF Plana!Pisado
  <2> HIDE DEF p, jd, e
  <2>3. CASE q = p /\ id = jd
    <3>1. \A i \in 0..(Largo[q][id] - 1) :
            Visto(Base[q][id] + i)' = IF e <= i /\ i < e + y.n THEN y.buf[i - e] ELSE Visto(Base[q][id] + i)
      BY <1>8, <2>3
    <3>2. [i \in 0..(Largo[q][id] - 1) |-> Visto(Base[q][id] + i)'] =
            [i \in 0..(Largo[q][id] - 1) |->
               IF e <= i /\ i < e + y.n THEN y.buf[i - e] ELSE Visto(Base[q][id] + i)]
      BY <3>1, Zenon
    <3>3. Contenido'[q][id] = Plana!Pisado(Contenido[q][id], e, y.n, y.buf)
      BY <2>1, <2>2, <3>2
    <3> QED  BY <2>3, <3>3
  <2>4. CASE ~(q = p /\ id = jd)
    <3>1. \A i \in 0..(Largo[q][id] - 1) : Visto(Base[q][id] + i)' = Visto(Base[q][id] + i)
      BY <1>8, <2>4
    <3>2. [i \in 0..(Largo[q][id] - 1) |-> Visto(Base[q][id] + i)'] =
            [i \in 0..(Largo[q][id] - 1) |-> Visto(Base[q][id] + i)]
      BY <3>1, Zenon
    <3>3. Contenido'[q][id] = Contenido[q][id]
      BY <2>1, <3>2
    <3> QED  BY <2>4, <3>3
  <2> QED  BY <2>3, <2>4
<1>10. Contenido' = [Contenido EXCEPT ![p][jd] = Plana!Pisado(@, e, y.n, y.buf)]
  <2>1. /\ Contenido' = [q \in Procesos |-> [id \in Ids |-> Contenido'[q][id]]]
        /\ Contenido = [q \in Procesos |-> [id \in Ids |-> Contenido[q][id]]]
    BY DEF Contenido
  <2> HIDE DEF p, jd, e
  <2> QED  BY <1>4, <1>9, <2>1
<1>11. Ultimo' = [Ultimo EXCEPT ![p] = Plana!Otro(@, y.instr)]
  <2>1. Ultimo[p] = ultimo[p]
    <3>1. \A b \in Agentes : ~(acceso[b].pid = p /\ acceso[b].fase = "escribe")
      BY <1>2, <1>3
    <3> QED  BY <1>1, <1>4, <3>1 DEF UltimoEs
  <2>2. Ultimo'[p] = Plana!Otro(Ultimo[p], y.instr)
    <3>1. Ultimo'[p] = [numero |-> ultimo'[p].numero + 1, instr |-> y.instr]
      BY <1>1, <1>2, <1>4 DEF UltimoEs
    <3> QED  BY <2>1, <3>1 DEF Plana!Otro
  <2>3. ASSUME NEW q \in Procesos, q # p PROVE Ultimo'[q] = Ultimo[q]
    <3>1. CASE \A b \in Agentes : ~(acceso[b].pid = q /\ acceso[b].fase = "escribe")
      <4>1. \A b \in Agentes : ~(acceso'[b].pid = q /\ acceso'[b].fase = "escribe")
        BY <1>2, <2>3, <3>1
      <4> QED  BY <1>1, <3>1, <4>1 DEF UltimoEs
    <3>2. ASSUME NEW b \in Agentes, acceso[b].pid = q, acceso[b].fase = "escribe"
          PROVE  Ultimo'[q] = Ultimo[q]
      <4>1. acceso'[b] = acceso[b]
        BY <1>2, <3>2
      <4>2. Ultimo[q] = [numero |-> ultimo[q].numero + 1, instr |-> acceso[b].instr]
        BY <1>1, <3>2 DEF UltimoEs
      <4>3. Ultimo'[q] = [numero |-> ultimo'[q].numero + 1, instr |-> acceso'[b].instr]
        BY <1>1, <3>2, <4>1 DEF UltimoEs
      <4> QED  BY <4>1, <4>2, <4>3
    <3> QED  BY <3>1, <3>2
  <2>4. /\ Ultimo' = [q \in Procesos |-> Ultimo'[q]]
        /\ Ultimo = [q \in Procesos |-> Ultimo[q]]
    BY DEF Ultimo
  <2> HIDE DEF p
  <2> QED  BY <1>4, <2>2, <2>3, <2>4
<1> QED  BY <1>10, <1>11

\* What a writer has no longer to write is in the memory.
LEMMA AvanzaLaEscritura ==
  ASSUME IInv, IInv', UNCHANGED mem, NEW a \in Agentes, NEW y, acceso' = [acceso EXCEPT ![a] = y],
         \A g \in Nat : Escribe(a, g)' => Escribe(a, g) /\ y.buf[g - y.inicio] = acceso[a].buf[g - acceso[a].inicio],
         \A g \in Nat : Escribe(a, g) /\ ~(Escribe(a, g)') => Fisico(g) = acceso[a].buf[g - acceso[a].inicio]
  PROVE  Contenido' = Contenido
<1>1. VistoEs /\ VistoEs'
  BY LoVisto, PTL
<1>2. acceso'[a] = y /\ \A b \in Agentes : b # a => acceso'[b] = acceso[b]
  BY DEF IInv, AgentesOK
<1>3. \A b \in Agentes, g \in Nat : b # a => (Escribe(b, g)' <=> Escribe(b, g))
  BY <1>2 DEF Escribe, Cursor
<1>4. \A g \in Nat : Fisico(g)' = Fisico(g)
  BY DEF Fisico
<1>5. ASSUME NEW p \in Procesos, NEW id \in Ids, NEW g \in Nat, EsByte(p, id, g)
      PROVE  Visto(g)' = Visto(g)
  <2>1. CASE Escribe(a, g)'
    <3>1. Visto(g)' = y.buf[g - y.inicio] /\ Escribe(a, g)
      BY <1>1, <1>2, <1>5, <2>1 DEF VistoEs
    <3>2. Visto(g) = acceso[a].buf[g - acceso[a].inicio]
      BY <1>1, <1>5, <3>1 DEF VistoEs
    <3> QED  BY <2>1, <3>1, <3>2
  <2>2. ASSUME NEW b \in Agentes, b # a, Escribe(b, g) PROVE Visto(g)' = Visto(g)
    <3>1. Visto(g) = acceso[b].buf[g - acceso[b].inicio]
      BY <1>1, <1>5, <2>2 DEF VistoEs
    <3>2. Visto(g)' = acceso'[b].buf[g - acceso'[b].inicio]
      BY <1>1, <1>3, <1>5, <2>2 DEF VistoEs
    <3> QED  BY <1>2, <2>2, <3>1, <3>2
  <2>3. CASE ~(Escribe(a, g)') /\ \A b \in Agentes : b # a => ~Escribe(b, g)
    <3>1. Visto(g)' = Fisico(g)'
      BY <1>1, <1>3, <1>5, <2>3 DEF VistoEs
    <3>2. Visto(g) = Fisico(g)
      <4>1. CASE Escribe(a, g)
        BY <1>1, <1>5, <2>3, <4>1 DEF VistoEs
      <4>2. CASE ~Escribe(a, g)
        BY <1>1, <1>5, <2>3, <4>2 DEF VistoEs
      <4> QED  BY <4>1, <4>2
    <3> QED  BY <1>4, <3>1, <3>2
  <2> QED  BY <2>1, <2>2, <2>3
<1>6. VistoIgual
  BY <1>5, ByteDeSegmento DEF VistoIgual
<1> QED  BY <1>6, ContenidoIgual

\* The service of a request changes nothing the programs see.
LEMMA AtenderNoSeVe ==
  ASSUME Configurado = 1, IInv, IInv', NEW a \in Agentes, atenderPedido(a)
  PROVE  UNCHANGED Plana!vars
<1> DEFINE r == pedido[a]
<1>1. UNCHANGED <<acceso, leido, ultimo>> /\ r.estado = "enviado" /\ acceso[a].pc = "espera"
  BY EnviadoEspera DEF atenderPedido, IInv
<1>2. Ultimo' = Ultimo
  BY <1>1 DEF Ultimo, Escritores
<1>3. CASE UNCHANGED mem
  <2>1. Contenido' = Contenido
    BY <1>1, <1>3 DEF Contenido, Visto, Escribe, Fisico, Cursor
  <2> QED  BY <1>1, <1>2, <2>1 DEF Plana!vars
<1>4. CASE /\ r.orden = "escribe"
           /\ mem' = [mem EXCEPT ![r.stick] = [i \in DOMAIN @ |->
                IF r.dir <= i /\ i < r.dir + r.cant THEN r.datos[i - r.dir] ELSE @[i]]]
  <2>1. \A h \in 0..(MemoriaTotal - 1) :
          Fisico(h)' = IF Cursor(a) <= h /\ h < Cursor(a) + r.cant THEN acceso[a].buf[h - acceso[a].inicio] ELSE Fisico(h)
    BY <1>1, <1>4, EfectoDeEscribir DEF IInv
  <2>2. \A b \in Agentes, g \in Nat : Escribe(b, g)' <=> Escribe(b, g)
    BY <1>1 DEF Escribe, Cursor
  <2>3. VistoEs /\ VistoEs'
    BY LoVisto, PTL
  <2>4. ASSUME NEW p \in Procesos, NEW id \in Ids, NEW g \in Nat, EsByte(p, id, g), g \in 0..(MemoriaTotal - 1)
        PROVE  Visto(g)' = Visto(g)
    <3>1. ASSUME NEW b \in Agentes, Escribe(b, g) PROVE Visto(g)' = Visto(g)
      <4>1. Visto(g) = acceso[b].buf[g - acceso[b].inicio]
        BY <2>3, <2>4, <3>1 DEF VistoEs
      <4>2. Visto(g)' = acceso'[b].buf[g - acceso'[b].inicio]
        BY <2>2, <2>3, <2>4, <3>1 DEF VistoEs
      <4> QED  BY <1>1, <4>1, <4>2
    <3>2. CASE \A b \in Agentes : ~Escribe(b, g)
      <4>1. Visto(g) = Fisico(g) /\ Visto(g)' = Fisico(g)'
        BY <2>2, <2>3, <2>4, <3>2 DEF VistoEs
      <4>2. ~(Cursor(a) <= g /\ g < Cursor(a) + r.cant)
        <5>1. /\ acceso[a].inicio \in Nat /\ acceso[a].hecho \in Nat /\ acceso[a].n \in Nat /\ r.cant \in Nat
              /\ Cursor(a) = acceso[a].inicio + acceso[a].hecho
              /\ acceso[a].hecho + r.cant <= acceso[a].n /\ r.orden = acceso[a].fase
          BY <1>1, PedidoEnviado, TiposDelAgente DEF IInv
        <5> QED  BY <1>1, <1>4, <3>2, <5>1 DEF Escribe
      <4>3. Fisico(g)' = Fisico(g)
        BY <2>1, <2>4, <4>2
      <4> QED  BY <4>1, <4>3
    <3> QED  BY <3>1, <3>2
  <2>5. VistoIgual
    BY <2>4, ByteDeSegmento DEF VistoIgual
  <2>6. Contenido' = Contenido
    BY <2>5, ContenidoIgual
  <2> QED  BY <1>1, <1>2, <2>6 DEF Plana!vars
<1> QED  BY <1>3, <1>4 DEF atenderPedido

-----------------------------------------------------------------------------
(* The refinement, action by action.                                        *)

\* The steps of MemoriaPlana, from the address of an instruction.
LEMMA DireccionPlana ==
  ASSUME NEW p \in Procesos, NEW dir \in Ids \X Nat, NEW n \in Nat, Dentro(p, dir, n)
  PROVE  /\ dir = <<dir[1], dir[2]>> /\ dir[1] \in Ids /\ dir[2] \in 0..Largo[p][dir[1]]
         /\ n \in 0..Largo[p][dir[1]] /\ Plana!Cabe(p, dir, n)
<1>1. dir = <<dir[1], dir[2]>> /\ dir[1] \in Ids /\ dir[2] \in Nat
  OBVIOUS
<1>2. Largo[p][dir[1]] \in Nat
  BY <1>1, Segmentos
<1>3. dir[2] + n <= Largo[p][dir[1]]
  BY DEF Dentro
<1>4. dir[2] \in 0..Largo[p][dir[1]] /\ n \in 0..Largo[p][dir[1]]
  BY <1>1, <1>2, <1>3
<1> QED  BY <1>1, <1>3, <1>4 DEF Plana!Cabe

\* A read inside a segment is a step of the abstract memory.
LEMMA PasoLeer ==
  ASSUME NEW p \in Procesos, NEW dir \in Ids \X Nat, NEW n \in Nat, Dentro(p, dir, n), Plana!Leer(p, dir, n)
  PROVE  Plana!Next
<1>1. Plana!Leer(p, <<dir[1], dir[2]>>, n) /\ dir[1] \in Ids /\ dir[2] \in 0..Largo[p][dir[1]] /\ n \in 0..Largo[p][dir[1]]
  BY DireccionPlana
<1> QED  BY <1>1 DEF Plana!Next

\* A write inside a segment is a step of the abstract memory.
LEMMA PasoEscribir ==
  ASSUME NEW p \in Procesos, NEW dir \in Ids \X Nat, NEW n \in Nat, NEW v \in Valores, Dentro(p, dir, n),
         Plana!Escribir(p, dir, n, v)
  PROVE  Plana!Next
<1>1. /\ Plana!Escribir(p, <<dir[1], dir[2]>>, n, v)
      /\ dir[1] \in Ids /\ dir[2] \in 0..Largo[p][dir[1]] /\ n \in 0..Largo[p][dir[1]]
  BY DireccionPlana
<1> QED  BY <1>1 DEF Plana!Next

\* A copy inside the segments is a step of the abstract memory.
LEMMA PasoCopiar ==
  ASSUME NEW p \in Procesos, NEW dir \in Ids \X Nat, NEW hacia \in Ids \X Nat, NEW n \in Nat,
         Dentro(p, dir, n), Dentro(p, hacia, n), Plana!Copiar(p, dir, hacia, n)
  PROVE  Plana!Next
<1>1. /\ Plana!Copiar(p, <<dir[1], dir[2]>>, <<hacia[1], hacia[2]>>, n)
      /\ dir[1] \in Ids /\ dir[2] \in 0..Largo[p][dir[1]] /\ n \in 0..Largo[p][dir[1]]
      /\ hacia[1] \in Ids /\ hacia[2] \in 0..Largo[p][hacia[1]]
  BY DireccionPlana
<1> QED  BY <1>1 DEF Plana!Next

\* An agent with nothing to do begins to read, or ends.
LEMMA ComenzarALeer ==
  ASSUME IInv, IInv', UNCHANGED <<mem, leido, ultimo>>, NEW a \in Agentes, acceso[a].pc = "libre",
         \/ UNCHANGED acceso
         \/ \E y : Pasa(a, y) /\ y.fase = "lee"
  PROVE  UNCHANGED Plana!vars
<1>1. acceso[a].fase = "lee"
  BY TiposDelAgente DEF IInv, AccesoOK, Activo
<1>2. PICK y : acceso' = [acceso EXCEPT ![a] = y] /\ y.fase = "lee"
  <2>1. CASE UNCHANGED acceso
    BY <1>1, <2>1 DEF IInv, AgentesOK
  <2>2. CASE \E y : Pasa(a, y) /\ y.fase = "lee"
    BY <2>2 DEF Pasa
  <2> QED  BY <2>1, <2>2
<1> QED  BY <1>1, <1>2, NoSeVe DEF Inmovil

\* A write begins: the programs see it as made.
LEMMA ComenzarAEscribir ==
  ASSUME IInv, IInv', UNCHANGED <<mem, leido, ultimo>>, NEW a \in Agentes, acceso[a].pc = "libre",
         NEW p \in Procesos, NEW d \in Direcciones, NEW n \in Nat, n < Modulo, NEW v \in Valores,
         Dentro(p, Dir(d), n),
         Comienza(a, p, Escritura(d, n, v), "escribe", d, n, Escrito(v, n), 0)
  PROVE  Plana!Next
<1> DEFINE y == [pc |-> "pide", pid |-> p, instr |-> Escritura(d, n, v), fase |-> "escribe",
                 inicio |-> DireccionFisica(p, d), n |-> n, hecho |-> 0, buf |-> Escrito(v, n), destino |-> 0]
           dir == Dir(d)
<1>1. acceso[a].fase = "lee"
  BY TiposDelAgente DEF IInv, AccesoOK, Activo
<1>2. /\ acceso' = [acceso EXCEPT ![a] = y] /\ Activo(y) /\ y.fase = "escribe" /\ y.hecho = 0
      /\ y.pid = p /\ y.instr = Escritura(d, n, v) /\ y.n = n /\ y.buf = Escrito(v, n)
  BY DEF Comienza, Pasa, Activo
<1>3. y.instr.hacia = dir /\ y.instr = Plana!Escritura(dir, n, v) /\ dir \in Ids \X Nat
  BY <1>2, EscrituraTipo, DireccionesValidas
<1> HIDE DEF y, dir
<1>4. /\ Contenido' = [Contenido EXCEPT ![p][dir[1]] = Plana!Pisado(@, dir[2], n, Escrito(v, n))]
      /\ Ultimo' = [Ultimo EXCEPT ![p] = Plana!Otro(@, Plana!Escritura(dir, n, v))]
  <2>1. /\ Contenido' = [Contenido EXCEPT ![y.pid][y.instr.hacia[1]] =
                            Plana!Pisado(@, y.instr.hacia[2], y.n, y.buf)]
        /\ Ultimo' = [Ultimo EXCEPT ![y.pid] = Plana!Otro(@, y.instr)]
    BY <1>1, <1>2, EmpiezaAEscribir
  <2> QED  BY <1>2, <1>3, <2>1
<1>5. ASSUME NEW segmento, DOMAIN segmento = 0..(Largo[p][dir[1]] - 1)
      PROVE  Plana!Pisado(segmento, dir[2], n, Escrito(v, n)) = Plana!Pisado(segmento, dir[2], n, Dato[v])
  <2>1. \A i \in DOMAIN segmento : dir[2] <= i /\ i < dir[2] + n => Escrito(v, n)[i - dir[2]] = Dato[v][i - dir[2]]
    <3>1. \A i \in DOMAIN segmento : dir[2] <= i /\ i < dir[2] + n => i - dir[2] \in 0..(n - 1)
      BY <1>3, <1>5, Segmentos
    <3> QED  BY <3>1 DEF Escrito
  <2> QED  BY <2>1 DEF Plana!Pisado
<1>6. Dentro(p, dir, n)
  BY DEF dir
<1>7. Plana!Cabe(p, dir, n)
  BY <1>3, <1>6, DireccionPlana
<1>8. Contenido' = [Contenido EXCEPT ![p][dir[1]] = Plana!Pisado(@, dir[2], n, Dato[v])]
  <2>1. DOMAIN (Contenido[p][dir[1]]) = 0..(Largo[p][dir[1]] - 1)
    BY <1>3 DEF Contenido
  <2>2. Plana!Pisado(Contenido[p][dir[1]], dir[2], n, Escrito(v, n)) = Plana!Pisado(Contenido[p][dir[1]], dir[2], n, Dato[v])
    BY <1>5, <2>1
  <2> QED  BY <1>4, <2>2
<1>9. Plana!Escribir(p, dir, n, v)
  BY <1>4, <1>7, <1>8 DEF Plana!Escribir, Plana!Hace
<1> QED  BY <1>3, <1>6, <1>9, PasoEscribir

\* A step of MemoriaPlana or none.
PasoPlano == Plana!Next \/ UNCHANGED Plana!vars

\* An instruction that fails or ends leaves its CPU with nothing to write.
LEMMA FasesDelComienzo ==
  ASSUME NEW c \in CPUs
  PROVE  /\ \A t, p : NoTraduce(c, p, t) => UNCHANGED acceso \/ \E y : Pasa(c, y) /\ y.fase = "lee"
         /\ Termina(c) => \E y : Pasa(c, y) /\ y.fase = "lee"
<1>1. [Libre EXCEPT !.pc = "fin"].fase = "lee"
  BY DEF Libre
<1> QED  BY <1>1 DEF NoTraduce, Termina

\* An access that starts by reading leaves its agent with nothing to write.
LEMMA FaseDeComienza ==
  ASSUME NEW a, NEW p, NEW instr, NEW d, NEW n, NEW buf, NEW destino,
         Comienza(a, p, instr, "lee", d, n, buf, destino)
  PROVE  \E y : Pasa(a, y) /\ y.fase = "lee"
<1> DEFINE y == [pc |-> "pide", pid |-> p, instr |-> instr, fase |-> "lee",
                 inicio |-> DireccionFisica(p, d), n |-> n, hecho |-> 0, buf |-> buf, destino |-> destino]
<1>1. Pasa(a, y) /\ y.fase = "lee"
  BY DEF Comienza
<1> HIDE DEF y
<1> QED  BY <1>1

\* An instruction that starts or is refused is a step of the abstract memory, or none.
LEMMA InstruccionPlana ==
  ASSUME IInv, IInv', NEW c \in CPUs, Instruccion(c)
  PROVE  PasoPlano
<1>1. c \in Agentes /\ acceso[c].pc = "libre" /\ UNCHANGED <<mem, leido, ultimo>>
  BY DEF Agentes, Instruccion, mov_in, mov_out, copy_mem, Puede
<1>2. CASE UNCHANGED acceso \/ \E y : Pasa(c, y) /\ y.fase = "lee"
  BY <1>1, <1>2, ComenzarALeer DEF PasoPlano
<1>3. ASSUME NEW p \in Procesos, NEW d \in Direcciones, NEW n \in TamRegistro, mov_in(c, p, d, n)
      PROVE  PasoPlano
  BY <1>2, <1>3, FasesDelComienzo, FaseDeComienza DEF mov_in
<1>4. ASSUME NEW p \in Procesos, NEW d \in Direcciones, NEW n \in TamRegistro, NEW v \in Valores,
             mov_out(c, p, d, n, v)
      PROVE  PasoPlano
  <2>1. CASE NoTraduce(c, p, memory_management_unit(p, d, n))
    BY <1>2, <2>1, FasesDelComienzo
  <2>2. CASE /\ memory_management_unit(p, d, n) = "OK"
             /\ Comienza(c, p, Escritura(d, n, v), "escribe", d, n, Escrito(v, n), 0)
    <3>1. n \in Nat /\ n < Modulo /\ Desplazamiento(d) + n < Modulo
      BY TamaniosValidos, DireccionesValidas, Palabra
    <3>2. Dentro(p, Dir(d), n)
      BY <2>2, <3>1, TraduceDentro
    <3> QED  BY <1>1, <2>2, <3>1, <3>2, ComenzarAEscribir DEF PasoPlano
  <2> QED  BY <1>4, <2>1, <2>2 DEF mov_out
<1>5. ASSUME NEW p \in Procesos, NEW o \in Direcciones, NEW d \in Direcciones, NEW n \in TamPedido,
             copy_mem(c, p, o, d, n)
      PROVE  PasoPlano
  BY <1>2, <1>5, FasesDelComienzo, FaseDeComienza DEF copy_mem
<1> QED  BY <1>3, <1>4, <1>5 DEF Instruccion

\* A STDIN that starts is a write of the abstract memory, and one refused changes nothing.
LEMMA StdinPlano ==
  ASSUME IInv, IInv', NEW p \in Procesos, NEW d \in Direcciones, NEW n \in TamPedido, NEW v \in Valores,
         atender_stdin(p, d, n, v)
  PROVE  PasoPlano
<1>1. /\ KM \in Agentes /\ acceso[KM].pc = "libre" /\ UNCHANGED <<mem, leido, ultimo>> /\ 2 * n < Modulo
  BY DEF Agentes, atender_stdin, Puede
<1>2. CASE UNCHANGED acceso
  BY <1>1, <1>2, ComenzarALeer DEF PasoPlano
<1>3. CASE /\ traducir_direccion(p, d, n) = "OK"
           /\ Comienza(KM, p, Escritura(d, n, v), "escribe", d, n, Escrito(v, n), 0)
  <2>1. n \in Nat /\ n < Modulo /\ Desplazamiento(d) + n < Modulo
    BY <1>1, TamaniosValidos, DireccionesValidas, Palabra
  <2>2. Dentro(p, Dir(d), n)
    BY <1>3, <2>1, TraduceDentro DEF traducir_direccion
  <2> QED  BY <1>1, <1>3, <2>1, <2>2, ComenzarAEscribir DEF PasoPlano
<1> QED  BY <1>2, <1>3 DEF atender_stdin

\* A STDOUT is a read of the abstract memory at once only when it asks for no bytes.
LEMMA StdoutPlano ==
  ASSUME IInv, IInv', NEW p \in Procesos, NEW d \in Direcciones, NEW n \in TamPedido, atender_stdout(p, d, n)
  PROVE  PasoPlano
<1>1. /\ KM \in Agentes /\ acceso[KM].pc = "libre" /\ UNCHANGED <<mem, pedido>>
      /\ \A b \in Agentes : acceso[b].pid # p
  BY DEF Agentes, atender_stdout, Puede
<1>2. CASE UNCHANGED <<acceso, leido, ultimo>>
  BY <1>1, <1>2, ComenzarALeer DEF PasoPlano
<1>3. CASE Comienza(KM, p, Lectura(d, n), "lee", d, n, Vacio(n), 0) /\ UNCHANGED <<leido, ultimo>>
  BY <1>1, <1>3, FaseDeComienza, ComenzarALeer DEF PasoPlano
<1>4. CASE /\ n = 0 /\ traducir_direccion(p, d, n) = "OK" /\ UNCHANGED acceso
           /\ leido' = [leido EXCEPT ![p] = Vacio(0)] /\ Cumplido(p, Lectura(d, n))
  <2> DEFINE dir == Dir(d)
  <2>1. dir \in Ids \X Nat /\ Lectura(d, n) = Plana!Lectura(dir, 0)
    BY <1>4, DireccionesValidas, LecturaTipo
  <2>2. Dentro(p, dir, 0)
    BY <1>4, TraduceDentro, DireccionesValidas, Palabra DEF traducir_direccion
  <2> HIDE DEF dir
  <2>3. Contenido' = Contenido
    BY <1>1, <1>4 DEF Contenido, Visto, Escribe, Cursor, Fisico
  <2>4. Ultimo' = [Ultimo EXCEPT ![p] = Plana!Otro(@, Plana!Lectura(dir, 0))]
    <3>1. ultimo' = [ultimo EXCEPT ![p] = [numero |-> @.numero + 1, instr |-> Plana!Lectura(dir, 0)]]
      BY <1>4, <2>1 DEF Cumplido
    <3>2. \A q \in Procesos : Escritores(q)' = Escritores(q)
      BY <1>4 DEF Escritores
    <3>3. Escritores(p) = {}
      BY <1>1 DEF Escritores
    <3>4. DOMAIN ultimo = Procesos
      BY DEF IInv, ResultadosOK
    <3>5. Ultimo'[p] = Plana!Otro(Ultimo[p], Plana!Lectura(dir, 0))
      BY <3>1, <3>2, <3>3, <3>4 DEF Ultimo, Plana!Otro
    <3>6. \A q \in Procesos : q # p => Ultimo'[q] = Ultimo[q]
      BY <1>4, <3>1, <3>2, <3>4 DEF Ultimo
    <3>7. Ultimo' = [q \in Procesos |-> Ultimo'[q]] /\ Ultimo = [q \in Procesos |-> Ultimo[q]]
      BY DEF Ultimo
    <3> QED  BY <3>5, <3>6, <3>7
  <2>5. Vacio(0) = Plana!Tramo(Contenido[p][dir[1]], dir[2], 0)
    BY DEF Vacio, Plana!Tramo
  <2>6. Plana!Leer(p, dir, 0)
    BY <1>4, <2>1, <2>2, <2>3, <2>4, <2>5, DireccionPlana DEF Plana!Leer, Plana!Hace
  <2> QED  BY <2>1, <2>2, <2>6, PasoLeer DEF PasoPlano
<1> QED  BY <1>2, <1>3, <1>4 DEF atender_stdout

\* To ask for a piece changes nothing in the abstract memory.
LEMMA EnviarPlano ==
  ASSUME IInv, IInv', NEW a \in Agentes, enviarTramo(a)
  PROVE  UNCHANGED Plana!vars
<1> DEFINE x == acceso[a]
           y == [x EXCEPT !.pc = "espera"]
<1>1. x.pc = "pide" /\ UNCHANGED <<mem, leido, ultimo>> /\ acceso' = [acceso EXCEPT ![a] = y]
  BY DEF enviarTramo, Pasa
<1>2. x \in Accesos
  BY TiposDelAgente DEF IInv
<1>3. Inmovil(x, y)
  BY <1>1, <1>2 DEF Inmovil, Activo, Accesos
<1> HIDE DEF y
<1> QED  BY <1>1, <1>3, NoSeVe

\* Only a read whose size the check wrapped for comes to the end of the memory.
LEMMA SinStickPlano ==
  ASSUME IInv, IInv', NEW a \in Agentes, sinStick(a)
  PROVE  UNCHANGED Plana!vars
<1> DEFINE x == acceso[a]
<1>1. x.pc = "pide" /\ UNCHANGED <<mem, leido, ultimo>> /\ Cursor(a) \notin 0..(MemoriaTotal - 1)
  BY StickDeDireccion DEF sinStick
<1>2. PICK y \in {Libre, [Libre EXCEPT !.pc = "fin"]} : acceso' = [acceso EXCEPT ![a] = y]
  BY DEF sinStick, Termina, Pasa
<1>3. y.fase = "lee"
  BY DEF Libre
<1>4. x.fase = "lee"
  <2>1. x \in Accesos /\ EnCurso(x) /\ x.hecho \in Nat /\ x.n \in Nat /\ x.fase \in {"lee", "escribe"}
    BY <1>1, TiposDelAgente DEF IInv
  <2>2. ASSUME x.fase = "escribe" PROVE FALSE
    <3>1. x.n <= MemoriaTotal /\ x.hecho \in 0..(x.n - 1)
      BY <2>1, <2>2 DEF EnCurso
    <3>2. x.inicio + x.hecho \in 0..(MemoriaTotal - 1)
      BY <2>1, <3>1, AccesoDentro
    <3> QED  BY <1>1, <3>2 DEF Cursor
  <2> QED  BY <2>1, <2>2
<1> QED  BY <1>1, <1>2, <1>3, <1>4, NoSeVe DEF Inmovil

\* The last accesses, when a write goes on.
LEMMA SigueLaEscritura ==
  ASSUME IInv, NEW a \in Agentes, NEW y, acceso' = [acceso EXCEPT ![a] = y], UNCHANGED ultimo,
         y.pid = acceso[a].pid, y.fase = acceso[a].fase, y.instr = acceso[a].instr
  PROVE  Ultimo' = Ultimo
<1>1. acceso'[a] = y /\ \A b \in Agentes : b # a => acceso'[b] = acceso[b]
  BY DEF IInv, AgentesOK
<1>2. \A b \in Agentes :
        acceso'[b].pid = acceso[b].pid /\ acceso'[b].fase = acceso[b].fase /\ acceso'[b].instr = acceso[b].instr
  BY <1>1
<1>3. ASSUME NEW p \in Procesos PROVE Ultimo'[p] = Ultimo[p]
  <2>1. Escritores(p)' = Escritores(p)
    BY <1>2 DEF Escritores
  <2>2. CASE Escritores(p) = {}
    BY <2>1, <2>2 DEF Ultimo
  <2>3. CASE Escritores(p) # {}
    <3>1. (CHOOSE b \in Escritores(p) : TRUE) \in Escritores(p)
      BY <2>3
    <3>2. (CHOOSE b \in Escritores(p) : TRUE) \in Agentes
      BY <3>1 DEF Escritores
    <3>3. /\ Ultimo'[p] = [numero |-> ultimo'[p].numero + 1,
                           instr |-> acceso'[CHOOSE b \in Escritores(p)' : TRUE].instr]
          /\ Ultimo[p] = [numero |-> ultimo[p].numero + 1,
                          instr |-> acceso[CHOOSE b \in Escritores(p) : TRUE].instr]
      BY <2>1, <2>3 DEF Ultimo
    <3> QED  BY <1>2, <2>1, <3>2, <3>3
  <2> QED  BY <2>2, <2>3
<1> QED  BY <1>3, UltimoIgual

\* The end of a read: it has what the programs see.
LEMMA TramoLeido ==
  ASSUME Configurado = 1, IInv, ContenidosOK, NEW a \in Agentes,
         acceso[a].pc = "espera", pedido[a].estado = "respondido", acceso[a].fase = "lee",
         acceso[a].hecho + pedido[a].cant = acceso[a].n
  PROVE  /\ acceso[a].pid \in Procesos /\ acceso[a].instr.dir \in Ids \X Nat /\ acceso[a].instr.hacia \in Ids \X Nat
         /\ acceso[a].n \in Nat /\ acceso[a].instr.n = acceso[a].n
         /\ Dentro(acceso[a].pid, acceso[a].instr.dir, acceso[a].n)
         /\ Dentro(acceso[a].pid, acceso[a].instr.hacia, acceso[a].n)
         /\ Recibe(acceso[a], pedido[a]) =
              Plana!Tramo(Contenido[acceso[a].pid][acceso[a].instr.dir[1]], acceso[a].instr.dir[2], acceso[a].n)
<1> DEFINE x == acceso[a]
           r == pedido[a]
           p == x.pid
           id == x.instr.dir[1]
           d == x.instr.dir[2]
<1>1. /\ x \in Accesos /\ EnCurso(x) /\ x.n \in Nat /\ x.hecho \in Nat /\ r.cant \in Nat /\ x.inicio \in Nat
      /\ DOMAIN x.buf = 0..(x.n - 1)
  BY TiposDelAgente DEF IInv
<1>2. x.n <= MemoriaTotal
  <2>1. x.inicio + x.hecho + r.cant <= MemoriaTotal
    BY Recibido DEF IInv
  <2> HIDE DEF x, r
  <2> QED  BY <1>1, <2>1, TiposSticks DEF x, r
<1>3. /\ p \in Procesos /\ x.instr.dir \in Ids \X Nat /\ x.instr.hacia \in Ids \X Nat /\ id \in Ids /\ d \in Nat
      /\ x.instr.n = x.n /\ x.inicio = Base[p][id] + d
      /\ Dentro(p, x.instr.dir, x.n) /\ Dentro(p, x.instr.hacia, x.n) /\ d + x.n <= Largo[p][id]
      /\ Base[p][id] \in Nat /\ Largo[p][id] \in Nat
  <2>1. /\ p \in Procesos /\ x.instr.dir \in Ids \X Nat /\ x.instr.hacia \in Ids \X Nat /\ id \in Ids /\ d \in Nat
        /\ x.instr.n = x.n
    BY <1>1 DEF EnCurso, Instrucciones
  <2>2. x.inicio = Base[p][id] + d /\ Dentro(p, x.instr.dir, x.n) /\ Dentro(p, x.instr.hacia, x.n)
    BY <1>1, <1>2 DEF EnCurso, Fisica
  <2>3. d + x.n <= Largo[p][id]
    BY <2>2 DEF Dentro
  <2> QED  BY <2>1, <2>2, <2>3, Segmentos
<1>4. ASSUME NEW i \in 0..(x.n - 1)
      PROVE  Recibe(x, r)[i] = Contenido[p][id][d + i]
  <2> DEFINE g == x.inicio + i
  <2>1. Recibe(x, r)[i] = Fisico(g)
    <3>1. x.hecho + r.cant = x.n
      OBVIOUS
    <3>2. x.hecho + r.cant - 1 = x.n - 1
      <4> HIDE DEF x, r
      <4> QED  BY <1>1, <3>1
    <3>3. i \in 0..(x.hecho + r.cant - 1)
      BY <3>2
    <3> QED  BY <1>2, <3>3, BufferLeido
  <2>2. EsByte(p, id, g) /\ g \in Nat
    BY <1>1, <1>2, AccesoDentro DEF EsByte
  <2>3. d + i \in 0..(Largo[p][id] - 1) /\ Base[p][id] + (d + i) = g
    <3>1. i \in Nat /\ i < x.n
      BY <1>1
    <3>2. x.inicio = Base[p][id] + d /\ d + x.n <= Largo[p][id]
      BY <1>3
    <3>3. d \in Nat /\ x.n \in Nat /\ Base[p][id] \in Nat /\ Largo[p][id] \in Nat
      BY <1>1, <1>3
    <3> HIDE DEF x, p, id, d
    <3> QED  BY <3>1, <3>2, <3>3
  <2> HIDE DEF g
  <2>4. \A b \in Agentes : ~Escribe(b, g)
    <3>1. ASSUME NEW b \in Agentes, Escribe(b, g) PROVE FALSE
      <4>1. acceso[b].pid = p
        <5>1. UnEscritor
          BY UnSoloEscritor
        <5>2. p \in Procesos /\ id \in Ids
          BY <1>3
        <5> HIDE DEF x, p, id, d
        <5> QED  BY <2>2, <3>1, <5>1, <5>2 DEF UnEscritor
      <4>2. \A c \in Agentes : acceso[c].pid = acceso[a].pid /\ acceso[c].pid \in Procesos => c = a
        BY DEF IInv, AgentesOK
      <4>3. b = a
        BY <1>3, <4>1, <4>2, Zenon
      <4> QED  BY <3>1, <4>3 DEF Escribe
    <3> QED  BY <3>1
  <2>5. Visto(g) = Fisico(g)
    BY <1>3, <2>2, <2>4, LoVisto DEF VistoEs
  <2>6. Contenido[p][id][d + i] = Visto(Base[p][id] + (d + i))
    BY <1>3, <2>3 DEF Contenido
  <2> QED  BY <2>1, <2>3, <2>5, <2>6
<1>5. Recibe(x, r) = [i \in 0..(x.n - 1) |-> Recibe(x, r)[i]]
  BY <1>1 DEF Recibe
<1>6. Recibe(x, r) = [i \in 0..(x.n - 1) |-> Contenido[p][id][d + i]]
  <2> HIDE DEF x, r, p, id, d
  <2> QED  BY <1>4, <1>5
<1>7. Recibe(x, r) = Plana!Tramo(Contenido[p][id], d, x.n)
  BY <1>6 DEF Plana!Tramo
<1> QED  BY <1>1, <1>3, <1>7

\* An access goes on with its next piece: what a writer has written is in the memory.
LEMMA RecibirSigue ==
  ASSUME Configurado = 1, IInv, IInv', ContenidosOK, NEW a \in Agentes,
         acceso[a].pc = "espera", pedido[a].estado = "respondido", UNCHANGED <<mem, leido, ultimo>>,
         acceso[a].hecho + pedido[a].cant < acceso[a].n,
         Pasa(a, [acceso[a] EXCEPT !.pc = "pide", !.hecho = acceso[a].hecho + pedido[a].cant,
                                   !.buf = Recibe(acceso[a], pedido[a])])
  PROVE  UNCHANGED Plana!vars
<1> DEFINE x == acceso[a]
           r == pedido[a]
           y == [x EXCEPT !.pc = "pide", !.hecho = x.hecho + r.cant, !.buf = Recibe(x, r)]
<1>1. /\ x \in Accesos /\ EnCurso(x) /\ x.n \in Nat /\ x.hecho \in Nat /\ r.cant \in Nat /\ x.inicio \in Nat
      /\ x.fase \in {"lee", "escribe"} /\ r.orden = x.fase /\ x.hecho + r.cant <= x.n
  BY PedidoEnviado, TiposDelAgente DEF IInv
<1>2. /\ y.pid = x.pid /\ y.fase = x.fase /\ y.instr = x.instr /\ y.inicio = x.inicio /\ y.n = x.n
      /\ y.hecho = x.hecho + r.cant /\ y.buf = Recibe(x, r) /\ y.pc = "pide"
  BY <1>1 DEF Accesos
<1>3. acceso' = [acceso EXCEPT ![a] = y] /\ acceso'[a] = y
  BY DEF Pasa, IInv, AgentesOK
<1> HIDE DEF y
<1>4. CASE x.fase = "lee"
  BY <1>2, <1>3, <1>4, NoSeVe DEF Inmovil
<1>5. CASE x.fase = "escribe"
  <2>1. y.buf = x.buf /\ x.n <= MemoriaTotal
    BY <1>1, <1>2, <1>5 DEF Recibe, EnCurso
  <2>2. \A i \in 0..(r.cant - 1) : Fisico(x.inicio + x.hecho + i) = x.buf[x.hecho + i]
    BY <1>1, <1>5, <2>1 DEF ContenidosOK, Respondidos
  <2>3. ASSUME NEW g \in Nat
        PROVE  /\ Escribe(a, g) <=> x.inicio + x.hecho <= g /\ g < x.inicio + x.n
               /\ Escribe(a, g)' <=> x.inicio + (x.hecho + r.cant) <= g /\ g < x.inicio + x.n
    BY <1>2, <1>3, <1>5 DEF Escribe, Cursor
  <2>4. \A g \in Nat : Escribe(a, g)' => Escribe(a, g) /\ y.buf[g - y.inicio] = x.buf[g - x.inicio]
    <3> HIDE DEF x, r
    <3> QED  BY <1>1, <1>2, <2>1, <2>3
  <2>5. ASSUME NEW g \in Nat, Escribe(a, g), ~(Escribe(a, g)') PROVE Fisico(g) = x.buf[g - x.inicio]
    <3> DEFINE i == g - (x.inicio + x.hecho)
    <3>1. i \in 0..(r.cant - 1) /\ x.inicio + x.hecho + i = g /\ x.hecho + i = g - x.inicio
      <4> HIDE DEF x, r
      <4> QED  BY <1>1, <2>3, <2>5
    <3> HIDE DEF i
    <3> QED  BY <2>2, <3>1
  <2>6. Contenido' = Contenido
    BY <1>3, <2>4, <2>5, AvanzaLaEscritura
  <2>7. Ultimo' = Ultimo
    BY <1>2, <1>3, SigueLaEscritura
  <2> QED  BY <2>6, <2>7 DEF Plana!vars
<1> QED  BY <1>1, <1>4, <1>5

\* A COPY_MEM has read all its bytes and goes on to write: the programs see it as made.
LEMMA RecibirCopia ==
  ASSUME Configurado = 1, IInv, IInv', ContenidosOK, NEW a \in Agentes,
         acceso[a].pc = "espera", pedido[a].estado = "respondido", UNCHANGED <<mem, leido, ultimo>>,
         acceso[a].hecho + pedido[a].cant = acceso[a].n, acceso[a].fase = "lee", acceso[a].instr.op = "copia",
         Pasa(a, [acceso[a] EXCEPT !.pc = "pide", !.fase = "escribe", !.inicio = acceso[a].destino,
                                   !.hecho = 0, !.buf = Recibe(acceso[a], pedido[a])])
  PROVE  Plana!Next
<1> DEFINE x == acceso[a]
           r == pedido[a]
           p == x.pid
           dir == x.instr.dir
           hacia == x.instr.hacia
           y == [x EXCEPT !.pc = "pide", !.fase = "escribe", !.inicio = x.destino, !.hecho = 0, !.buf = Recibe(x, r)]
<1>1. x \in Accesos /\ EnCurso(x)
  BY TiposDelAgente DEF IInv
<1>2. /\ y.pid = p /\ y.fase = "escribe" /\ y.instr = x.instr /\ y.n = x.n
      /\ y.hecho = 0 /\ y.buf = Recibe(x, r) /\ y.pc = "pide"
  BY <1>1 DEF Accesos
<1>3. acceso' = [acceso EXCEPT ![a] = y]
  BY DEF Pasa
<1>4. x.instr = Plana!Copia(dir, hacia, x.n)
  BY <1>1 DEF EnCurso, Plana!Lectura, Plana!Escritura
<1>5. /\ p \in Procesos /\ dir \in Ids \X Nat /\ hacia \in Ids \X Nat /\ x.n \in Nat
      /\ Dentro(p, dir, x.n) /\ Dentro(p, hacia, x.n)
      /\ Recibe(x, r) = Plana!Tramo(Contenido[p][dir[1]], dir[2], x.n)
  BY TramoLeido
<1> HIDE DEF y
<1>6. /\ Contenido' = [Contenido EXCEPT ![y.pid][y.instr.hacia[1]] =
                         Plana!Pisado(@, y.instr.hacia[2], y.n, y.buf)]
      /\ Ultimo' = [Ultimo EXCEPT ![y.pid] = Plana!Otro(@, y.instr)]
  BY <1>2, <1>3, EmpiezaAEscribir DEF Activo
<1>7. /\ Contenido' = [Contenido EXCEPT ![p][hacia[1]] =
                         Plana!Pisado(@, hacia[2], x.n, Plana!Tramo(Contenido[p][dir[1]], dir[2], x.n))]
      /\ Ultimo' = [Ultimo EXCEPT ![p] = Plana!Otro(@, Plana!Copia(dir, hacia, x.n))]
  BY <1>2, <1>4, <1>5, <1>6
<1>8. Plana!Cabe(p, dir, x.n) /\ Plana!Cabe(p, hacia, x.n)
  BY <1>5, DireccionPlana
<1>9. Plana!Copiar(p, dir, hacia, x.n)
  BY <1>7, <1>8 DEF Plana!Copiar, Plana!Hace
<1> HIDE DEF x, p, dir, hacia
<1> QED  BY <1>5, <1>9, PasoCopiar

\* A read ends: it is seen as made now.
LEMMA RecibirFinDeLectura ==
  ASSUME Configurado = 1, IInv, IInv', ContenidosOK, NEW a \in Agentes,
         acceso[a].pc = "espera", pedido[a].estado = "respondido", UNCHANGED mem,
         acceso[a].hecho + pedido[a].cant = acceso[a].n, acceso[a].fase = "lee", acceso[a].instr.op # "copia",
         Pasa(a, Libre), Cumplido(acceso[a].pid, acceso[a].instr),
         leido' = [leido EXCEPT ![acceso[a].pid] = Recibe(acceso[a], pedido[a])]
  PROVE  Plana!Next
<1> DEFINE x == acceso[a]
           r == pedido[a]
           p == x.pid
           dir == x.instr.dir
<1>1. x \in Accesos /\ EnCurso(x)
  BY TiposDelAgente DEF IInv
<1>2. x.instr = Plana!Lectura(dir, x.n)
  BY <1>1 DEF EnCurso, Plana!Copia
<1>3. /\ p \in Procesos /\ dir \in Ids \X Nat /\ x.n \in Nat /\ Dentro(p, dir, x.n)
      /\ Recibe(x, r) = Plana!Tramo(Contenido[p][dir[1]], dir[2], x.n)
  BY TramoLeido
<1>4. acceso' = [acceso EXCEPT ![a] = Libre] /\ Inmovil(x, Libre)
  BY DEF Pasa, Inmovil, Libre
<1>5. Contenido' = Contenido
  BY <1>4, MismaVista
<1>6. Ultimo' = [Ultimo EXCEPT ![p] = Plana!Otro(@, Plana!Lectura(dir, x.n))]
  <2>1. /\ ultimo' = [ultimo EXCEPT ![p] = [numero |-> @.numero + 1, instr |-> Plana!Lectura(dir, x.n)]]
        /\ DOMAIN ultimo = Procesos
    BY <1>2 DEF Cumplido, IInv, ResultadosOK
  <2>2. Ultimo'[p] = ultimo'[p] /\ Ultimo[p] = ultimo[p]
    BY <1>3, <1>4, MismosUltimos
  <2>3. Ultimo'[p] = Plana!Otro(Ultimo[p], Plana!Lectura(dir, x.n))
    BY <1>3, <2>1, <2>2 DEF Plana!Otro
  <2>4. ASSUME NEW q \in Procesos, q # p PROVE Ultimo'[q] = Ultimo[q]
    <3>1. ultimo'[q] = ultimo[q]
      BY <2>1, <2>4
    <3> QED  BY <1>4, <3>1, MismosUltimos
  <2>5. /\ Ultimo' = [q \in Procesos |-> Ultimo'[q]]
        /\ Ultimo = [q \in Procesos |-> Ultimo[q]]
    BY DEF Ultimo
  <2> HIDE DEF x, p, dir
  <2> QED  BY <2>3, <2>4, <2>5
<1>7. Plana!Cabe(p, dir, x.n)
  BY <1>3, DireccionPlana
<1>8. leido' = [leido EXCEPT ![p] = Plana!Tramo(Contenido[p][dir[1]], dir[2], x.n)]
  BY <1>3
<1>9. Plana!Leer(p, dir, x.n)
  BY <1>5, <1>6, <1>7, <1>8 DEF Plana!Leer, Plana!Hace
<1> HIDE DEF x, p, dir
<1> QED  BY <1>3, <1>9, PasoLeer

\* A write ends: it was seen as made since it began.
LEMMA RecibirFinDeEscritura ==
  ASSUME Configurado = 1, IInv, IInv', ContenidosOK, NEW a \in Agentes,
         acceso[a].pc = "espera", pedido[a].estado = "respondido", UNCHANGED <<mem, leido>>,
         acceso[a].hecho + pedido[a].cant = acceso[a].n, acceso[a].fase = "escribe",
         Pasa(a, Libre), Cumplido(acceso[a].pid, acceso[a].instr)
  PROVE  UNCHANGED Plana!vars
<1> DEFINE x == acceso[a]
           r == pedido[a]
           p == x.pid
<1>1. /\ x \in Accesos /\ EnCurso(x) /\ x.n \in Nat /\ x.hecho \in Nat /\ r.cant \in Nat /\ x.inicio \in Nat
      /\ r.orden = "escribe"
  BY PedidoEnviado, TiposDelAgente DEF IInv
<1>2. p \in Procesos /\ x.n <= MemoriaTotal
  BY <1>1 DEF EnCurso
<1>3. /\ acceso' = [acceso EXCEPT ![a] = Libre] /\ acceso'[a] = Libre
      /\ \A b \in Agentes : b # a => acceso'[b] = acceso[b]
  BY DEF Pasa, IInv, AgentesOK
<1>4. \A i \in 0..(r.cant - 1) : Fisico(x.inicio + x.hecho + i) = x.buf[x.hecho + i]
  BY <1>1, <1>2 DEF ContenidosOK, Respondidos
<1>5. \A g \in Nat : ~(Escribe(a, g)')
  BY <1>3 DEF Escribe, Libre
<1>6. ASSUME NEW g \in Nat, Escribe(a, g) PROVE Fisico(g) = x.buf[g - x.inicio]
  <2> DEFINE i == g - (x.inicio + x.hecho)
  <2>1. x.inicio + x.hecho <= g /\ g < x.inicio + x.n
    BY <1>6 DEF Escribe, Cursor
  <2>2. i \in 0..(r.cant - 1) /\ x.inicio + x.hecho + i = g /\ x.hecho + i = g - x.inicio
    <3>1. x.n = x.hecho + r.cant
      OBVIOUS
    <3> HIDE DEF x, r
    <3> QED  BY <1>1, <2>1, <3>1
  <2> HIDE DEF i
  <2> QED  BY <1>4, <2>2
<1>7. Contenido' = Contenido
  BY <1>3, <1>5, <1>6, AvanzaLaEscritura
<1>8. UltimoEs /\ UltimoEs'
  BY LoUltimo, PTL
<1>9. /\ ultimo' = [ultimo EXCEPT ![p] = [numero |-> @.numero + 1, instr |-> x.instr]]
      /\ DOMAIN ultimo = Procesos
  BY DEF Cumplido, IInv, ResultadosOK
<1>10. ASSUME NEW q \in Procesos PROVE Ultimo'[q] = Ultimo[q]
  <2>1. CASE q = p
    <3>1. Ultimo[p] = [numero |-> ultimo[p].numero + 1, instr |-> x.instr]
      BY <1>2, <1>8 DEF UltimoEs
    <3>2. \A b \in Agentes : ~(acceso'[b].pid = p /\ acceso'[b].fase = "escribe")
      BY <1>2, <1>3 DEF Libre, IInv, AgentesOK
    <3>3. Ultimo'[p] = ultimo'[p]
      BY <1>2, <1>8, <3>2 DEF UltimoEs
    <3> QED  BY <1>2, <1>9, <2>1, <3>1, <3>3
  <2>2. CASE q # p
    <3>1. Escritores(q)' = Escritores(q)
      <4>1. a \notin Escritores(q) /\ a \notin Escritores(q)'
        BY <1>3, <2>2 DEF Escritores, Libre
      <4> QED  BY <1>3, <4>1 DEF Escritores
    <3>2. \A b \in Escritores(q) : acceso'[b] = acceso[b]
      BY <1>3, <2>2 DEF Escritores
    <3>3. Escritores(q) # {} => (CHOOSE b \in Escritores(q) : TRUE) \in Escritores(q)
      OBVIOUS
    <3>4. ultimo'[q] = ultimo[q]
      BY <1>9, <2>2
    <3> QED  BY <3>1, <3>2, <3>3, <3>4 DEF Ultimo
  <2> QED  BY <2>1, <2>2
<1>11. Ultimo' = Ultimo
  BY <1>10, UltimoIgual
<1> QED  BY <1>7, <1>11 DEF Plana!vars

\* The last piece of a read is the read of the abstract memory, and so for a copy.
LEMMA RecibirPlano ==
  ASSUME Configurado = 1, IInv, IInv', ContenidosOK, NEW a \in Agentes, recibirTramo(a)
  PROVE  PasoPlano
BY CasosDeRecibir, RecibirSigue, RecibirCopia, RecibirFinDeLectura, RecibirFinDeEscritura DEF PasoPlano

\* The initial states are those of the abstract memory.
LEMMA InicioPlano == Init => Plana!Init
<1> SUFFICES ASSUME Init PROVE Plana!Init
  OBVIOUS
<1>1. \A a \in Agentes : acceso[a] = Libre
  BY DEF Init
<1>2. ASSUME NEW g \in 0..(MemoriaTotal - 1) PROVE Visto(g) = Inicial
  <2>1. \A a \in Agentes : ~Escribe(a, g)
    BY <1>1 DEF Escribe, Libre
  <2>2. Visto(g) = Fisico(g)
    BY <2>1 DEF Visto
  <2> DEFINE s == stick_de_direccion[g]
  <2>3. s \in Sticks /\ g - BaseStick[s] \in 0..(TamStick[s] - 1)
    BY StickDeDireccion, TiposSticks DEF Contiene
  <2>4. Fisico(g) = mem[s][g - BaseStick[s]]
    BY DEF Fisico
  <2> HIDE DEF s
  <2>5. mem[s][g - BaseStick[s]] = Inicial
    BY <2>3 DEF Init
  <2> QED  BY <2>2, <2>4, <2>5
<1>3. Contenido = [p \in Procesos |-> [id \in Ids |-> [i \in 0..(Largo[p][id] - 1) |-> Inicial]]]
  BY <1>2, ByteDeSegmento DEF Contenido
<1>4. Ultimo = [p \in Procesos |-> [numero |-> 0, instr |-> Nadie]]
  <2>1. \A p \in Procesos : Escritores(p) = {}
    BY <1>1 DEF Escritores, Libre
  <2>2. \A p \in Procesos : Ultimo[p] = [numero |-> 0, instr |-> Nadie]
    BY <2>1 DEF Ultimo, Init
  <2>3. Ultimo = [p \in Procesos |-> Ultimo[p]]
    BY DEF Ultimo
  <2> QED  BY <2>2, <2>3
<1> QED  BY <1>3, <1>4 DEF Plana!Init, Init

\* Every step is a step of the abstract memory, or changes nothing in it.
LEMMA PasoMemoriaPlana ==
  ASSUME Configurado = 1, IInv, IInv', CInv, [Next]_vars
  PROVE  [Plana!Next]_Plana!vars
<1>1. ContenidosOK
  BY DEF CInv
<1>2. ASSUME NEW c \in CPUs, Instruccion(c) PROVE PasoPlano
  BY <1>2, InstruccionPlana
<1>3. ASSUME IOdeProceso PROVE PasoPlano
  BY <1>3, StdinPlano, StdoutPlano DEF IOdeProceso
<1>4. ASSUME NEW a \in Agentes, Acceso(a) PROVE PasoPlano
  BY <1>1, <1>4, EnviarPlano, SinStickPlano, RecibirPlano DEF Acceso, PasoPlano
<1>5. ASSUME NEW a \in Agentes, atenderPedido(a) PROVE PasoPlano
  BY <1>5, AtenderNoSeVe DEF PasoPlano
<1>6. ASSUME UNCHANGED vars PROVE PasoPlano
  <2>1. UNCHANGED Plana!vars
    BY <1>6 DEF vars, Plana!vars, Contenido, Visto, Escribe, Cursor, Fisico, Ultimo, Escritores
  <2> QED  BY <2>1 DEF PasoPlano
<1> QED  BY <1>2, <1>3, <1>4, <1>5, <1>6 DEF Next, PasoPlano

\* However the accesses of CPUs and Kernel Memory are split over the sticks and interleaved
\* there, the programs have the memory of MemoriaPlana: each access that ends reads or writes
\* all of its bytes as if at once, and no others (memory_management_unit, lectura_ms and
\* escritura_ms of the CPU; traducir_direccion, leer_memoria_fisica and
\* escribir_memoria_fisica of Kernel Memory; the threads of the sticks).
THEOREM ImplementaLaMemoriaPlana ==
  ASSUME Configurado = 1
  PROVE  Spec => ImplementaMemoriaPlana
<1>1. Init => Plana!Init
  BY InicioPlano
<1>2. IInv /\ IInv' /\ CInv /\ [Next]_vars => [Plana!Next]_Plana!vars
  BY PasoMemoriaPlana
<1>3. Spec => [](NadaSePierde /\ ContenidosOK)
  BY NingunPedidoSePierde
<1> QED  BY <1>1, <1>2, <1>3, AccesosCoherentes, PTL DEF Spec, ImplementaMemoriaPlana, Plana!Spec, CInv

=============================================================================
