---------------------------- MODULE KernelMemory ----------------------------
(***************************************************************************)
(* Kernel Memory: the holes of the user memory, the segment tables, the    *)
(* swap and the compaction (kernel_memory/src/managers, compactacion and   *)
(* handlers).                                                              *)
(*                                                                         *)
(* One thread serves the Kernel Scheduler, a request at a time; a step is  *)
(* one iteration of its loops, one answer of the swap, or one message of   *)
(* the compaction dialogue.  Each Memory Stick connects in a thread of its *)
(* own, and nothing locks the structures both use.  Lists sorted by base   *)
(* are sets of records; the order of a segment table or of the list of     *)
(* swapped segments is left open.                                          *)
(***************************************************************************)
EXTENDS Integers, FiniteSets, FiniteSetsExt

CONSTANTS
  Procesos,            \* the PIDs
  Ninguno,             \* no PID, no answer, no content
  Ids,                 \* segment numbers
  Tamanios,            \* sizes a program asks for
  Sticks,              \* the Memory Sticks
  Tamanio,             \* bytes of each stick
  Estrategia,          \* ALLOCATION_STRATEGY: "BEST" or "WORST"
  Bloques,             \* cantidad_bloques_swap
  TamanioBloque,       \* swap_block_size
  MaxFallas,           \* bound: writes the swap answers with an error
  MaxEscritos,         \* bound: segments with data written by a program at a time
  ConexionEnCaliente   \* may a stick connect while a request is served?

ASSUME KernelMemoryAssumption ==
  /\ Ninguno \notin Procesos \cup Ids
  /\ Tamanios \subseteq Nat
  /\ Tamanio \in [Sticks -> Nat]
  /\ Estrategia \in {"BEST", "WORST"}
  /\ Bloques \in Nat /\ MaxFallas \in Nat /\ MaxEscritos \in Nat
  /\ TamanioBloque \in Nat
  /\ ConexionEnCaliente \in BOOLEAN

VARIABLES
  total,      \* memoria_total
  huecos,     \* huecos_libres
  sticks,     \* memory_sticks: how far conectar_memory_stick got, and base_global
  vivos,      \* keys of procesos_por_pid
  tabla,      \* tabla_segmentos of each process
  enSwap,     \* segmentos_guardados_en_swap
  bitmap,     \* bitmap_swap: the blocks in use
  swapVivo,   \* the SWAP module still serves requests
  km,         \* the thread of the scheduler: pc, request and locals
  memoria,    \* contents of the sticks: who wrote each byte
  disco,      \* contents of the swap blocks
  escritos,   \* segments a program has written and not freed
  fallas,     \* writes that failed so far
  compactado  \* has there been a compaction?

espacio == <<total, huecos, sticks>>
enTablas == <<vivos, tabla>>
swap == <<enSwap, bitmap, swapVivo, disco, fallas>>
vars == <<espacio, enTablas, swap, km, memoria, escritos, compactado>>

Hueco == [base : Nat, tam : Nat \ {0}]
Segmento == [id : Ids, base : Nat, tam : Nat \ {0}]
SegmentoSwap == [pid : Procesos, id : Ids, tam : Nat \ {0}, bloque : Nat]
\* The bytes of the sticks that were counted.
Celdas == 0..(total - 1)
Contenido == (Procesos \X Ids) \cup {Ninguno}

KMLibre == [pc |-> "libre", pid |-> Ninguno, id |-> Ninguno, tam |-> 0, cursor |-> 0, pend |-> {}]

Init ==
  /\ total = 0 /\ huecos = {}
  /\ sticks = [k \in Sticks |-> [pc |-> "fuera", base |-> 0]]
  /\ vivos = {} /\ tabla = [p \in Procesos |-> {}]
  /\ enSwap = {} /\ bitmap = {} /\ swapVivo = TRUE /\ fallas = 0
  /\ disco = [b \in 0..(Bloques - 1) |-> [i \in 0..(TamanioBloque - 1) |-> Ninguno]]
  /\ km = KMLibre
  /\ memoria = [d \in Celdas |-> Ninguno]
  /\ escritos = {} /\ compactado = FALSE

-----------------------------------------------------------------------------
(* Holes.                                                                   *)

Fin(b) == b.base + b.tam

\* Mutation: the new hole only joins the one on its left.
registrar_hueco_izquierda(hs, base, tam) ==
  LET izquierda == {h \in hs : Fin(h) = base}
      desde == IF izquierda = {} THEN base ELSE (CHOOSE h \in izquierda : TRUE).base
  IN  IF tam = 0 THEN hs
      ELSE (hs \ izquierda) \cup {[base |-> desde, tam |-> base + tam - desde]}

\* registrar_hueco: the new hole joins the ones it touches on either side.
registrar_hueco(hs, base, tam) ==
  LET izquierda == {h \in hs : Fin(h) = base}
      derecha   == {h \in hs : h.base = base + tam}
      desde == IF izquierda = {} THEN base ELSE (CHOOSE h \in izquierda : TRUE).base
      hasta == IF derecha = {} THEN base + tam ELSE Fin(CHOOSE h \in derecha : TRUE)
  IN  IF tam = 0 THEN hs
      ELSE (hs \ (izquierda \cup derecha)) \cup {[base |-> desde, tam |-> hasta - desde]}

\* Is h found before g by the strategy?  Both scans keep the first of equals.
Preferido(h, g) ==
  \/ h.tam = g.tam /\ h.base <= g.base
  \/ Estrategia = "BEST" /\ h.tam < g.tam
  \/ Estrategia = "WORST" /\ h.tam > g.tam

\* The hole for n bytes, as a set of at most one.
buscar_hueco_candidato(n) ==
  LET entran == {h \in huecos : h.tam >= n}
  IN  {h \in entran : \A g \in entran : Preferido(h, g)}

\* Mutation: an exhausted hole stays in the list.
Reservado_cero(h, n) == (huecos \ {h}) \cup {[base |-> h.base + n, tam |-> h.tam - n]}
\* Mutation: the rest of the hole is forgotten.
Reservado_entero(h, n) == huecos \ {h}

\* reservar_espacio takes the front of the hole.
Reservado(h, n) ==
  (huecos \ {h}) \cup
    (IF h.tam = n THEN {} ELSE {[base |-> h.base + n, tam |-> h.tam - n]})

\* The bytes of a block that is freed count as never written.
Olvidada(b) ==
  [d \in DOMAIN memoria |-> IF b.base <= d /\ d < Fin(b) THEN Ninguno ELSE memoria[d]]

obtener_memoria_libre_total == MapThenSumSet(LAMBDA h : h.tam, huecos)
hay_hueco_contiguo(n) == buscar_hueco_candidato(n) # {}
\* Mutation: the size of the memory instead of what is free.
requiere_compactacion_total(n) == total >= n /\ ~hay_hueco_contiguo(n)
requiere_compactacion(n) == obtener_memoria_libre_total >= n /\ ~hay_hueco_contiguo(n)

-----------------------------------------------------------------------------
(* Memory Sticks: conectar_memory_stick grows the memory and then registers  *)
(* the hole, while the scheduler's thread may be doing anything.             *)

conectar_memory_stick(k) ==
  /\ sticks[k].pc = "fuera"
  /\ \/ ConexionEnCaliente
     \/ km.pc = "libre" /\ \A j \in Sticks : sticks[j].pc # "sumado"
  /\ sticks' = [sticks EXCEPT ![k] = [pc |-> "sumado", base |-> total]]
  /\ total' = total + Tamanio[k]
  /\ memoria' = [d \in Celdas' |-> IF d \in Celdas THEN memoria[d] ELSE Ninguno]
  /\ UNCHANGED <<huecos, enTablas, swap, km, escritos, compactado>>

registrarHuecoDeStick(k) ==
  /\ sticks[k].pc = "sumado"
  /\ sticks' = [sticks EXCEPT ![k].pc = "listo"]
  /\ huecos' = registrar_hueco(huecos, sticks[k].base, Tamanio[k])
  /\ UNCHANGED <<total, enTablas, swap, km, memoria, escritos, compactado>>

-----------------------------------------------------------------------------
(* Requests.  Programs ask for memory and are suspended while all their      *)
(* segments are in memory, and only a process in the swap is resumed.       *)

Atiende(p) ==
  /\ km.pc = "libre"
  /\ ConexionEnCaliente \/ (\A k \in Sticks : sticks[k].pc # "sumado")
  /\ p \in vivos
Sigue(pc, p, id, n) ==
  km' = [KMLibre EXCEPT !.pc = pc, !.pid = p, !.id = id, !.tam = n]
\* The answer itself is left out: what matters is what was done.
Termina(r) == km' = KMLibre

DeSwap(p) == {e \in enSwap : e.pid = p}
Tiene(p, id) == \E s \in tabla[p] : s.id = id

\* A PID that was destroyed stands for a new one.
crear_proceso(p) ==
  /\ km.pc = "libre" /\ p \notin vivos
  /\ \/ vivos' = vivos \cup {p} /\ Termina("OK")
     \/ vivos' = vivos /\ Termina("ERROR")        \* its file cannot be read
  /\ UNCHANGED <<espacio, tabla, swap, memoria, escritos, compactado>>

\* The ends of crear_segmento, but for the compaction.
CreaEn(h, p, id, n) ==
  /\ huecos' = Reservado(h, n)
  /\ tabla' = [tabla EXCEPT ![p] = @ \cup {[id |-> id, base |-> h.base, tam |-> n]}]
  /\ Termina("OK")
NoCrea(r) == Termina(r) /\ UNCHANGED <<huecos, tabla>>

crear_segmento(p, id, n) ==
  \/ (n = 0 \/ Tiene(p, id)) /\ NoCrea("ERROR")
  \/ /\ n > 0 /\ ~Tiene(p, id)
     /\ \E h \in buscar_hueco_candidato(n) : CreaEn(h, p, id, n)
  \/ /\ n > 0 /\ ~Tiene(p, id)
     /\ ~hay_hueco_contiguo(n) /\ ~requiere_compactacion(n)
     /\ NoCrea("SIN_MEMORIA")

\* MSG_MEM_ALLOC: an answer, or a compaction the scheduler must agree to.
mem_alloc(p, id, n) ==
  /\ Atiende(p) /\ DeSwap(p) = {}
  /\ \/ crear_segmento(p, id, n)
     \/ /\ n > 0 /\ ~Tiene(p, id) /\ requiere_compactacion(n)
        /\ Sigue("desalojo", p, id, n)
        /\ UNCHANGED <<huecos, tabla>>
  /\ UNCHANGED <<total, sticks, vivos, swap, memoria, escritos, compactado>>

\* Mutation: only the segments of the process that asked.
obtener_todos_delQuePide == {[pid |-> km.pid, seg |-> s] : s \in tabla[km.pid]}
obtener_todos == UNION {{[pid |-> p, seg |-> s] : s \in tabla[p]} : p \in vivos}

\* MSG_DESALOJO_REALIZADO, or any other message.
desalojoRealizado ==
  /\ km.pc = "desalojo"
  /\ km' = [km EXCEPT !.pc = "compactar", !.pend = obtener_todos]
  /\ compactado' = TRUE
  /\ UNCHANGED <<espacio, enTablas, swap, memoria, escritos>>
desalojoFallido ==
  /\ km.pc = "desalojo"
  /\ Termina("ERROR")
  /\ UNCHANGED <<espacio, enTablas, swap, memoria, escritos, compactado>>

\* ejecutar_compactacion: the next segment by base goes to the cursor.  No byte
\* of the sticks is moved.
SiguienteDe(pend) == {x \in pend : \A y \in pend : x.seg.base <= y.seg.base}
compactarSegmento ==
  /\ km.pc = "compactar"
  /\ \E x \in SiguienteDe(km.pend) :
       /\ tabla' = [tabla EXCEPT ![x.pid] = (@ \ {x.seg}) \cup {[x.seg EXCEPT !.base = km.cursor]}]
       /\ km' = [km EXCEPT !.cursor = @ + x.seg.tam, !.pend = @ \ {x}]
  /\ UNCHANGED <<espacio, vivos, swap, memoria, escritos, compactado>>

\* Mutation: the old holes are not cleared.
reconstruir_huecos_desde_sinLimpiar ==
  /\ km.pc = "compactar" /\ km.pend = {}
  /\ huecos' = IF km.cursor >= total THEN huecos
               ELSE huecos \cup {[base |-> km.cursor, tam |-> total - km.cursor]}
  /\ km' = [km EXCEPT !.pc = "reintentar"]
  /\ UNCHANGED <<total, sticks, enTablas, swap, memoria, escritos, compactado>>

reconstruir_huecos_desde ==
  /\ km.pc = "compactar" /\ km.pend = {}
  /\ huecos' = IF km.cursor >= total THEN {}
               ELSE {[base |-> km.cursor, tam |-> total - km.cursor]}
  /\ km' = [km EXCEPT !.pc = "reintentar"]
  /\ UNCHANGED <<total, sticks, enTablas, swap, memoria, escritos, compactado>>

\* crear_segmento once more; a second request for a compaction is an error.
reintentar ==
  /\ km.pc = "reintentar"
  /\ \/ crear_segmento(km.pid, km.id, km.tam)
     \/ requiere_compactacion(km.tam) /\ NoCrea("ERROR")
  /\ UNCHANGED <<total, sticks, vivos, swap, memoria, escritos, compactado>>

mem_free(p, id) ==
  /\ Atiende(p) /\ DeSwap(p) = {}
  /\ \/ \E s \in tabla[p] :
          /\ s.id = id
          /\ tabla' = [tabla EXCEPT ![p] = @ \ {s}]
          /\ huecos' = registrar_hueco(huecos, s.base, s.tam)
          /\ memoria' = Olvidada(s)
          /\ escritos' = escritos \ {<<p, id>>}
          /\ Termina("OK")
     \/ ~Tiene(p, id) /\ Termina("ERROR") /\ UNCHANGED <<huecos, tabla, memoria, escritos>>
  /\ UNCHANGED <<total, sticks, vivos, swap, compactado>>

-----------------------------------------------------------------------------
(* Suspension: the segments go to the swap one by one.                      *)

suspender_proceso(p) ==
  /\ Atiende(p) /\ DeSwap(p) = {} /\ Sigue("suspender", p, Ninguno, 0)
  /\ UNCHANGED <<espacio, enTablas, swap, memoria, escritos, compactado>>

\* Mutation: the bits in use are not looked at.
encontrar_bloque_libre_todos == 0..(Bloques - 1)
encontrar_bloque_libre == (0..(Bloques - 1)) \ bitmap
\* Mutation: the read starts at address 0.
Guardado_desdeCero(s) ==
  [i \in 0..(TamanioBloque - 1) |-> IF i < s.tam THEN memoria[i] ELSE Ninguno]
Guardado(s) ==
  [i \in 0..(TamanioBloque - 1) |-> IF i < s.tam THEN memoria[s.base + i] ELSE Ninguno]

suspenderSegmento ==
  /\ km.pc = "suspender" /\ swapVivo
  /\ \E s \in tabla[km.pid] : \E b \in encontrar_bloque_libre :
       /\ \A c \in encontrar_bloque_libre : b <= c
       /\ bitmap' = bitmap \cup {b}
       /\ disco' = [disco EXCEPT ![b] = Guardado(s)]
       /\ enSwap' = enSwap \cup {[pid |-> km.pid, id |-> s.id, tam |-> s.tam, bloque |-> b]}
       /\ tabla' = [tabla EXCEPT ![km.pid] = @ \ {s}]
       /\ huecos' = registrar_hueco(huecos, s.base, s.tam)
       /\ memoria' = Olvidada(s)
  /\ UNCHANGED <<total, sticks, vivos, swapVivo, fallas, km, escritos, compactado>>

\* The segment is gone from the table and its bytes are not freed.  With the swap
\* full the block number is -1, and the SWAP module ends on reading it.
suspenderFalla ==
  /\ km.pc = "suspender"
  /\ \E s \in tabla[km.pid] : tabla' = [tabla EXCEPT ![km.pid] = @ \ {s}]
  /\ bitmap' = bitmap \cup {b \in encontrar_bloque_libre : \A c \in encontrar_bloque_libre : b <= c}
  /\ \/ encontrar_bloque_libre = {} /\ swapVivo' = FALSE /\ fallas' = fallas
     \/ ~swapVivo /\ UNCHANGED <<swapVivo, fallas>>
     \/ /\ swapVivo /\ encontrar_bloque_libre # {} /\ fallas < MaxFallas
        /\ fallas' = fallas + 1 /\ swapVivo' = swapVivo
  /\ Termina("ERROR")
  /\ UNCHANGED <<espacio, vivos, enSwap, disco, memoria, escritos, compactado>>

suspenderFin ==
  /\ km.pc = "suspender" /\ tabla[km.pid] = {}
  /\ Termina("OK")
  /\ UNCHANGED <<espacio, enTablas, swap, memoria, escritos, compactado>>

-----------------------------------------------------------------------------
(* Resumption, asked for by the scheduler or by an IO on a segment that is   *)
(* not in the table.                                                        *)

desuspender_proceso(p) ==
  /\ Atiende(p) /\ DeSwap(p) # {} /\ Sigue("desuspender", p, Ninguno, 0)
  /\ UNCHANGED <<espacio, enTablas, swap, memoria, escritos, compactado>>

Desuspendiendo == km.pc \in {"desuspender", "STDIN", "STDOUT"}
Escrita(s, que) ==
  [d \in DOMAIN memoria |-> IF s.base <= d /\ d < Fin(s) THEN que[d - s.base] ELSE memoria[d]]

desuspenderSegmento ==
  /\ Desuspendiendo /\ swapVivo
  /\ \E e \in DeSwap(km.pid) : \E h \in buscar_hueco_candidato(e.tam) :
       LET s == [id |-> e.id, base |-> h.base, tam |-> e.tam] IN
       /\ huecos' = Reservado(h, e.tam)
       /\ tabla' = [tabla EXCEPT ![km.pid] = @ \cup {s}]
       /\ memoria' = Escrita(s, [i \in 0..(e.tam - 1) |->
                                  IF i < TamanioBloque THEN disco[e.bloque][i] ELSE Ninguno])
       /\ enSwap' = enSwap \ {e}
       /\ bitmap' = bitmap \ {e.bloque}
       /\ disco' = [disco EXCEPT ![e.bloque] = [i \in DOMAIN @ |-> Ninguno]]
  /\ UNCHANGED <<total, sticks, vivos, swapVivo, fallas, km, escritos, compactado>>

\* No hole for a segment, or no SWAP (the bytes reserved are given back): what was
\* restored so far stays.
desuspenderFalla ==
  /\ Desuspendiendo
  /\ \E e \in DeSwap(km.pid) : ~hay_hueco_contiguo(e.tam) \/ ~swapVivo
  /\ Termina("ERROR")
  /\ UNCHANGED <<espacio, enTablas, swap, memoria, escritos, compactado>>

desuspenderFin ==
  /\ km.pc = "desuspender" /\ DeSwap(km.pid) = {}
  /\ Termina("OK")
  /\ UNCHANGED <<espacio, enTablas, swap, memoria, escritos, compactado>>

-----------------------------------------------------------------------------
(* STDIN writes a segment, STDOUT reads it; both resume a process whose      *)
(* segment is not there.                                                    *)

Traduce(op, p, id) ==
  \E s \in tabla[p] :
    /\ s.id = id
    /\ IF op = "STDIN"
       THEN /\ memoria' = Escrita(s, [i \in 0..(s.tam - 1) |-> <<p, id>>])
            /\ escritos' = escritos \cup {<<p, id>>}
       ELSE UNCHANGED <<memoria, escritos>>

atenderIO(op, p, id) ==
  /\ Atiende(p)
  /\ op = "STDIN" => Cardinality(escritos \cup {<<p, id>>}) <= MaxEscritos
  /\ \/ Traduce(op, p, id) /\ Termina("OK")
     \/ Tiene(p, id) /\ Termina("SEG_FAULT") /\ UNCHANGED <<memoria, escritos>>
     \/ ~Tiene(p, id) /\ Sigue(op, p, id, 0) /\ UNCHANGED <<memoria, escritos>>
  /\ UNCHANGED <<espacio, enTablas, swap, compactado>>

reintentarIO ==
  /\ km.pc \in {"STDIN", "STDOUT"} /\ DeSwap(km.pid) = {}
  /\ \/ Traduce(km.pc, km.pid, km.id) /\ Termina("OK")
     \/ Tiene(km.pid, km.id) /\ Termina("SEG_FAULT") /\ UNCHANGED <<memoria, escritos>>
     \/ ~Tiene(km.pid, km.id) /\ Termina("ERROR") /\ UNCHANGED <<memoria, escritos>>
  /\ UNCHANGED <<espacio, enTablas, swap, compactado>>

-----------------------------------------------------------------------------
(* MSG_DONE: the process leaves the dictionary, its segments are freed one   *)
(* by one, and then its blocks of the swap.                                 *)

destruir_proceso(p) ==
  /\ Atiende(p)
  /\ vivos' = vivos \ {p}
  /\ Sigue("destruir", p, Ninguno, 0)
  /\ escritos' = {x \in escritos : x[1] # p}
  /\ UNCHANGED <<espacio, tabla, swap, memoria, compactado>>

destruirSegmento ==
  /\ km.pc = "destruir"
  /\ \E s \in tabla[km.pid] :
       /\ tabla' = [tabla EXCEPT ![km.pid] = @ \ {s}]
       /\ huecos' = registrar_hueco(huecos, s.base, s.tam)
       /\ memoria' = Olvidada(s)
  /\ UNCHANGED <<total, sticks, vivos, swap, km, escritos, compactado>>

\* Mutation: the blocks of the swap are not freed.
destruirFin_sinSwap ==
  /\ km.pc = "destruir" /\ tabla[km.pid] = {}
  /\ Termina("OK")
  /\ UNCHANGED <<espacio, enTablas, swap, memoria, escritos, compactado>>

destruirFin ==
  /\ km.pc = "destruir" /\ tabla[km.pid] = {}
  /\ enSwap' = enSwap \ DeSwap(km.pid)
  /\ bitmap' = bitmap \ {e.bloque : e \in DeSwap(km.pid)}
  /\ disco' = [b \in DOMAIN disco |-> IF \E e \in DeSwap(km.pid) : e.bloque = b
                                     THEN [i \in DOMAIN disco[b] |-> Ninguno] ELSE disco[b]]
  /\ Termina("OK")
  /\ UNCHANGED <<espacio, enTablas, swapVivo, fallas, memoria, escritos, compactado>>

-----------------------------------------------------------------------------
HiloStick(k) == conectar_memory_stick(k) \/ registrarHuecoDeStick(k)

Solicitud(p) ==
  \/ crear_proceso(p) \/ destruir_proceso(p)
  \/ suspender_proceso(p) \/ desuspender_proceso(p)
  \/ \E id \in Ids :
       \/ \E n \in Tamanios : mem_alloc(p, id, n)
       \/ mem_free(p, id)
       \/ \E op \in {"STDIN", "STDOUT"} : atenderIO(op, p, id)

Continua ==
  \/ desalojoRealizado \/ desalojoFallido
  \/ compactarSegmento \/ reconstruir_huecos_desde \/ reintentar
  \/ suspenderSegmento \/ suspenderFalla \/ suspenderFin
  \/ desuspenderSegmento \/ desuspenderFalla \/ desuspenderFin \/ reintentarIO
  \/ destruirSegmento \/ destruirFin

Next ==
  \/ \E k \in Sticks : HiloStick(k)
  \/ \E p \in Procesos : Solicitud(p)
  \/ Continua

Spec == Init /\ [][Next]_vars

-----------------------------------------------------------------------------
(* Properties.                                                              *)

EstructurasOK ==
  /\ total \in Nat
  /\ huecos \subseteq Hueco
  /\ sticks \in [Sticks -> [pc : {"fuera", "sumado", "listo"}, base : Nat]]
  /\ vivos \subseteq Procesos
  /\ tabla \in [Procesos -> SUBSET Segmento]
  /\ enSwap \subseteq SegmentoSwap
  /\ bitmap \subseteq 0..(Bloques - 1)
  /\ swapVivo \in BOOLEAN /\ fallas \in Nat /\ compactado \in BOOLEAN
  /\ km \in [pc : {"libre", "desalojo", "compactar", "reintentar", "suspender", "desuspender",
                   "STDIN", "STDOUT", "destruir"},
             pid : Procesos \cup {Ninguno}, id : Ids \cup {Ninguno}, tam : Nat, cursor : Nat,
             pend : SUBSET [pid : Procesos, seg : Segmento]]
  /\ escritos \subseteq Procesos \X Ids

\* Every variable keeps its type: no hole and no segment is ever empty or starts
\* before address 0 (registrar_hueco and reservar_espacio compute with uint32_t).
TypeOK ==
  /\ EstructurasOK
  /\ disco \in [0..(Bloques - 1) -> [0..(TamanioBloque - 1) -> Contenido]]
  /\ memoria \in [Celdas -> Contenido]

\* Two blocks have no byte in common.
Aparte(a, b) == Fin(a) <= b.base \/ Fin(b) <= a.base

\* The segments of all processes are disjoint and inside the memory, at every step
\* of a compaction too.
SegmentosDisjuntos ==
  \A p, q \in Procesos : \A s \in tabla[p], r \in tabla[q] :
    /\ Fin(s) <= total
    /\ <<p, s>> = <<q, r>> \/ Aparte(s, r)

\* A hole is disjoint from the other holes and, unless a compaction is moving them,
\* from the segments: no allocation hands out a byte that is in use.
HuecosLibres ==
  /\ \A h, g \in huecos : Fin(h) <= total /\ (h = g \/ Aparte(h, g))
  /\ km.pc # "compactar" => \A h \in huecos, p \in Procesos : \A s \in tabla[p] : Aparte(h, s)

\* Freed neighbours are always joined, so the largest hole tells whether a request
\* needs a compaction (requiere_compactacion).
HuecosConsolidados == \A h, g \in huecos : Fin(h) # g.base

SinFallas == swapVivo /\ fallas = 0

\* No byte leaks: while the swap has not failed, every byte of the memory is in a hole,
\* in a segment or in a stick whose hole is about to be registered.
EnBloque(d, b) == b.base <= d /\ d < Fin(b)
SinFugas ==
  SinFallas /\ km.pc # "compactar" =>
    \A d \in Celdas :
      \/ \E h \in huecos : EnBloque(d, h)
      \/ \E p \in Procesos : \E s \in tabla[p] : EnBloque(d, s)
      \/ \E k \in Sticks : /\ sticks[k].pc = "sumado"
                           /\ sticks[k].base <= d /\ d < sticks[k].base + Tamanio[k]

\* A block of the swap holds one segment, and while the swap has not failed every
\* block in use holds one.
BloquesConDuenio ==
  /\ \A e, f \in enSwap : e.bloque = f.bloque => e = f
  /\ {e.bloque : e \in enSwap} \subseteq bitmap
  /\ SinFallas => bitmap = {e.bloque : e \in enSwap}

\* A process that is not in the dictionary owns neither memory nor swap, unless it is
\* being destroyed.
MuertosSinRecursos ==
  \A p \in Procesos \ vivos :
    (km.pc = "destruir" /\ km.pid = p) \/ (tabla[p] = {} /\ DeSwap(p) = {})

\* A compaction is never in vain: the request that asked for it is then granted.
CompactacionAlcanza ==
  [][km.pc = "reintentar" => \E s \in tabla'[km.pid] : s.id = km.id]_vars

\* What p wrote in the segment id is there, in the memory or in the swap.
Intacto(p, id) ==
  \/ \E s \in tabla[p] :
       s.id = id /\ \A d \in DOMAIN memoria : s.base <= d /\ d < Fin(s) => memoria[d] = <<p, id>>
  \/ \E e \in DeSwap(p) :
       e.id = id /\ \A i \in 0..(e.tam - 1) : i < TamanioBloque /\ disco[e.bloque][i] = <<p, id>>

\* What a program writes in a segment is what it reads from it until it frees it, through
\* suspensions and resumptions (suspender_proceso, desuspender_proceso): in a memory never
\* compacted, since ejecutar_compactacion moves the bases and no byte.
SuspensionConservaContenido ==
  SinFallas /\ ~compactado => \A x \in escritos : Intacto(x[1], x[2])
=============================================================================
