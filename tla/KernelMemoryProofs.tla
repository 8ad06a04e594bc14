------------------------- MODULE KernelMemoryProofs -------------------------
(* Proofs about KernelMemory when no Memory Stick connects while a request  *)
(* is being served.                                                         *)
EXTENDS KernelMemory, TLAPS

-----------------------------------------------------------------------------
(* The inductive invariant, over holes hs, segment tables tb and a memory of *)
(* t bytes.                                                                  *)

HuecosValidos(hs, t) ==
  /\ hs \subseteq Hueco
  /\ \A h \in hs : Fin(h) <= t
  /\ \A h, g \in hs : h = g \/ Aparte(h, g)
  /\ \A h, g \in hs : Fin(h) # g.base

SegmentosValidos(tb, t) ==
  /\ tb \in [Procesos -> SUBSET Segmento]
  /\ \A p \in Procesos : \A s \in tb[p] : Fin(s) <= t
  /\ \A p, q \in Procesos : \A s \in tb[p], r \in tb[q] : (p = q /\ s = r) \/ Aparte(s, r)

Separados(hs, tb) ==
  \A h \in hs, p \in Procesos : \A s \in tb[p] : Aparte(h, s)

\* A stick that was counted and whose hole is not registered yet is the end of the
\* memory, and nothing but its thread is at work.
StickPendiente ==
  \A k \in Sticks : sticks[k].pc = "sumado" =>
    /\ km.pc = "libre"
    /\ \A j \in Sticks : sticks[j].pc = "sumado" => j = k
    /\ sticks[k].base + Tamanio[k] = total
    /\ HuecosValidos(huecos, sticks[k].base)
    /\ SegmentosValidos(tabla, sticks[k].base)

\* The segments already moved end at the cursor or before it, the others start at
\* the cursor or after it.
EnCompactacion ==
  km.pc = "compactar" =>
    /\ km.cursor <= total
    /\ \A x \in km.pend : x.seg \in tabla[x.pid] /\ km.cursor <= x.seg.base
    /\ \A p \in Procesos : \A s \in tabla[p] :
         [pid |-> p, seg |-> s] \in km.pend \/ Fin(s) <= km.cursor

\* Who the request being served is about.
Pedido ==
  /\ km.pc # "libre" => km.pid \in Procesos
  /\ km.pc \in {"desalojo", "compactar", "reintentar", "STDIN", "STDOUT"} => km.id \in Ids
  /\ km.pc \notin {"libre", "destruir"} => km.pid \in vivos
  /\ km.pc = "destruir" => km.pid \notin vivos
  /\ km.pc = "desalojo" => km.cursor = 0

EspacioInv ==
  /\ HuecosValidos(huecos, total)
  /\ SegmentosValidos(tabla, total)
  /\ km.pc # "compactar" => Separados(huecos, tabla)

IInv ==
  /\ EstructurasOK
  /\ EspacioInv
  /\ StickPendiente
  /\ EnCompactacion
  /\ Pedido
  /\ MuertosSinRecursos
  /\ BloquesConDuenio

-----------------------------------------------------------------------------
(* Lemmas about the lists.                                                   *)

\* registrar_hueco, given a block apart from every hole, returns a valid list of
\* holes, and whatever was apart from the block and the old holes is apart from the
\* new ones.
LEMMA RegistrarHueco ==
  ASSUME NEW hs, NEW t \in Nat, HuecosValidos(hs, t),
         NEW b \in Nat, NEW n \in Nat, b + n <= t,
         \A h \in hs : h.base + h.tam <= b \/ b + n <= h.base
  PROVE  /\ HuecosValidos(registrar_hueco(hs, b, n), t)
         /\ \A s \in Segmento :
              (\A h \in hs : Aparte(h, s)) /\ (Fin(s) <= b \/ b + n <= s.base)
              => \A h \in registrar_hueco(hs, b, n) : Aparte(h, s)
<1>1. CASE n = 0
  BY <1>1 DEF registrar_hueco
<1>2. CASE n # 0
  <2> DEFINE izquierda == {h \in hs : Fin(h) = b}
             derecha == {h \in hs : h.base = b + n}
             desde == IF izquierda = {} THEN b ELSE (CHOOSE h \in izquierda : TRUE).base
             hasta == IF derecha = {} THEN b + n ELSE Fin(CHOOSE h \in derecha : TRUE)
             nuevo == [base |-> desde, tam |-> hasta - desde]
             quedan == hs \ (izquierda \cup derecha)
  <2>1. registrar_hueco(hs, b, n) = quedan \cup {nuevo}
    BY <1>2 DEF registrar_hueco
  <2>2. hs \subseteq Hueco
    BY DEF HuecosValidos
  <2>3. \/ izquierda = {} /\ desde = b
        \/ \E l \in hs : Fin(l) = b /\ desde = l.base
    <3>1. CASE izquierda # {}
      <4>1. (CHOOSE h \in izquierda : TRUE) \in izquierda
        BY <3>1
      <4> QED BY <3>1, <4>1
    <3> QED BY <3>1
  <2>4. \/ derecha = {} /\ hasta = b + n
        \/ \E r \in hs : r.base = b + n /\ hasta = Fin(r)
    <3>1. CASE derecha # {}
      <4>1. (CHOOSE h \in derecha : TRUE) \in derecha
        BY <3>1
      <4> QED BY <3>1, <4>1
    <3> QED BY <3>1
  <2> HIDE DEF desde, hasta
  <2>5. desde \in Nat /\ desde <= b
    BY <2>2, <2>3 DEF Fin, Hueco
  <2>6. hasta \in Nat /\ b + n <= hasta /\ hasta <= t
    BY <2>2, <2>4 DEF Fin, Hueco, HuecosValidos
  <2>7. nuevo \in Hueco /\ nuevo.base = desde /\ Fin(nuevo) = hasta
    BY <1>2, <2>5, <2>6 DEF Fin, Hueco
  <2>8. \A h \in quedan : h \in Hueco /\ Fin(h) # b /\ h.base # b + n
    BY <2>2
  \* What is apart from the block and from the holes is apart from the joined hole.
  <2>9. ASSUME NEW x, x.base \in Nat, x.tam \in Nat \ {0},
               Fin(x) <= b \/ b + n <= x.base,
               \A l \in hs : Fin(l) = b => Aparte(l, x),
               \A r \in hs : r.base = b + n => Aparte(r, x)
        PROVE  Fin(x) <= desde \/ hasta <= x.base
    <3>1. Fin(x) <= b => Fin(x) <= desde
      BY <2>9, <2>2, <2>3 DEF Fin, Aparte, Hueco
    <3>2. b + n <= x.base => hasta <= x.base
      BY <2>9, <2>2, <2>4 DEF Fin, Aparte, Hueco
    <3> QED BY <3>1, <3>2, <2>9
  <2>10. \A h \in quedan : Fin(h) <= desde \/ hasta <= h.base
    <3> TAKE h \in quedan
    <3>1. h.base \in Nat /\ h.tam \in Nat \ {0} /\ h \in hs
      BY <2>2 DEF Hueco
    <3>2. Fin(h) <= b \/ b + n <= h.base
      BY <3>1 DEF Fin
    <3>3. \A l \in hs : Fin(l) = b => Aparte(l, h)
      BY <3>1, <2>8 DEF HuecosValidos
    <3>4. \A r \in hs : r.base = b + n => Aparte(r, h)
      BY <3>1, <2>8 DEF HuecosValidos
    <3> QED BY <3>1, <3>2, <3>3, <3>4, <2>9
  <2> HIDE DEF nuevo, quedan
  <2>11. quedan \subseteq hs
    BY DEF quedan
  <2>12. \A h, g \in quedan \cup {nuevo} : h = g \/ Aparte(h, g)
    BY <2>7, <2>10, <2>11 DEF Aparte, HuecosValidos
  <2>13. \A h \in quedan : Fin(h) # desde /\ h.base # hasta
    <3> TAKE h \in quedan
    <3>1. Fin(h) # desde
      BY <2>2, <2>3, <2>8, <2>11 DEF HuecosValidos
    <3>2. h.base # hasta
      BY <2>2, <2>4, <2>8, <2>11 DEF HuecosValidos
    <3> QED BY <3>1, <3>2
  <2>14. \A h, g \in quedan \cup {nuevo} : Fin(h) # g.base
    <3>1. desde < hasta
      BY <1>2, <2>5, <2>6
    <3>2. \A h, g \in quedan : Fin(h) # g.base
      BY <2>11 DEF HuecosValidos
    <3>3. Fin(nuevo) # nuevo.base
      BY <2>5, <2>6, <2>7, <3>1
    <3> QED BY <2>7, <2>13, <3>2, <3>3
  <2>15. HuecosValidos(registrar_hueco(hs, b, n), t)
    BY <2>1, <2>2, <2>6, <2>7, <2>11, <2>12, <2>14 DEF HuecosValidos
  <2>16. ASSUME NEW s \in Segmento, \A h \in hs : Aparte(h, s),
                Fin(s) <= b \/ b + n <= s.base,
                NEW h \in registrar_hueco(hs, b, n)
         PROVE  Aparte(h, s)
    <3>1. Fin(s) <= desde \/ hasta <= s.base
      BY <2>9, <2>16 DEF Segmento
    <3> QED BY <2>1, <2>7, <2>11, <2>16, <3>1 DEF Aparte
  <2> QED BY <2>15, <2>16
<1> QED BY <1>1, <1>2

\* reservar_espacio followed by the entry in a segment table: the bytes handed out
\* belonged to a hole, and the rest of the hole stays in the list.
LEMMA ReservarEspacio ==
  ASSUME total \in Nat, HuecosValidos(huecos, total), SegmentosValidos(tabla, total),
         Separados(huecos, tabla),
         NEW h \in huecos, NEW n \in Nat \ {0}, n <= h.tam, NEW p \in Procesos, NEW id \in Ids,
         NEW tb, tb = [tabla EXCEPT ![p] = @ \cup {[id |-> id, base |-> h.base, tam |-> n]}]
  PROVE  /\ HuecosValidos(Reservado(h, n), total)
         /\ SegmentosValidos(tb, total)
         /\ Separados(Reservado(h, n), tb)
<1> DEFINE s == [id |-> id, base |-> h.base, tam |-> n]
           resto == [base |-> h.base + n, tam |-> h.tam - n]
<1>1. huecos \subseteq Hueco /\ h.base \in Nat /\ h.tam \in Nat \ {0}
  BY DEF HuecosValidos, Hueco
<1>2. s \in Segmento /\ s.base = h.base /\ Fin(s) = h.base + n /\ Fin(s) <= Fin(h)
  BY <1>1 DEF Segmento, Fin
<1>3. h.tam # n => resto \in Hueco /\ resto.base = h.base + n /\ Fin(resto) = Fin(h)
  BY <1>1 DEF Hueco, Fin
<1>4. \A x \in Reservado(h, n) :
        \/ x \in huecos /\ x # h
        \/ h.tam # n /\ x = resto
  BY DEF Reservado
<1> HIDE DEF s, resto
<1>5. \A g \in huecos : g # h => Fin(g) <= h.base \/ Fin(h) <= g.base
  BY DEF HuecosValidos, Aparte
<1>6. \A g \in huecos : g.base \in Nat /\ Fin(g) \in Nat /\ g.base < Fin(g) /\ Fin(g) <= total
  BY <1>1 DEF HuecosValidos, Hueco, Fin
<1>7. HuecosValidos(Reservado(h, n), total)
  <2>1. Reservado(h, n) \subseteq Hueco
    BY <1>1, <1>3, <1>4
  <2>2. \A x \in Reservado(h, n) : Fin(x) <= total
    BY <1>3, <1>4, <1>6
  <2>3. \A x, y \in Reservado(h, n) : x = y \/ Aparte(x, y)
    <3> SUFFICES ASSUME NEW x \in Reservado(h, n), NEW y \in Reservado(h, n), x # y
                 PROVE  Aparte(x, y)
      OBVIOUS
    <3>1. CASE x \in huecos /\ y \in huecos
      BY <3>1 DEF HuecosValidos
    <3>2. CASE x \in huecos /\ x # h /\ y = resto /\ h.tam # n
      BY <3>2, <1>1, <1>3, <1>5, <1>6 DEF Aparte
    <3>3. CASE y \in huecos /\ y # h /\ x = resto /\ h.tam # n
      BY <3>3, <1>1, <1>3, <1>5, <1>6 DEF Aparte
    <3> QED BY <1>4, <3>1, <3>2, <3>3
  <2>4. \A x, y \in Reservado(h, n) : Fin(x) # y.base
    <3> TAKE x \in Reservado(h, n), y \in Reservado(h, n)
    <3>1. CASE x \in huecos /\ y \in huecos
      BY <3>1 DEF HuecosValidos
    <3>2. CASE x \in huecos /\ x # h /\ y = resto /\ h.tam # n
      BY <3>2, <1>1, <1>3, <1>5, <1>6 DEF Fin
    <3>3. CASE y \in huecos /\ y # h /\ x = resto /\ h.tam # n
      BY <3>3, <1>3 DEF HuecosValidos
    <3>4. CASE x = resto /\ y = resto /\ h.tam # n
      BY <3>4, <1>1, <1>3 DEF Fin, Hueco
    <3> QED BY <1>4, <3>1, <3>2, <3>3, <3>4
  <2> QED BY <2>1, <2>2, <2>3, <2>4 DEF HuecosValidos
<1>8. tb \in [Procesos -> SUBSET Segmento] /\ \A q \in Procesos : \A r \in tb[q] :
        (q = p /\ r = s) \/ r \in tabla[q]
  BY <1>2 DEF SegmentosValidos, s
<1>9. \A q \in Procesos : \A r \in tabla[q] :
        /\ r.base \in Nat /\ Fin(r) \in Nat /\ r.base < Fin(r) /\ Fin(r) <= total
        /\ Fin(r) <= h.base \/ Fin(h) <= r.base
  BY DEF SegmentosValidos, Separados, Aparte, Segmento, Fin
<1>10. SegmentosValidos(tb, total)
  <2>1. \A q \in Procesos : \A r \in tb[q] : Fin(r) <= total
    BY <1>2, <1>6, <1>8, <1>9
  <2>2. \A q, u \in Procesos : \A r \in tb[q], v \in tb[u] : (q = u /\ r = v) \/ Aparte(r, v)
    <3> SUFFICES ASSUME NEW q \in Procesos, NEW u \in Procesos, NEW r \in tb[q], NEW v \in tb[u],
                        ~(q = u /\ r = v)
                 PROVE  Aparte(r, v)
      OBVIOUS
    <3>1. CASE r \in tabla[q] /\ v \in tabla[u]
      BY <3>1 DEF SegmentosValidos
    <3>2. CASE r = s /\ v \in tabla[u]
      BY <3>2, <1>1, <1>2, <1>6, <1>9 DEF Aparte
    <3>3. CASE r \in tabla[q] /\ v = s
      BY <3>3, <1>1, <1>2, <1>6, <1>9 DEF Aparte
    <3> QED BY <1>8, <3>1, <3>2, <3>3
  <2> QED BY <1>8, <2>1, <2>2 DEF SegmentosValidos
<1>11. Separados(Reservado(h, n), tb)
  <2> SUFFICES ASSUME NEW x \in Reservado(h, n), NEW q \in Procesos, NEW r \in tb[q]
               PROVE  Aparte(x, r)
    BY DEF Separados
  <2>1. CASE x \in huecos /\ r \in tabla[q]
    BY <2>1 DEF Separados
  <2>2. CASE x \in huecos /\ x # h /\ r = s
    BY <2>2, <1>1, <1>2, <1>5, <1>6 DEF Aparte
  <2>3. CASE x = resto /\ h.tam # n /\ r \in tabla[q]
    BY <2>3, <1>1, <1>3, <1>6, <1>9 DEF Aparte
  <2>4. CASE x = resto /\ h.tam # n /\ r = s
    BY <2>4, <1>1, <1>2, <1>3 DEF Aparte
  <2> QED BY <1>4, <1>8, <2>1, <2>2, <2>3, <2>4
<1> QED BY <1>7, <1>10, <1>11

\* A segment leaves its table.
LEMMA QuitarSegmento ==
  ASSUME SegmentosValidos(tabla, total), NEW p \in Procesos, NEW s \in tabla[p],
         NEW tb, tb = [tabla EXCEPT ![p] = @ \ {s}]
  PROVE  /\ SegmentosValidos(tb, total)
         /\ \A q \in Procesos : tb[q] \subseteq tabla[q]
         /\ \A q \in Procesos : \A r \in tb[q] : Aparte(s, r)
<1>1. tb \in [Procesos -> SUBSET Segmento] /\ \A q \in Procesos : tb[q] \subseteq tabla[q]
  BY DEF SegmentosValidos
<1>2. \A q \in Procesos : \A r \in tb[q] : ~(p = q /\ s = r)
  BY DEF SegmentosValidos
<1> QED BY <1>1, <1>2 DEF SegmentosValidos

\* A segment leaves its table and its bytes go back to the holes.
LEMMA LiberarEspacio ==
  ASSUME total \in Nat, HuecosValidos(huecos, total), SegmentosValidos(tabla, total),
         Separados(huecos, tabla),
         NEW p \in Procesos, NEW s \in tabla[p], NEW tb, tb = [tabla EXCEPT ![p] = @ \ {s}]
  PROVE  /\ HuecosValidos(registrar_hueco(huecos, s.base, s.tam), total)
         /\ SegmentosValidos(tb, total)
         /\ Separados(registrar_hueco(huecos, s.base, s.tam), tb)
<1>1. s.base \in Nat /\ s.tam \in Nat \ {0} /\ s.base + s.tam <= total
  BY DEF SegmentosValidos, Segmento, Fin
<1>2. \A h \in huecos : h.base + h.tam <= s.base \/ s.base + s.tam <= h.base
  BY DEF Separados, Aparte, Fin
<1>3. SegmentosValidos(tb, total) /\ \A q \in Procesos : \A r \in tb[q] :
        r \in tabla[q] /\ Aparte(s, r)
  BY QuitarSegmento
<1>4. \A q \in Procesos : \A r \in tb[q] :
        /\ r \in Segmento /\ \A h \in huecos : Aparte(h, r)
        /\ Fin(r) <= s.base \/ s.base + s.tam <= r.base
  BY <1>3 DEF SegmentosValidos, Separados, Aparte, Fin
<1>5. HuecosValidos(registrar_hueco(huecos, s.base, s.tam), total)
  BY <1>1, <1>2, RegistrarHueco
<1>6. Separados(registrar_hueco(huecos, s.base, s.tam), tb)
  BY <1>1, <1>2, <1>4, RegistrarHueco DEF Separados
<1> QED BY <1>3, <1>5, <1>6

-----------------------------------------------------------------------------
(* The inductive invariant holds at the start and is kept by every action.   *)

\* Nothing is connected and no process exists: the invariant holds at the start.
LEMMA InicioIInv == Init => IInv
<1> SUFFICES ASSUME Init PROVE IInv
  OBVIOUS
<1> USE KernelMemoryAssumption DEF Init, KMLibre
<1>1. EstructurasOK
  BY DEF EstructurasOK, Hueco, Segmento, SegmentoSwap
<1>2. EspacioInv
  BY DEF EspacioInv, HuecosValidos, SegmentosValidos, Separados
<1>3. StickPendiente /\ EnCompactacion /\ Pedido
  BY DEF StickPendiente, EnCompactacion, Pedido
<1>4. MuertosSinRecursos /\ BloquesConDuenio
  BY DEF MuertosSinRecursos, BloquesConDuenio, DeSwap, SinFallas
<1> QED BY <1>1, <1>2, <1>3, <1>4 DEF IInv

\* The holes, the tables and the sticks are left alone and no compaction goes on.
LEMMA EspacioQuieto ==
  ASSUME IInv, UNCHANGED <<total, huecos, sticks, tabla>>,
         km.pc # "compactar", km'.pc # "compactar",
         \/ km'.pc = "libre"
         \/ \A k \in Sticks : sticks[k].pc # "sumado"
  PROVE  EspacioInv' /\ StickPendiente' /\ EnCompactacion'
<1>1. EspacioInv'
  BY DEF IInv, EspacioInv, HuecosValidos, SegmentosValidos, Separados
<1>2. StickPendiente'
  BY DEF IInv, StickPendiente, HuecosValidos, SegmentosValidos
<1>3. EnCompactacion'
  BY DEF EnCompactacion
<1> QED BY <1>1, <1>2, <1>3

\* No stick is pending while a request is being served.
LEMMA SinSticksPendientes ==
  ASSUME IInv, km.pc # "libre" \/ \A k \in Sticks : sticks[k].pc # "sumado"
  PROVE  /\ \A k \in Sticks : sticks[k].pc # "sumado"
         /\ sticks' = sticks => StickPendiente'
<1>1. \A k \in Sticks : sticks[k].pc # "sumado"
  BY DEF IInv, StickPendiente
<1>2. sticks' = sticks => StickPendiente'
  BY <1>1 DEF StickPendiente
<1> QED BY <1>1, <1>2

\* An answer that changes neither lists nor swap: a new process may be there.
LEMMA Responde ==
  ASSUME IInv, UNCHANGED <<total, huecos, sticks, tabla, enSwap, bitmap, swapVivo, fallas, compactado>>,
         km.pc \notin {"compactar", "destruir"}, km' = KMLibre,
         vivos \subseteq vivos', vivos' \subseteq Procesos, escritos' \subseteq Procesos \X Ids
  PROVE  IInv'
<1>1. km'.pc = "libre"
  BY DEF KMLibre
<1>2. EspacioInv' /\ StickPendiente' /\ EnCompactacion'
  BY <1>1, EspacioQuieto
<1>3. EstructurasOK'
  BY DEF IInv, EstructurasOK, KMLibre
<1>4. Pedido'
  BY <1>1 DEF Pedido
<1>5. MuertosSinRecursos'
  BY DEF IInv, MuertosSinRecursos, DeSwap
<1>6. BloquesConDuenio'
  BY DEF IInv, BloquesConDuenio, SinFallas
<1> QED BY <1>2, <1>3, <1>4, <1>5, <1>6 DEF IInv

\* A request on a living process that takes more than one step.
LEMMA EmpiezaPedido ==
  ASSUME IInv, UNCHANGED <<total, huecos, sticks, tabla, vivos, enSwap, bitmap, swapVivo, fallas, compactado, escritos>>,
         km.pc = "libre", \A k \in Sticks : sticks[k].pc # "sumado",
         NEW p \in vivos, NEW id, NEW n \in Nat,
         NEW pc, Sigue(pc, p, id, n),
         \/ pc \in {"suspender", "desuspender"} /\ id = Ninguno
         \/ pc \in {"desalojo", "STDIN", "STDOUT"} /\ id \in Ids
  PROVE  IInv'
<1>1. /\ km'.pc = pc /\ km'.pid = p /\ km'.id = id
      /\ km' = [pc |-> pc, pid |-> p, id |-> id, tam |-> n, cursor |-> 0, pend |-> {}]
  BY DEF Sigue, KMLibre
<1>2. EspacioInv' /\ StickPendiente' /\ EnCompactacion'
  BY <1>1, EspacioQuieto
<1>3. EstructurasOK'
  BY <1>1 DEF IInv, EstructurasOK
<1>4. Pedido'
  BY <1>1 DEF Pedido, IInv, EstructurasOK
<1>5. MuertosSinRecursos'
  BY DEF IInv, MuertosSinRecursos, DeSwap
<1>6. BloquesConDuenio'
  BY DEF IInv, BloquesConDuenio, SinFallas
<1> QED BY <1>2, <1>3, <1>4, <1>5, <1>6 DEF IInv

\* MSG_DONE takes the process out of the dictionary before anything is freed.
LEMMA EmpiezaDestruir ==
  ASSUME IInv, ~ConexionEnCaliente, NEW p \in Procesos, destruir_proceso(p)
  PROVE  IInv'
<1> USE DEF destruir_proceso, Atiende
<1>1. /\ km'.pc = "destruir" /\ km'.pid = p
      /\ km' = [pc |-> "destruir", pid |-> p, id |-> Ninguno, tam |-> 0, cursor |-> 0, pend |-> {}]
  BY DEF Sigue, KMLibre
<1>2. EspacioInv' /\ StickPendiente' /\ EnCompactacion'
  BY <1>1, EspacioQuieto DEF espacio
<1>3. EstructurasOK'
  BY <1>1 DEF IInv, EstructurasOK, espacio, swap
<1>4. Pedido'
  BY <1>1 DEF Pedido
<1>5. MuertosSinRecursos'
  BY <1>1 DEF IInv, MuertosSinRecursos, DeSwap, swap
<1>6. BloquesConDuenio'
  BY DEF IInv, BloquesConDuenio, SinFallas, swap
<1> QED BY <1>2, <1>3, <1>4, <1>5, <1>6 DEF IInv

\* The steps that leave the lists and the swap alone.
LEMMA PasosDeControl ==
  ASSUME IInv, ~ConexionEnCaliente,
         \/ \E p \in Procesos : \/ crear_proceso(p) \/ suspender_proceso(p)
                                \/ desuspender_proceso(p)
                                \/ \E id \in Ids, op \in {"STDIN", "STDOUT"} : atenderIO(op, p, id)
         \/ desalojoFallido \/ suspenderFin \/ desuspenderFalla \/ desuspenderFin \/ reintentarIO
  PROVE  IInv'
<1>1. vivos \subseteq Procesos /\ escritos \subseteq Procesos \X Ids
  BY DEF IInv, EstructurasOK
<1>2. ASSUME NEW p \in Procesos, crear_proceso(p)
      PROVE  IInv'
  BY <1>1, <1>2, Responde DEF crear_proceso, espacio, swap, Termina
<1>3. ASSUME NEW p \in Procesos, suspender_proceso(p)
      PROVE  IInv'
  BY <1>3, EmpiezaPedido DEF suspender_proceso, espacio, enTablas, swap, Atiende
<1>4. ASSUME NEW p \in Procesos, desuspender_proceso(p)
      PROVE  IInv'
  BY <1>4, EmpiezaPedido DEF desuspender_proceso, espacio, enTablas, swap, Atiende
<1>5. ASSUME NEW p \in Procesos, NEW id \in Ids, NEW op \in {"STDIN", "STDOUT"}, atenderIO(op, p, id)
      PROVE  IInv'
  <2> USE <1>5 DEF atenderIO, espacio, enTablas, swap, Atiende
  <2>1. CASE Traduce(op, p, id) /\ Termina("OK")
    BY <2>1, <1>1, Responde DEF Traduce, Termina
  <2>2. CASE Termina("SEG_FAULT") /\ UNCHANGED <<memoria, escritos>>
    BY <2>2, <1>1, Responde DEF Termina
  <2>3. CASE Sigue(op, p, id, 0) /\ UNCHANGED <<memoria, escritos>>
    BY <2>3, EmpiezaPedido
  <2> QED BY <2>1, <2>2, <2>3
<1>6. ASSUME desalojoFallido \/ suspenderFin \/ desuspenderFalla \/ desuspenderFin
      PROVE  IInv'
  BY <1>1, <1>6, Responde
  DEF desalojoFallido, suspenderFin, desuspenderFalla, desuspenderFin, Desuspendiendo, Termina,
      espacio, enTablas, swap
<1>7. ASSUME reintentarIO
      PROVE  IInv'
  <2>1. km.pid \in Procesos /\ km.id \in Ids
    BY <1>7 DEF IInv, Pedido, reintentarIO
  <2>2. escritos' \subseteq Procesos \X Ids
    <3>1. escritos' = escritos \/ escritos' = escritos \cup {<<km.pid, km.id>>}
      BY <1>7 DEF reintentarIO, Traduce
    <3> QED BY <3>1, <2>1, <1>1
  <2>3. km' = KMLibre /\ km.pc \notin {"compactar", "destruir"}
    BY <1>7 DEF reintentarIO, Termina
  <2> QED BY <2>2, <2>3, <1>1, <1>7, Responde DEF reintentarIO, espacio, enTablas, swap
<1> QED BY <1>2, <1>3, <1>4, <1>5, <1>6, <1>7

-----------------------------------------------------------------------------
(* The steps that change the lists.                                          *)

\* What EspacioInv gives to the lemmas about the lists outside a compaction.
LEMMA EspacioEnReposo ==
  ASSUME IInv, km.pc # "compactar"
  PROVE  /\ total \in Nat
         /\ HuecosValidos(huecos, total) /\ SegmentosValidos(tabla, total) /\ Separados(huecos, tabla)
BY DEF IInv, EspacioInv, EstructurasOK

\* The lists after such a step, when no stick is pending and no compaction starts.
LEMMA EspacioRehecho ==
  ASSUME IInv, km.pc # "libre" \/ \A k \in Sticks : sticks[k].pc # "sumado",
         UNCHANGED <<total, sticks>>, km'.pc # "compactar",
         HuecosValidos(huecos', total), SegmentosValidos(tabla', total), Separados(huecos', tabla')
  PROVE  EspacioInv' /\ StickPendiente' /\ EnCompactacion'
<1>1. EspacioInv'
  BY DEF EspacioInv, HuecosValidos, SegmentosValidos, Separados
<1>2. StickPendiente'
  BY SinSticksPendientes
<1>3. EnCompactacion'
  BY DEF EnCompactacion
<1> QED BY <1>1, <1>2, <1>3

\* crear_segmento, first tried or tried again after a compaction.
LEMMA PasoCrearSegmento ==
  ASSUME IInv, NEW p \in vivos, NEW id \in Ids, NEW n \in Nat,
         km.pc \in {"libre", "reintentar"},
         \A k \in Sticks : sticks[k].pc # "sumado",
         crear_segmento(p, id, n),
         UNCHANGED <<total, sticks, vivos, swap, memoria, escritos, compactado>>
  PROVE  IInv'
<1>0. p \in Procesos /\ vivos \subseteq Procesos /\ escritos \subseteq Procesos \X Ids
  BY DEF IInv, EstructurasOK
<1>1. CASE UNCHANGED <<huecos, tabla>> /\ km' = KMLibre
  BY <1>0, <1>1, Responde DEF swap
<1>2. CASE n > 0 /\ \E h \in buscar_hueco_candidato(n) : CreaEn(h, p, id, n)
  <2>1. PICK h \in huecos : n <= h.tam /\ CreaEn(h, p, id, n)
    <3>1. \A h \in buscar_hueco_candidato(n) : h \in huecos /\ h.tam >= n
      BY DEF buscar_hueco_candidato
    <3>2. \A h \in huecos : h.tam \in Nat
      BY DEF IInv, EstructurasOK, Hueco
    <3> QED BY <1>2, <3>1, <3>2
  <2>2. n \in Nat \ {0}
    BY <1>2
  <2>3. km' = KMLibre /\ km'.pc = "libre"
    BY <2>1 DEF CreaEn, Termina, KMLibre
  <2>4. /\ HuecosValidos(huecos', total) /\ SegmentosValidos(tabla', total)
        /\ Separados(huecos', tabla')
    BY <1>0, <2>1, <2>2, EspacioEnReposo, ReservarEspacio DEF CreaEn
  <2>5. EspacioInv' /\ StickPendiente' /\ EnCompactacion'
    BY <2>3, <2>4, EspacioRehecho
  <2>6. EstructurasOK'
    BY <2>3, <2>4 DEF IInv, EstructurasOK, KMLibre, HuecosValidos, SegmentosValidos, swap
  <2>7. Pedido'
    BY <2>3 DEF Pedido
  <2>8. MuertosSinRecursos'
    BY <1>0, <2>1 DEF IInv, MuertosSinRecursos, DeSwap, CreaEn, EstructurasOK, swap
  <2>9. BloquesConDuenio'
    BY DEF IInv, BloquesConDuenio, SinFallas, swap
  <2> QED BY <2>5, <2>6, <2>7, <2>8, <2>9 DEF IInv
<1> QED BY <1>1, <1>2 DEF crear_segmento, NoCrea, Termina

\* MSG_MEM_ALLOC: crear_segmento, or the wait for the eviction.
LEMMA PasoMemAlloc ==
  ASSUME IInv, ~ConexionEnCaliente, NEW p \in Procesos, NEW id \in Ids, NEW n \in Tamanios,
         mem_alloc(p, id, n)
  PROVE  IInv'
<1>1. /\ p \in vivos /\ km.pc = "libre" /\ n \in Nat
      /\ \A k \in Sticks : sticks[k].pc # "sumado"
  BY KernelMemoryAssumption DEF mem_alloc, Atiende
<1>2. CASE crear_segmento(p, id, n)
  BY <1>1, <1>2, PasoCrearSegmento DEF mem_alloc
<1>3. CASE Sigue("desalojo", p, id, n) /\ UNCHANGED <<huecos, tabla>>
  BY <1>1, <1>3, EmpiezaPedido DEF mem_alloc, swap
<1> QED BY <1>2, <1>3 DEF mem_alloc

\* crear_segmento once more, after the compaction.
LEMMA PasoReintentar ==
  ASSUME IInv, reintentar
  PROVE  IInv'
<1>1. /\ km.pid \in vivos /\ km.id \in Ids /\ km.tam \in Nat /\ km.pc = "reintentar"
      /\ \A k \in Sticks : sticks[k].pc # "sumado"
      /\ vivos \subseteq Procesos /\ escritos \subseteq Procesos \X Ids
  BY SinSticksPendientes DEF IInv, Pedido, EstructurasOK, reintentar
<1>2. CASE crear_segmento(km.pid, km.id, km.tam)
  BY <1>1, <1>2, PasoCrearSegmento DEF reintentar
<1>3. CASE NoCrea("ERROR")
  BY <1>1, <1>3, Responde DEF reintentar, NoCrea, Termina, swap
<1> QED BY <1>2, <1>3 DEF reintentar

\* A segment leaves its table and its bytes return to the holes.
LEMMA PasoMemFree ==
  ASSUME IInv, ~ConexionEnCaliente, NEW p \in Procesos, NEW id \in Ids, mem_free(p, id)
  PROVE  IInv'
<1>1. /\ p \in vivos /\ km.pc = "libre" /\ km' = KMLibre /\ km'.pc = "libre"
      /\ \A k \in Sticks : sticks[k].pc # "sumado"
      /\ vivos \subseteq Procesos /\ escritos \subseteq Procesos \X Ids
  BY DEF mem_free, Atiende, Termina, KMLibre, IInv, EstructurasOK
<1>2. CASE UNCHANGED <<huecos, tabla, escritos>>
  BY <1>1, <1>2, Responde DEF mem_free, swap
<1>3. CASE \E s \in tabla[p] :
             /\ tabla' = [tabla EXCEPT ![p] = @ \ {s}]
             /\ huecos' = registrar_hueco(huecos, s.base, s.tam)
             /\ escritos' = escritos \ {<<p, id>>}
  <2>1. PICK s \in tabla[p] :
             /\ tabla' = [tabla EXCEPT ![p] = @ \ {s}]
             /\ huecos' = registrar_hueco(huecos, s.base, s.tam)
             /\ escritos' = escritos \ {<<p, id>>}
    BY <1>3
  <2>2. /\ HuecosValidos(huecos', total) /\ SegmentosValidos(tabla', total)
        /\ Separados(huecos', tabla')
    BY <1>1, <2>1, EspacioEnReposo, LiberarEspacio
  <2>3. EspacioInv' /\ StickPendiente' /\ EnCompactacion'
    BY <1>1, <2>2, EspacioRehecho DEF mem_free
  <2>4. EstructurasOK'
    BY <1>1, <2>1, <2>2
    DEF IInv, EstructurasOK, KMLibre, HuecosValidos, SegmentosValidos, swap, mem_free
  <2>5. Pedido'
    BY <1>1 DEF Pedido
  <2>6. MuertosSinRecursos'
    BY <1>1, <2>1 DEF IInv, MuertosSinRecursos, DeSwap, mem_free, swap, EstructurasOK
  <2>7. BloquesConDuenio'
    BY DEF IInv, BloquesConDuenio, SinFallas, swap, mem_free
  <2> QED BY <2>3, <2>4, <2>5, <2>6, <2>7 DEF IInv
<1> QED BY <1>2, <1>3 DEF mem_free

\* destruir_proceso frees the bytes of one more segment.
LEMMA PasoDestruirSegmento ==
  ASSUME IInv, destruirSegmento
  PROVE  IInv'
<1>1. /\ km.pid \in Procesos /\ km.pc = "destruir" /\ km' = km
      /\ \A k \in Sticks : sticks[k].pc # "sumado"
  BY SinSticksPendientes DEF IInv, Pedido, destruirSegmento
<1>2. PICK s \in tabla[km.pid] :
        /\ tabla' = [tabla EXCEPT ![km.pid] = @ \ {s}]
        /\ huecos' = registrar_hueco(huecos, s.base, s.tam)
  BY DEF destruirSegmento
<1>3. /\ HuecosValidos(huecos', total) /\ SegmentosValidos(tabla', total)
      /\ Separados(huecos', tabla')
  BY <1>1, <1>2, EspacioEnReposo, LiberarEspacio
<1>4. EspacioInv' /\ StickPendiente' /\ EnCompactacion'
  BY <1>1, <1>3, EspacioRehecho DEF destruirSegmento
<1>5. EstructurasOK'
  BY <1>1, <1>3 DEF IInv, EstructurasOK, HuecosValidos, SegmentosValidos, swap, destruirSegmento
<1>6. Pedido'
  BY <1>1 DEF IInv, Pedido, destruirSegmento
<1>7. MuertosSinRecursos'
  BY <1>1, <1>2 DEF IInv, MuertosSinRecursos, DeSwap, destruirSegmento, swap, EstructurasOK
<1>8. BloquesConDuenio'
  BY DEF IInv, BloquesConDuenio, SinFallas, swap, destruirSegmento
<1> QED BY <1>4, <1>5, <1>6, <1>7, <1>8 DEF IInv

\* destruir_proceso frees the blocks of the swap and is done.
LEMMA PasoDestruirFin ==
  ASSUME IInv, destruirFin
  PROVE  IInv'
<1>1. /\ km.pid \in Procesos /\ km.pc = "destruir" /\ km' = KMLibre /\ km'.pc = "libre"
      /\ tabla[km.pid] = {} /\ UNCHANGED <<total, huecos, sticks, tabla>>
  BY DEF IInv, Pedido, destruirFin, Termina, KMLibre, espacio, enTablas
<1>2. EspacioInv' /\ StickPendiente' /\ EnCompactacion'
  BY <1>1, EspacioQuieto
<1>3. enSwap' \subseteq enSwap /\ bitmap' \subseteq bitmap /\ enSwap \subseteq SegmentoSwap
  BY DEF destruirFin, IInv, EstructurasOK
<1>4. EstructurasOK'
  BY <1>1, <1>3 DEF IInv, EstructurasOK, KMLibre, enTablas, destruirFin
<1>5. Pedido'
  BY <1>1 DEF Pedido
<1>6. MuertosSinRecursos'
  BY <1>1 DEF IInv, MuertosSinRecursos, DeSwap, destruirFin, enTablas
<1>7. BloquesConDuenio'
  BY DEF IInv, BloquesConDuenio, SinFallas, DeSwap, destruirFin
<1> QED BY <1>2, <1>4, <1>5, <1>6, <1>7 DEF IInv

\* suspender_proceso moves one more segment to a free block of the swap.
LEMMA PasoSuspenderSegmento ==
  ASSUME IInv, suspenderSegmento
  PROVE  IInv'
<1>1. /\ km.pid \in Procesos /\ km.pid \in vivos /\ km.pc = "suspender" /\ km' = km
      /\ \A k \in Sticks : sticks[k].pc # "sumado"
  BY SinSticksPendientes DEF IInv, Pedido, suspenderSegmento
<1>2. PICK s \in tabla[km.pid], b \in encontrar_bloque_libre :
        /\ bitmap' = bitmap \cup {b}
        /\ enSwap' = enSwap \cup {[pid |-> km.pid, id |-> s.id, tam |-> s.tam, bloque |-> b]}
        /\ tabla' = [tabla EXCEPT ![km.pid] = @ \ {s}]
        /\ huecos' = registrar_hueco(huecos, s.base, s.tam)
  BY DEF suspenderSegmento
<1>3. b \in 0..(Bloques - 1) /\ b \notin bitmap /\ s \in Segmento
  BY <1>1, <1>2 DEF encontrar_bloque_libre, IInv, EstructurasOK
<1>4. /\ HuecosValidos(huecos', total) /\ SegmentosValidos(tabla', total)
      /\ Separados(huecos', tabla')
  BY <1>1, <1>2, EspacioEnReposo, LiberarEspacio
<1>5. EspacioInv' /\ StickPendiente' /\ EnCompactacion'
  BY <1>1, <1>4, EspacioRehecho DEF suspenderSegmento
<1>6. [pid |-> km.pid, id |-> s.id, tam |-> s.tam, bloque |-> b] \in SegmentoSwap
  BY <1>1, <1>3, KernelMemoryAssumption DEF SegmentoSwap, Segmento
<1>7. EstructurasOK'
  BY <1>1, <1>2, <1>3, <1>4, <1>6
  DEF IInv, EstructurasOK, HuecosValidos, SegmentosValidos, suspenderSegmento
<1>8. Pedido'
  BY <1>1 DEF IInv, Pedido, suspenderSegmento
<1>9. MuertosSinRecursos'
  BY <1>1, <1>2 DEF IInv, MuertosSinRecursos, DeSwap, suspenderSegmento, EstructurasOK
<1>10. BloquesConDuenio'
  <2> DEFINE e == [pid |-> km.pid, id |-> s.id, tam |-> s.tam, bloque |-> b]
  <2>1. e.bloque = b /\ enSwap' = enSwap \cup {e}
    BY <1>2
  <2>2. \A f \in enSwap : f.bloque \in bitmap
    BY DEF IInv, BloquesConDuenio
  <2> HIDE DEF e
  <2>3. \A f, g \in enSwap' : f.bloque = g.bloque => f = g
    BY <1>3, <2>1, <2>2 DEF IInv, BloquesConDuenio
  <2>4. {f.bloque : f \in enSwap'} = {f.bloque : f \in enSwap} \cup {b}
    BY <2>1
  <2>5. SinFallas' => SinFallas
    BY DEF SinFallas, suspenderSegmento
  <2> QED BY <1>2, <2>3, <2>4, <2>5 DEF IInv, BloquesConDuenio
<1> QED BY <1>5, <1>7, <1>8, <1>9, <1>10 DEF IInv

\* suspender_proceso gives up: the segment is lost and the block stays in use.
LEMMA PasoSuspenderFalla ==
  ASSUME IInv, suspenderFalla
  PROVE  IInv'
<1>1. /\ km.pid \in Procesos /\ km.pid \in vivos /\ km.pc = "suspender"
      /\ km' = KMLibre /\ km'.pc = "libre"
      /\ \A k \in Sticks : sticks[k].pc # "sumado"
      /\ UNCHANGED <<total, huecos, sticks, vivos>>
  BY SinSticksPendientes DEF IInv, Pedido, suspenderFalla, Termina, KMLibre, espacio
<1>2. PICK s \in tabla[km.pid] : tabla' = [tabla EXCEPT ![km.pid] = @ \ {s}]
  BY DEF suspenderFalla
<1>3. SegmentosValidos(tabla', total) /\ \A q \in Procesos : tabla'[q] \subseteq tabla[q]
  <2> DEFINE p == km.pid
  <2>1. SegmentosValidos(tabla, total)
    BY <1>1, EspacioEnReposo
  <2>2. p \in Procesos /\ s \in tabla[p] /\ tabla' = [tabla EXCEPT ![p] = @ \ {s}]
    BY <1>1, <1>2
  <2> HIDE DEF p
  <2> QED BY <2>1, <2>2, QuitarSegmento
<1>4. HuecosValidos(huecos', total) /\ Separados(huecos', tabla')
  BY <1>1, <1>3, EspacioEnReposo DEF Separados
<1>5. EspacioInv' /\ StickPendiente' /\ EnCompactacion'
  BY <1>1, <1>3, <1>4, EspacioRehecho
<1>6. /\ bitmap \subseteq bitmap' /\ bitmap' \subseteq 0..(Bloques - 1)
      /\ swapVivo' \in BOOLEAN /\ fallas' \in Nat /\ ~SinFallas'
  <2>1. bitmap \subseteq bitmap' /\ bitmap' \subseteq 0..(Bloques - 1)
    BY DEF suspenderFalla, encontrar_bloque_libre, IInv, EstructurasOK
  <2>2. swapVivo \in BOOLEAN /\ fallas \in Nat
    BY DEF IInv, EstructurasOK
  <2>3. \/ swapVivo' = FALSE /\ fallas' = fallas
        \/ swapVivo = FALSE /\ swapVivo' = swapVivo /\ fallas' = fallas
        \/ fallas' = fallas + 1 /\ swapVivo' = swapVivo
    BY <2>2, Zenon DEF suspenderFalla
  <2>4. swapVivo' \in BOOLEAN /\ fallas' \in Nat
    <3>1. swapVivo' \in BOOLEAN
      BY <2>2, <2>3, Zenon
    <3>2. fallas' = fallas \/ fallas' = fallas + 1
      BY <2>3, Zenon
    <3> QED BY <2>2, <3>1, <3>2
  <2>5. ~(swapVivo' /\ fallas' = 0)
    <3>1. fallas + 1 # 0
      BY <2>2
    <3> QED BY <2>3, <3>1, Zenon
  <2> QED BY <2>1, <2>4, <2>5 DEF SinFallas
<1>7. EstructurasOK'
  BY <1>1, <1>3, <1>6 DEF IInv, EstructurasOK, KMLibre, SegmentosValidos, suspenderFalla
<1>8. Pedido'
  BY <1>1 DEF Pedido
<1>9. MuertosSinRecursos'
  BY <1>1, <1>3 DEF IInv, MuertosSinRecursos, DeSwap, suspenderFalla
<1>10. BloquesConDuenio'
  BY <1>6 DEF IInv, BloquesConDuenio, suspenderFalla
<1> QED BY <1>5, <1>7, <1>8, <1>9, <1>10 DEF IInv

\* desuspender_proceso brings one more segment back to a hole.
LEMMA PasoDesuspenderSegmento ==
  ASSUME IInv, desuspenderSegmento
  PROVE  IInv'
<1>1. /\ km.pid \in Procesos /\ km.pid \in vivos /\ km.pc \notin {"libre", "compactar", "destruir"}
      /\ km' = km /\ \A k \in Sticks : sticks[k].pc # "sumado"
  BY SinSticksPendientes DEF IInv, Pedido, desuspenderSegmento, Desuspendiendo
<1>0. PICK e \in DeSwap(km.pid) : \E h \in buscar_hueco_candidato(e.tam) :
        /\ huecos' = Reservado(h, e.tam)
        /\ tabla' = [tabla EXCEPT ![km.pid] = @ \cup {[id |-> e.id, base |-> h.base, tam |-> e.tam]}]
        /\ enSwap' = enSwap \ {e}
        /\ bitmap' = bitmap \ {e.bloque}
  BY DEF desuspenderSegmento
<1>2. PICK h \in buscar_hueco_candidato(e.tam) :
        /\ huecos' = Reservado(h, e.tam)
        /\ tabla' = [tabla EXCEPT ![km.pid] = @ \cup {[id |-> e.id, base |-> h.base, tam |-> e.tam]}]
        /\ enSwap' = enSwap \ {e}
        /\ bitmap' = bitmap \ {e.bloque}
  BY <1>0
<1>3. e \in enSwap /\ e.id \in Ids /\ e.tam \in Nat \ {0}
  BY <1>2 DEF DeSwap, IInv, EstructurasOK, SegmentoSwap
<1>4. h \in huecos /\ e.tam <= h.tam
  BY <1>2, <1>3 DEF buscar_hueco_candidato, IInv, EstructurasOK, Hueco
<1>5. /\ HuecosValidos(huecos', total) /\ SegmentosValidos(tabla', total)
      /\ Separados(huecos', tabla')
  BY <1>1, <1>2, <1>3, <1>4, EspacioEnReposo, ReservarEspacio
<1>6. EspacioInv' /\ StickPendiente' /\ EnCompactacion'
  BY <1>1, <1>5, EspacioRehecho DEF desuspenderSegmento
<1>7. EstructurasOK'
  BY <1>1, <1>2, <1>5 DEF IInv, EstructurasOK, HuecosValidos, SegmentosValidos, desuspenderSegmento
<1>8. Pedido'
  BY <1>1 DEF IInv, Pedido, desuspenderSegmento
<1>9. MuertosSinRecursos'
  BY <1>1, <1>2 DEF IInv, MuertosSinRecursos, DeSwap, desuspenderSegmento, EstructurasOK
<1>10. BloquesConDuenio'
  BY <1>2, <1>3 DEF IInv, BloquesConDuenio, SinFallas, desuspenderSegmento
<1> QED BY <1>6, <1>7, <1>8, <1>9, <1>10 DEF IInv

-----------------------------------------------------------------------------
(* Compaction.                                                               *)

\* The scheduler agrees: every segment there is waits to be moved.
LEMMA PasoDesalojoRealizado ==
  ASSUME IInv, desalojoRealizado
  PROVE  IInv'
<1>1. /\ km.pid \in Procesos /\ km.pid \in vivos /\ km.id \in Ids /\ km.pc = "desalojo"
      /\ km.cursor = 0 /\ \A k \in Sticks : sticks[k].pc # "sumado"
      /\ vivos \subseteq Procesos /\ total \in Nat
  BY SinSticksPendientes DEF IInv, Pedido, desalojoRealizado, EstructurasOK
<1>2. /\ km' = [km EXCEPT !.pc = "compactar", !.pend = obtener_todos]
      /\ UNCHANGED <<total, huecos, sticks, vivos, tabla>>
  BY DEF desalojoRealizado, espacio, enTablas
<1>3. /\ km'.pc = "compactar" /\ km'.pid = km.pid /\ km'.id = km.id
      /\ km'.cursor = 0 /\ km'.pend = obtener_todos
  BY <1>1, <1>2 DEF IInv, EstructurasOK
<1>4. SegmentosValidos(tabla, total)
  BY <1>1, EspacioEnReposo
<1>5. obtener_todos \in SUBSET [pid : Procesos, seg : Segmento]
  <2>1. \A p \in vivos : \A s \in tabla[p] :
          [pid |-> p, seg |-> s] \in [pid : Procesos, seg : Segmento]
    BY <1>1, <1>4 DEF SegmentosValidos
  <2> QED BY <2>1 DEF obtener_todos
<1>6. EstructurasOK'
  BY <1>2, <1>5 DEF IInv, EstructurasOK, desalojoRealizado, swap
<1>7. EspacioInv'
  BY <1>1, <1>2, <1>3, EspacioEnReposo DEF EspacioInv, HuecosValidos, SegmentosValidos
<1>8. StickPendiente'
  BY <1>1, <1>2, SinSticksPendientes
<1>9. EnCompactacion'
  <2>1. \A x \in obtener_todos : x.seg \in tabla[x.pid] /\ 0 <= x.seg.base
    BY <1>1, <1>4 DEF obtener_todos, SegmentosValidos, Segmento
  <2>2. \A p \in Procesos : \A s \in tabla[p] : [pid |-> p, seg |-> s] \in obtener_todos
    BY <1>1 DEF obtener_todos, IInv, MuertosSinRecursos
  <2> QED BY <1>1, <1>2, <1>3, <2>1, <2>2 DEF EnCompactacion
<1>10. Pedido'
  BY <1>1, <1>2, <1>3 DEF Pedido
<1>11. MuertosSinRecursos'
  BY <1>1, <1>2 DEF IInv, MuertosSinRecursos, DeSwap, desalojoRealizado, swap
<1>12. BloquesConDuenio'
  BY DEF IInv, BloquesConDuenio, SinFallas, desalojoRealizado, swap
<1> QED BY <1>6, <1>7, <1>8, <1>9, <1>10, <1>11, <1>12 DEF IInv

\* The pending segment with the lowest base goes to the cursor: it cannot reach the
\* next pending one, which starts where it ended or further.
LEMMA PasoCompactarSegmento ==
  ASSUME IInv, compactarSegmento
  PROVE  IInv'
<1>1. /\ km.pid \in Procesos /\ km.pid \in vivos /\ km.id \in Ids /\ km.pc = "compactar"
      /\ \A k \in Sticks : sticks[k].pc # "sumado"
      /\ vivos \subseteq Procesos /\ total \in Nat /\ km.cursor \in Nat
      /\ SegmentosValidos(tabla, total) /\ km.pend \in SUBSET [pid : Procesos, seg : Segmento]
  BY SinSticksPendientes DEF IInv, EspacioInv, Pedido, compactarSegmento, EstructurasOK
<1>2. PICK x \in SiguienteDe(km.pend) :
        /\ tabla' = [tabla EXCEPT ![x.pid] = (@ \ {x.seg}) \cup {[x.seg EXCEPT !.base = km.cursor]}]
        /\ km' = [km EXCEPT !.cursor = @ + x.seg.tam, !.pend = @ \ {x}]
  BY DEF compactarSegmento
<1> DEFINE p == x.pid
           s == x.seg
           m == [s EXCEPT !.base = km.cursor]
<1>3. /\ x \in km.pend /\ p \in Procesos /\ s \in tabla[p] /\ x = [pid |-> p, seg |-> s]
      /\ \A y \in km.pend : s.base <= y.seg.base
  BY <1>1, <1>2 DEF SiguienteDe, IInv, EnCompactacion
<1>4. /\ s \in Segmento /\ s.base \in Nat /\ s.tam \in Nat \ {0} /\ km.cursor <= s.base
      /\ Fin(s) = s.base + s.tam /\ Fin(s) <= total
  BY <1>1, <1>3 DEF IInv, EnCompactacion, SegmentosValidos, Segmento, Fin
<1>5. m \in Segmento /\ m.base = km.cursor /\ Fin(m) = km.cursor + s.tam /\ Fin(m) <= Fin(s)
  BY <1>1, <1>4 DEF Segmento, Fin
<1>6. /\ km'.pc = "compactar" /\ km'.pid = km.pid /\ km'.id = km.id /\ km'.cursor = Fin(m)
      /\ km'.pend = km.pend \ {x} /\ UNCHANGED <<total, huecos, sticks, vivos>>
  BY <1>1, <1>2, <1>5 DEF IInv, EstructurasOK, compactarSegmento, espacio
<1>7. tabla' = [tabla EXCEPT ![p] = (@ \ {s}) \cup {m}]
  BY <1>2
<1> HIDE DEF m, p, s
<1>8. tabla' \in [Procesos -> SUBSET Segmento]
  BY <1>1, <1>3, <1>5, <1>7 DEF SegmentosValidos
\* Whatever is in a table afterwards is the segment moved or one left where it was.
<1>9. \A q \in Procesos : \A r \in tabla'[q] :
        \/ q = p /\ r = m
        \/ r \in tabla[q] /\ ~(q = p /\ r = s)
  BY <1>1, <1>3, <1>7 DEF SegmentosValidos
<1>10. \A q \in Procesos : \A r \in tabla[q] :
         /\ r.base \in Nat /\ Fin(r) \in Nat /\ r.base < Fin(r) /\ Fin(r) <= total
         /\ ~(q = p /\ r = s) => Aparte(s, r)
  BY <1>1, <1>3 DEF SegmentosValidos, Segmento, Fin
<1>11. \A q \in Procesos : \A r \in tabla[q] : ~(q = p /\ r = s) =>
         \/ Fin(r) <= km.cursor
         \/ [pid |-> q, seg |-> r] \in km.pend /\ Fin(s) <= r.base
  <2> SUFFICES ASSUME NEW q \in Procesos, NEW r \in tabla[q], ~(q = p /\ r = s),
                      ~(Fin(r) <= km.cursor)
               PROVE  [pid |-> q, seg |-> r] \in km.pend /\ Fin(s) <= r.base
    OBVIOUS
  <2>1. [pid |-> q, seg |-> r] \in km.pend
    BY <1>1 DEF IInv, EnCompactacion
  <2>2. s.base <= r.base
    BY <1>3, <2>1
  <2> QED BY <1>4, <1>10, <2>1, <2>2 DEF Aparte
<1>12. SegmentosValidos(tabla', total)
  <2>1. \A q \in Procesos : \A r \in tabla'[q] : Fin(r) <= total
    BY <1>4, <1>5, <1>9, <1>10, <1>1 DEF Fin
  <2>2. \A q, u \in Procesos : \A r \in tabla'[q], v \in tabla'[u] : (q = u /\ r = v) \/ Aparte(r, v)
    <3> SUFFICES ASSUME NEW q \in Procesos, NEW u \in Procesos, NEW r \in tabla'[q],
                        NEW v \in tabla'[u], ~(q = u /\ r = v)
                 PROVE  Aparte(r, v)
      OBVIOUS
    <3>1. ASSUME NEW w \in Procesos, NEW z \in tabla[w], ~(w = p /\ z = s)
          PROVE  Fin(z) <= m.base \/ Fin(m) <= z.base
      <4>1. CASE Fin(z) <= km.cursor
        BY <1>5, <4>1
      <4>2. CASE Fin(s) <= z.base
        <5>1. z.base \in Nat
          BY <1>10, <3>1
        <5> QED BY <1>1, <1>4, <1>5, <4>2, <5>1
      <4> QED BY <1>11, <3>1, <4>1, <4>2
    <3>2. CASE r \in tabla[q] /\ v \in tabla[u]
      BY <3>2, <1>1 DEF SegmentosValidos
    <3>3. CASE r = m /\ q = p /\ v \in tabla[u] /\ ~(u = p /\ v = s)
      BY <3>1, <3>3 DEF Aparte
    <3>4. CASE v = m /\ u = p /\ r \in tabla[q] /\ ~(q = p /\ r = s)
      BY <3>1, <3>4 DEF Aparte
    <3> QED BY <1>9, <3>2, <3>3, <3>4
  <2> QED BY <1>8, <2>1, <2>2 DEF SegmentosValidos
<1>13. EspacioInv'
  BY <1>6, <1>12 DEF IInv, EspacioInv, HuecosValidos, SegmentosValidos
<1>14. StickPendiente'
  BY <1>1, <1>6, SinSticksPendientes
<1>15. EnCompactacion'
  <2>1. Fin(m) <= total /\ Fin(m) \in Nat /\ km.cursor <= Fin(m)
    BY <1>1, <1>4, <1>5
  <2>2. \A y \in km.pend \ {x} : y.seg \in tabla'[y.pid] /\ Fin(m) <= y.seg.base
    <3> TAKE y \in km.pend \ {x}
    <3>1. /\ y.pid \in Procesos /\ y.seg \in tabla[y.pid] /\ y = [pid |-> y.pid, seg |-> y.seg]
          /\ km.cursor <= y.seg.base
      BY <1>1 DEF IInv, EnCompactacion
    <3>2. ~(y.pid = p /\ y.seg = s)
      BY <1>3, <3>1
    <3>3. y.seg \in tabla'[y.pid]
      BY <1>1, <1>3, <1>7, <3>1, <3>2 DEF SegmentosValidos
    <3>4. Fin(s) <= y.seg.base
      BY <1>1, <1>10, <1>11, <3>1, <3>2
    <3> QED BY <1>4, <1>5, <1>10, <2>1, <3>1, <3>3, <3>4
  <2>3. \A q \in Procesos : \A r \in tabla'[q] :
          [pid |-> q, seg |-> r] \in km.pend \ {x} \/ Fin(r) <= Fin(m)
    <3> TAKE q \in Procesos
    <3> TAKE r \in tabla'[q]
    <3>1. CASE r = m
      BY <3>1, <2>1
    <3>2. CASE r \in tabla[q] /\ ~(q = p /\ r = s)
      <4>1. [pid |-> q, seg |-> r] # x
        BY <1>3, <3>2
      <4> QED BY <1>1, <1>10, <1>11, <2>1, <3>2, <4>1
    <3> QED BY <1>9, <3>1, <3>2
  <2> QED BY <1>6, <2>1, <2>2, <2>3 DEF EnCompactacion
<1>16. EstructurasOK'
  <2>1. km.cursor + s.tam \in Nat /\ km.pend \ {x} \subseteq km.pend
    BY <1>1, <1>4
  <2>2. km' = [km EXCEPT !.cursor = km.cursor + s.tam, !.pend = km.pend \ {x}]
    BY <1>2 DEF s
  <2> QED BY <1>8, <1>1, <2>1, <2>2 DEF IInv, EstructurasOK, compactarSegmento, swap, espacio
<1>17. Pedido'
  BY <1>1, <1>6 DEF Pedido
<1>18. MuertosSinRecursos'
  <2>1. p \in vivos
    BY <1>1, <1>3 DEF IInv, MuertosSinRecursos
  <2> QED BY <1>1, <1>6, <1>7, <2>1
      DEF IInv, MuertosSinRecursos, DeSwap, compactarSegmento, swap, SegmentosValidos
<1>19. BloquesConDuenio'
  BY DEF IInv, BloquesConDuenio, SinFallas, compactarSegmento, swap
<1> QED BY <1>13, <1>14, <1>15, <1>16, <1>17, <1>18, <1>19 DEF IInv

\* One hole is left, from the cursor to the end of the memory.
LEMMA PasoReconstruir ==
  ASSUME IInv, reconstruir_huecos_desde
  PROVE  IInv'
<1>1. /\ km.pid \in Procesos /\ km.pid \in vivos /\ km.id \in Ids /\ km.pc = "compactar"
      /\ km.pend = {} /\ \A k \in Sticks : sticks[k].pc # "sumado"
      /\ total \in Nat /\ km.cursor \in Nat /\ km.cursor <= total
      /\ SegmentosValidos(tabla, total)
  BY SinSticksPendientes
  DEF IInv, EspacioInv, Pedido, EnCompactacion, reconstruir_huecos_desde, EstructurasOK
<1>2. /\ km'.pc = "reintentar" /\ km'.pid = km.pid /\ km'.id = km.id
      /\ UNCHANGED <<total, sticks, vivos, tabla>>
  BY DEF reconstruir_huecos_desde, IInv, EstructurasOK, enTablas
<1>3. \A p \in Procesos : \A s \in tabla[p] : Fin(s) <= km.cursor
  BY <1>1 DEF IInv, EnCompactacion
<1>4. HuecosValidos(huecos', total) /\ Separados(huecos', tabla')
  <2>1. CASE km.cursor >= total /\ huecos' = {}
    BY <2>1 DEF HuecosValidos, Separados
  <2>2. CASE km.cursor < total /\ huecos' = {[base |-> km.cursor, tam |-> total - km.cursor]}
    <3> DEFINE h == [base |-> km.cursor, tam |-> total - km.cursor]
    <3>1. h \in Hueco /\ Fin(h) = total /\ h.base = km.cursor
      BY <1>1, <2>2 DEF Hueco, Fin
    <3>2. huecos' = {h}
      BY <2>2
    <3> HIDE DEF h
    <3>3. HuecosValidos(huecos', total)
      BY <1>1, <2>2, <3>1, <3>2 DEF HuecosValidos
    <3>4. Separados(huecos', tabla')
      BY <1>2, <1>3, <3>1, <3>2 DEF Separados, Aparte
    <3> QED BY <3>3, <3>4
  <2> QED BY <1>1, <2>1, <2>2 DEF reconstruir_huecos_desde
<1>5. EspacioInv' /\ StickPendiente' /\ EnCompactacion'
  BY <1>1, <1>2, <1>4, EspacioRehecho
<1>6. EstructurasOK'
  BY <1>4 DEF IInv, EstructurasOK, HuecosValidos, reconstruir_huecos_desde, enTablas, swap
<1>7. Pedido'
  BY <1>1, <1>2 DEF Pedido
<1>8. MuertosSinRecursos'
  BY <1>1, <1>2 DEF IInv, MuertosSinRecursos, DeSwap, reconstruir_huecos_desde, swap
<1>9. BloquesConDuenio'
  BY DEF IInv, BloquesConDuenio, SinFallas, reconstruir_huecos_desde, swap
<1> QED BY <1>5, <1>6, <1>7, <1>8, <1>9 DEF IInv

-----------------------------------------------------------------------------
(* Memory Sticks.                                                            *)

\* The memory grows, and everything in it ends where the new stick starts.
LEMMA PasoConectar ==
  ASSUME IInv, ~ConexionEnCaliente, NEW k \in Sticks, conectar_memory_stick(k)
  PROVE  IInv'
<1>1. /\ km.pc = "libre" /\ \A j \in Sticks : sticks[j].pc # "sumado"
      /\ total \in Nat /\ Tamanio[k] \in Nat /\ total' = total + Tamanio[k] /\ total' \in Nat
      /\ sticks' = [sticks EXCEPT ![k] = [pc |-> "sumado", base |-> total]]
      /\ UNCHANGED <<huecos, tabla, vivos, km>>
  <2>1. total \in Nat /\ Tamanio[k] \in Nat
    BY KernelMemoryAssumption DEF IInv, EstructurasOK
  <2>2. km.pc = "libre" /\ \A j \in Sticks : sticks[j].pc # "sumado"
    BY DEF conectar_memory_stick
  <2> QED BY <2>1, <2>2 DEF conectar_memory_stick, enTablas
<1>2. HuecosValidos(huecos, total) /\ SegmentosValidos(tabla, total) /\ Separados(huecos, tabla)
  BY <1>1, EspacioEnReposo
<1>3. HuecosValidos(huecos, total')
  <2>1. \A h \in huecos : Fin(h) \in Nat /\ Fin(h) <= total
    BY <1>2 DEF HuecosValidos, Hueco, Fin
  <2> QED BY <1>1, <1>2, <2>1 DEF HuecosValidos
<1>4. SegmentosValidos(tabla, total')
  <2>1. \A p \in Procesos : \A s \in tabla[p] : Fin(s) \in Nat /\ Fin(s) <= total
    BY <1>2 DEF SegmentosValidos, Segmento, Fin
  <2> QED BY <1>1, <1>2, <2>1 DEF SegmentosValidos
<1>5. EspacioInv'
  BY <1>1, <1>2, <1>3, <1>4 DEF EspacioInv, HuecosValidos, SegmentosValidos, Separados
<1>6. sticks' \in [Sticks -> [pc : {"fuera", "sumado", "listo"}, base : Nat]]
  BY <1>1 DEF IInv, EstructurasOK
<1>7. StickPendiente'
  <2>1. \A j \in Sticks : sticks'[j].pc = "sumado" => j = k
    BY <1>1 DEF IInv, EstructurasOK
  <2>2. sticks'[k].base = total
    BY <1>1 DEF IInv, EstructurasOK
  <2> QED BY <1>1, <1>2, <2>1, <2>2 DEF StickPendiente, HuecosValidos, SegmentosValidos
<1>8. EstructurasOK'
  BY <1>1, <1>6 DEF IInv, EstructurasOK, conectar_memory_stick, enTablas, swap
<1>9. EnCompactacion' /\ Pedido'
  BY <1>1 DEF IInv, EnCompactacion, Pedido
<1>10. MuertosSinRecursos'
  BY <1>1 DEF IInv, MuertosSinRecursos, DeSwap, conectar_memory_stick, swap
<1>11. BloquesConDuenio'
  BY DEF IInv, BloquesConDuenio, SinFallas, conectar_memory_stick, swap
<1> QED BY <1>5, <1>7, <1>8, <1>9, <1>10, <1>11 DEF IInv

\* registrar_hueco for the bytes of a stick that was already counted.
LEMMA PasoRegistrarHueco ==
  ASSUME IInv, NEW k \in Sticks, registrarHuecoDeStick(k)
  PROVE  IInv'
<1>1. /\ sticks[k].pc = "sumado" /\ sticks[k].base \in Nat /\ Tamanio[k] \in Nat
      /\ huecos' = registrar_hueco(huecos, sticks[k].base, Tamanio[k])
      /\ sticks' = [sticks EXCEPT ![k].pc = "listo"]
      /\ UNCHANGED <<total, tabla, vivos, km>>
  BY KernelMemoryAssumption DEF registrarHuecoDeStick, IInv, EstructurasOK, enTablas
<1>2. /\ km.pc = "libre" /\ \A j \in Sticks : sticks[j].pc = "sumado" => j = k
      /\ sticks[k].base + Tamanio[k] = total /\ total \in Nat
      /\ HuecosValidos(huecos, sticks[k].base) /\ SegmentosValidos(tabla, sticks[k].base)
  BY <1>1 DEF IInv, StickPendiente, EstructurasOK
<1>3. HuecosValidos(huecos, total) /\ SegmentosValidos(tabla, total) /\ Separados(huecos, tabla)
  BY <1>2, EspacioEnReposo
<1>4. \A h \in huecos : h.base + h.tam <= sticks[k].base
  BY <1>2 DEF HuecosValidos, Fin
<1>5. \A p \in Procesos : \A s \in tabla[p] :
        s \in Segmento /\ Fin(s) <= sticks[k].base /\ \A h \in huecos : Aparte(h, s)
  BY <1>2, <1>3 DEF SegmentosValidos, Separados
<1>6. HuecosValidos(huecos', total)
  BY <1>1, <1>2, <1>3, <1>4, RegistrarHueco
<1>7. Separados(huecos', tabla')
  BY <1>1, <1>2, <1>3, <1>4, <1>5, RegistrarHueco DEF Separados
<1>8. EspacioInv'
  BY <1>1, <1>3, <1>6, <1>7 DEF EspacioInv, HuecosValidos, SegmentosValidos
<1>9. /\ sticks' \in [Sticks -> [pc : {"fuera", "sumado", "listo"}, base : Nat]]
      /\ \A j \in Sticks : sticks'[j].pc # "sumado"
  BY <1>1, <1>2 DEF IInv, EstructurasOK
<1>10. StickPendiente' /\ EnCompactacion' /\ Pedido'
  BY <1>1, <1>2, <1>9 DEF IInv, StickPendiente, EnCompactacion, Pedido
<1>11. EstructurasOK'
  BY <1>1, <1>6, <1>9
  DEF IInv, EstructurasOK, HuecosValidos, registrarHuecoDeStick, enTablas, swap
<1>12. MuertosSinRecursos'
  BY <1>1 DEF IInv, MuertosSinRecursos, DeSwap, registrarHuecoDeStick, swap
<1>13. BloquesConDuenio'
  BY DEF IInv, BloquesConDuenio, SinFallas, registrarHuecoDeStick, swap
<1> QED BY <1>8, <1>10, <1>11, <1>12, <1>13 DEF IInv

-----------------------------------------------------------------------------
\* Every step of Kernel Memory, a stutter too, keeps the invariant.
LEMMA PasoIInv ==
  ASSUME ~ConexionEnCaliente, IInv, [Next]_vars
  PROVE  IInv'
<1>1. ASSUME NEW k \in Sticks, HiloStick(k)
      PROVE  IInv'
  BY <1>1, PasoConectar, PasoRegistrarHueco DEF HiloStick
<1>2. ASSUME NEW p \in Procesos, Solicitud(p)
      PROVE  IInv'
  <2>1. CASE destruir_proceso(p)
    BY <2>1, EmpiezaDestruir
  <2>2. ASSUME NEW id \in Ids, NEW n \in Tamanios, mem_alloc(p, id, n)
        PROVE  IInv'
    BY <2>2, PasoMemAlloc
  <2>3. ASSUME NEW id \in Ids, mem_free(p, id)
        PROVE  IInv'
    BY <2>3, PasoMemFree
  <2>4. CASE \/ crear_proceso(p) \/ suspender_proceso(p) \/ desuspender_proceso(p)
             \/ \E id \in Ids, op \in {"STDIN", "STDOUT"} : atenderIO(op, p, id)
    BY <2>4, PasosDeControl
  <2> QED BY <1>2, <2>1, <2>2, <2>3, <2>4 DEF Solicitud
<1>3. ASSUME Continua
      PROVE  IInv'
  BY <1>3, PasosDeControl, PasoDesalojoRealizado, PasoCompactarSegmento, PasoReconstruir,
     PasoReintentar, PasoSuspenderSegmento, PasoSuspenderFalla, PasoDesuspenderSegmento,
     PasoDestruirSegmento, PasoDestruirFin
  DEF Continua
<1>4. CASE UNCHANGED vars
  BY <1>4
  DEF vars, espacio, enTablas, swap, IInv, EstructurasOK, EspacioInv, HuecosValidos,
      SegmentosValidos, Separados, StickPendiente, EnCompactacion, Pedido, MuertosSinRecursos,
      DeSwap, BloquesConDuenio, SinFallas
<1> QED BY <1>1, <1>2, <1>3, <1>4 DEF Next

\* The invariant the theorems follow from holds in every reachable state.
THEOREM InvarianteInductivo ==
  ASSUME ~ConexionEnCaliente
  PROVE  Spec => []IInv
<1>1. Init => IInv
  BY InicioIInv
<1>2. IInv /\ [Next]_vars => IInv'
  BY PasoIInv
<1> QED BY <1>1, <1>2, PTL DEF Spec

\* The segments of all processes are disjoint and inside the memory, at every step of
\* ejecutar_compactacion too.
THEOREM SegmentosSiempreDisjuntos ==
  ASSUME ~ConexionEnCaliente
  PROVE  Spec => []SegmentosDisjuntos
<1>1. IInv => SegmentosDisjuntos
  BY DEF IInv, EspacioInv, SegmentosValidos, SegmentosDisjuntos
<1> QED BY <1>1, InvarianteInductivo, PTL

\* No hole of huecos_libres shares a byte with another or with a segment in use.
THEOREM HuecosSiempreLibres ==
  ASSUME ~ConexionEnCaliente
  PROVE  Spec => []HuecosLibres
<1>1. IInv => HuecosLibres
  BY DEF IInv, EspacioInv, HuecosValidos, Separados, HuecosLibres
<1> QED BY <1>1, InvarianteInductivo, PTL

\* registrar_hueco leaves no two neighbours apart, whatever is freed and in which order.
THEOREM HuecosSiempreConsolidados ==
  ASSUME ~ConexionEnCaliente
  PROVE  Spec => []HuecosConsolidados
<1>1. IInv => HuecosConsolidados
  BY DEF IInv, EspacioInv, HuecosValidos, HuecosConsolidados
<1> QED BY <1>1, InvarianteInductivo, PTL

\* A block of the swap never holds two segments, and none is lost while the swap has
\* not failed (encontrar_bloque_libre, liberar_bloque_swap).
THEOREM BloquesSiempreConDuenio ==
  ASSUME ~ConexionEnCaliente
  PROVE  Spec => []BloquesConDuenio
<1>1. IInv => BloquesConDuenio
  BY DEF IInv
<1> QED BY <1>1, InvarianteInductivo, PTL

\* destruir_proceso leaves neither a segment nor a block of the swap behind.
THEOREM MuertosSiempreSinRecursos ==
  ASSUME ~ConexionEnCaliente
  PROVE  Spec => []MuertosSinRecursos
<1>1. IInv => MuertosSinRecursos
  BY DEF IInv
<1> QED BY <1>1, InvarianteInductivo, PTL

-----------------------------------------------------------------------------
(* The contents of the memory and of the swap.                               *)

TiposContenido ==
  /\ memoria \in [Celdas -> Contenido]
  /\ disco \in [0..(Bloques - 1) -> [0..(TamanioBloque - 1) -> Contenido]]

\* What p wrote in its segment id is in the memory, or in a block of the swap.
EnMemoria(tb, mem, p, id) ==
  \E s \in tb[p] :
    s.id = id /\ \A d \in DOMAIN mem : s.base <= d /\ d < Fin(s) => mem[d] = <<p, id>>
EnDisco(sw, dk, p, id) ==
  \E e \in sw : /\ e.pid = p /\ e.id = id
                /\ \A i \in 0..(e.tam - 1) : i < TamanioBloque /\ dk[e.bloque][i] = <<p, id>>
Conservado(tb, mem, sw, dk, es) ==
  \A p \in Procesos, id \in Ids :
    <<p, id>> \in es => EnMemoria(tb, mem, p, id) \/ EnDisco(sw, dk, p, id)

\* No segment is longer than a block of the swap, in a memory never compacted.
Caben ==
  ~compactado => /\ \A p \in Procesos : \A s \in tabla[p] : s.tam <= TamanioBloque
                 /\ \A e \in enSwap : e.tam <= TamanioBloque

\* Only living processes have written something, and a compaction leaves its mark.
ContenidosInv ==
  /\ TiposContenido
  /\ escritos \subseteq vivos \X Ids
  /\ km.pc \in {"compactar", "reintentar"} => compactado
  /\ Caben
  /\ SinFallas /\ ~compactado => Conservado(tabla, memoria, enSwap, disco, escritos)

\* A segment as long as what is written in it, or read from it.
LEMMA EscritaTipo ==
  ASSUME TiposContenido, NEW s \in Segmento, NEW que \in [0..(s.tam - 1) -> Contenido]
  PROVE  /\ Escrita(s, que) \in [Celdas -> Contenido]
         /\ DOMAIN Escrita(s, que) = DOMAIN memoria /\ DOMAIN memoria = Celdas
         /\ \A d \in Celdas : s.base <= d /\ d < Fin(s) => Escrita(s, que)[d] = que[d - s.base]
         /\ \A d \in Celdas : ~(s.base <= d /\ d < Fin(s)) => Escrita(s, que)[d] = memoria[d]
<1>1. DOMAIN memoria = Celdas
  BY DEF TiposContenido
<1>2. \A d \in Celdas : s.base <= d /\ d < Fin(s) => d - s.base \in 0..(s.tam - 1)
  <2> TAKE d \in Celdas
  <2>1. d \in Int /\ s.base \in Nat /\ s.tam \in Nat
    BY DEF Celdas, Segmento
  <2> QED BY <2>1 DEF Fin
<1>3. \A d \in Celdas : s.base <= d /\ d < Fin(s) => que[d - s.base] \in Contenido
  BY <1>2
<1>4. \A d \in Celdas : memoria[d] \in Contenido
  BY DEF TiposContenido
<1> QED BY <1>1, <1>3, <1>4 DEF Escrita

\* The bytes of a block that is freed are forgotten, the others stay.
LEMMA OlvidadaTipo ==
  ASSUME TiposContenido, NEW b
  PROVE  /\ Olvidada(b) \in [Celdas -> Contenido]
         /\ DOMAIN Olvidada(b) = Celdas /\ DOMAIN memoria = Celdas
         /\ \A d \in Celdas : ~(b.base <= d /\ d < Fin(b)) => Olvidada(b)[d] = memoria[d]
BY DEF TiposContenido, Olvidada, Contenido

\* A process that reads or writes a segment in memory changes no other one.
LEMMA TraduceEfecto ==
  ASSUME IInv, TiposContenido, NEW op, NEW p \in Procesos, NEW id \in Ids, Traduce(op, p, id),
         UNCHANGED <<total, tabla>>
  PROVE  /\ memoria' \in [Celdas -> Contenido]
         /\ escritos' = escritos \/ escritos' = escritos \cup {<<p, id>>}
         /\ \A q \in Procesos, jd \in Ids :
              EnMemoria(tabla, memoria, q, jd) => EnMemoria(tabla', memoria', q, jd)
         /\ <<p, id>> \in escritos' => <<p, id>> \in escritos \/ EnMemoria(tabla', memoria', p, id)
<1>1. CASE UNCHANGED <<memoria, escritos>>
  <2>1. memoria' = memoria /\ escritos' = escritos /\ tabla' = tabla
    BY <1>1
  <2> QED BY <2>1 DEF TiposContenido
<1>2. CASE \E s \in tabla[p] :
             /\ s.id = id
             /\ memoria' = Escrita(s, [i \in 0..(s.tam - 1) |-> <<p, id>>])
             /\ escritos' = escritos \cup {<<p, id>>}
  <2>1. PICK s \in tabla[p] :
             /\ s.id = id
             /\ memoria' = Escrita(s, [i \in 0..(s.tam - 1) |-> <<p, id>>])
             /\ escritos' = escritos \cup {<<p, id>>}
    BY <1>2
  <2> DEFINE que == [i \in 0..(s.tam - 1) |-> <<p, id>>]
  <2>2. s \in Segmento /\ que \in [0..(s.tam - 1) -> Contenido]
    BY DEF IInv, EspacioInv, SegmentosValidos, Contenido
  <2>3. \A i \in 0..(s.tam - 1) : que[i] = <<p, id>>
    OBVIOUS
  <2>4. memoria' = Escrita(s, que)
    BY <2>1
  <2> HIDE DEF que
  <2>5. /\ memoria' \in [Celdas -> Contenido] /\ DOMAIN memoria' = Celdas /\ DOMAIN memoria = Celdas
        /\ \A d \in Celdas : s.base <= d /\ d < Fin(s) => memoria'[d] = que[d - s.base]
        /\ \A d \in Celdas : ~(s.base <= d /\ d < Fin(s)) => memoria'[d] = memoria[d]
    BY <2>2, <2>4, EscritaTipo
  <2>6. \A d \in Celdas : s.base <= d /\ d < Fin(s) => memoria'[d] = <<p, id>>
    <3> TAKE d \in Celdas
    <3> HAVE s.base <= d /\ d < Fin(s)
    <3>1. d \in Int /\ s.base \in Nat /\ s.tam \in Nat
      BY <2>2 DEF Celdas, Segmento
    <3>2. d - s.base \in 0..(s.tam - 1)
      BY <3>1 DEF Fin
    <3> QED BY <3>2, <2>3, <2>5
  <2>7. tabla' = tabla
    OBVIOUS
  <2>8. EnMemoria(tabla', memoria', p, id)
    BY <2>1, <2>5, <2>6, <2>7 DEF EnMemoria
  <2>9. ASSUME NEW q \in Procesos, NEW jd \in Ids, EnMemoria(tabla, memoria, q, jd)
        PROVE  EnMemoria(tabla', memoria', q, jd)
    <3>1. PICK r \in tabla[q] :
            r.id = jd /\ \A d \in DOMAIN memoria : r.base <= d /\ d < Fin(r) => memoria[d] = <<q, jd>>
      BY <2>9 DEF EnMemoria
    <3>2. CASE q = p /\ r = s
      BY <2>1, <2>8, <3>1, <3>2
    <3>3. CASE ~(q = p /\ r = s)
      <4>1. Aparte(r, s)
        BY <3>3 DEF IInv, EspacioInv, SegmentosValidos
      <4>2. \A d \in Celdas : r.base <= d /\ d < Fin(r) => ~(s.base <= d /\ d < Fin(s))
        <5>1. r \in Segmento
          BY DEF IInv, EspacioInv, SegmentosValidos
        <5>2. /\ r.base \in Nat /\ r.tam \in Nat /\ s.base \in Nat /\ s.tam \in Nat
              /\ \A d \in Celdas : d \in Int
          BY <5>1, <2>2 DEF Segmento, Celdas
        <5> QED BY <4>1, <5>2 DEF Aparte, Fin
      <4>3. \A d \in DOMAIN memoria' : r.base <= d /\ d < Fin(r) => memoria'[d] = <<q, jd>>
        BY <2>5, <3>1, <4>2
      <4> QED BY <2>7, <3>1, <4>3 DEF EnMemoria
    <3> QED BY <3>2, <3>3
  <2> QED BY <2>1, <2>5, <2>8, <2>9
<1> QED BY <1>1, <1>2 DEF Traduce

\* The bytes of a segment that leaves its table are forgotten: the others keep theirs.
LEMMA OlvidarConserva ==
  ASSUME IInv, TiposContenido, NEW p \in Procesos, NEW s \in tabla[p],
         tabla' = [tabla EXCEPT ![p] = @ \ {s}], memoria' = Olvidada(s)
  PROVE  /\ memoria' \in [Celdas -> Contenido]
         /\ \A q \in Procesos, jd \in Ids :
              EnMemoria(tabla, memoria, q, jd) /\ ~(q = p /\ jd = s.id) => EnMemoria(tabla', memoria', q, jd)
         /\ \A jd \in Ids :
              EnMemoria(tabla, memoria, p, jd) =>
                \/ EnMemoria(tabla', memoria', p, jd)
                \/ s.id = jd /\ \A d \in Celdas : s.base <= d /\ d < Fin(s) => memoria[d] = <<p, jd>>
<1>1. /\ memoria' \in [Celdas -> Contenido] /\ DOMAIN memoria' = Celdas /\ DOMAIN memoria = Celdas
      /\ \A d \in Celdas : ~(s.base <= d /\ d < Fin(s)) => memoria'[d] = memoria[d]
  BY OlvidadaTipo
<1>2. ASSUME NEW q \in Procesos, NEW r \in tabla[q], NEW jd, ~(q = p /\ r = s), r.id = jd,
             \A d \in DOMAIN memoria : r.base <= d /\ d < Fin(r) => memoria[d] = <<q, jd>>
      PROVE  EnMemoria(tabla', memoria', q, jd)
  <2>1. Aparte(r, s)
    BY <1>2 DEF IInv, EspacioInv, SegmentosValidos
  <2>2. \A d \in Celdas : r.base <= d /\ d < Fin(r) => ~(s.base <= d /\ d < Fin(s))
    <3>1. r \in Segmento /\ s \in Segmento
      BY DEF IInv, EspacioInv, SegmentosValidos
    <3>2. /\ r.base \in Nat /\ r.tam \in Nat /\ s.base \in Nat /\ s.tam \in Nat
          /\ \A d \in Celdas : d \in Int
      BY <3>1 DEF Segmento, Celdas
    <3> QED BY <2>1, <3>2 DEF Aparte, Fin
  <2>3. r \in tabla'[q]
    BY <1>2 DEF IInv, EstructurasOK
  <2>4. \A d \in DOMAIN memoria' : r.base <= d /\ d < Fin(r) => memoria'[d] = <<q, jd>>
    BY <1>1, <1>2, <2>2
  <2> QED BY <1>2, <2>3, <2>4 DEF EnMemoria
<1>3. ASSUME NEW q \in Procesos, NEW jd \in Ids, EnMemoria(tabla, memoria, q, jd)
      PROVE  \/ EnMemoria(tabla', memoria', q, jd)
             \/ q = p /\ s.id = jd /\ \A d \in Celdas : s.base <= d /\ d < Fin(s) => memoria[d] = <<p, jd>>
  <2>1. PICK r \in tabla[q] :
          r.id = jd /\ \A d \in DOMAIN memoria : r.base <= d /\ d < Fin(r) => memoria[d] = <<q, jd>>
    BY <1>3 DEF EnMemoria
  <2>2. CASE q = p /\ r = s
    BY <1>1, <2>1, <2>2
  <2>3. CASE ~(q = p /\ r = s)
    BY <1>2, <2>1, <2>3
  <2> QED BY <2>2, <2>3
<1> QED BY <1>1, <1>3

\* What goes to the swap is what the segment has in memory.
LEMMA GuardadoTipo ==
  ASSUME IInv, TiposContenido, NEW p \in Procesos, NEW s \in tabla[p]
  PROVE  /\ Guardado(s) \in [0..(TamanioBloque - 1) -> Contenido]
         /\ \A i \in 0..(TamanioBloque - 1) : i < s.tam =>
              /\ Guardado(s)[i] = memoria[s.base + i]
              /\ s.base + i \in Celdas /\ s.base <= s.base + i /\ s.base + i < Fin(s)
<1>1. /\ s.base \in Nat /\ s.tam \in Nat /\ s.base + s.tam <= total /\ total \in Nat
      /\ TamanioBloque \in Nat
  BY KernelMemoryAssumption DEF IInv, EspacioInv, EstructurasOK, SegmentosValidos, Segmento, Fin
<1>2. \A i \in 0..(TamanioBloque - 1) : i < s.tam =>
        s.base + i \in Celdas /\ s.base <= s.base + i /\ s.base + i < Fin(s)
  BY <1>1 DEF Celdas, Fin
<1>3. \A i \in 0..(TamanioBloque - 1) : i < s.tam => memoria[s.base + i] \in Contenido
  BY <1>2 DEF TiposContenido
<1>4. Ninguno \in Contenido
  BY DEF Contenido
<1>5. \A i \in 0..(TamanioBloque - 1) :
        (IF i < s.tam THEN memoria[s.base + i] ELSE Ninguno) \in Contenido
  BY <1>3, <1>4
<1> QED BY <1>2, <1>5 DEF Guardado

\* A step that touches neither the sticks nor the swap keeps the types of what is there.
LEMMA ContenidoQuieto ==
  ASSUME TiposContenido, UNCHANGED <<total, memoria, disco>>
  PROVE  TiposContenido'
BY DEF TiposContenido, Celdas

\* Bytes are bytes after the steps that free a segment.
LEMMA TiposAlOlvidar ==
  ASSUME IInv, TiposContenido, NEW p \in Procesos, NEW s \in tabla[p],
         memoria' = Olvidada(s), total' = total, disco' = disco
  PROVE  TiposContenido'
<1>1. memoria' \in [Celdas -> Contenido] /\ Celdas' = Celdas
  BY OlvidadaTipo DEF Celdas
<1> QED BY <1>1 DEF TiposContenido

\* What is read of a block of the swap fits the segment it is written to.
LEMMA LeidoTipo ==
  ASSUME TiposContenido, NEW e \in SegmentoSwap, e.bloque \in 0..(Bloques - 1)
  PROVE  [i \in 0..(e.tam - 1) |-> IF i < TamanioBloque THEN disco[e.bloque][i] ELSE Ninguno]
           \in [0..(e.tam - 1) -> Contenido]
<1>1. TamanioBloque \in Nat /\ e.tam \in Nat
  BY KernelMemoryAssumption DEF SegmentoSwap
<1>2. \A i \in 0..(e.tam - 1) : i < TamanioBloque => disco[e.bloque][i] \in Contenido
  BY <1>1 DEF TiposContenido
<1>3. Ninguno \in Contenido
  BY DEF Contenido
<1> QED BY <1>2, <1>3

\* Every step writes contents where contents are.
LEMMA PasoTiposContenido ==
  ASSUME ~ConexionEnCaliente, IInv, TiposContenido, [Next]_vars
  PROVE  TiposContenido'
<1> USE DEF espacio, swap
<1>1. CASE UNCHANGED vars
  BY <1>1, ContenidoQuieto DEF vars
<1>2. ASSUME NEW k \in Sticks, conectar_memory_stick(k)
      PROVE  TiposContenido'
  <2>1. /\ total \in Nat /\ Tamanio[k] \in Nat /\ total' = total + Tamanio[k]
        /\ memoria' = [d \in Celdas' |-> IF d \in Celdas THEN memoria[d] ELSE Ninguno]
        /\ disco' = disco
    BY <1>2, KernelMemoryAssumption DEF conectar_memory_stick, IInv, EstructurasOK
  <2>2. \A d \in Celdas' : (IF d \in Celdas THEN memoria[d] ELSE Ninguno) \in Contenido
    BY DEF TiposContenido, Contenido
  <2>3. memoria' \in [Celdas' -> Contenido']
    BY <2>1, <2>2 DEF Contenido
  <2> QED BY <2>1, <2>3 DEF TiposContenido, Contenido
<1>3. ASSUME NEW k \in Sticks, registrarHuecoDeStick(k)
      PROVE  TiposContenido'
  BY <1>3, ContenidoQuieto DEF registrarHuecoDeStick
<1>4. ASSUME NEW p \in Procesos, NEW op, NEW id \in Ids, Traduce(op, p, id),
             UNCHANGED <<espacio, enTablas, swap>>
      PROVE  TiposContenido'
  <2>1. memoria' \in [Celdas -> Contenido]
    BY <1>4, TraduceEfecto DEF enTablas
  <2> QED BY <1>4, <2>1 DEF TiposContenido, Celdas
<1>5. ASSUME NEW p \in Procesos, Solicitud(p)
      PROVE  TiposContenido'
  <2>1. CASE crear_proceso(p) \/ destruir_proceso(p) \/ suspender_proceso(p) \/ desuspender_proceso(p)
    BY <2>1, ContenidoQuieto DEF crear_proceso, destruir_proceso, suspender_proceso, desuspender_proceso
  <2>2. ASSUME NEW id \in Ids, NEW n \in Tamanios, mem_alloc(p, id, n)
        PROVE  TiposContenido'
    BY <2>2, ContenidoQuieto DEF mem_alloc
  <2>3. ASSUME NEW id \in Ids, mem_free(p, id)
        PROVE  TiposContenido'
    <3>1. CASE memoria' = memoria
      BY <2>3, <3>1, ContenidoQuieto DEF mem_free
    <3>2. CASE \E s \in tabla[p] : memoria' = Olvidada(s)
      BY <2>3, <3>2, TiposAlOlvidar DEF mem_free
    <3> QED BY <2>3, <3>1, <3>2 DEF mem_free
  <2>4. ASSUME NEW id \in Ids, NEW op \in {"STDIN", "STDOUT"}, atenderIO(op, p, id)
        PROVE  TiposContenido'
    <3>1. CASE UNCHANGED <<memoria, escritos>>
      BY <2>4, <3>1, ContenidoQuieto DEF atenderIO
    <3>2. CASE Traduce(op, p, id)
      BY <2>4, <3>2, <1>4 DEF atenderIO
    <3> QED BY <2>4, <3>1, <3>2 DEF atenderIO
  <2> QED BY <1>5, <2>1, <2>2, <2>3, <2>4 DEF Solicitud
<1>6. CASE suspenderSegmento
  <2>1. km.pid \in Procesos
    BY <1>6 DEF suspenderSegmento, IInv, Pedido
  <2>2. PICK s \in tabla[km.pid], b \in encontrar_bloque_libre :
          disco' = [disco EXCEPT ![b] = Guardado(s)] /\ memoria' = Olvidada(s)
    BY <1>6 DEF suspenderSegmento
  <2>3. b \in 0..(Bloques - 1) /\ total' = total
    BY <1>6 DEF encontrar_bloque_libre, suspenderSegmento
  <2>4. Guardado(s) \in [0..(TamanioBloque - 1) -> Contenido]
    BY <2>1, GuardadoTipo
  <2>5. disco' \in [0..(Bloques - 1) -> [0..(TamanioBloque - 1) -> Contenido]]
    BY <2>2, <2>3, <2>4 DEF TiposContenido
  <2>6. memoria' \in [Celdas -> Contenido]
    BY <2>2, OlvidadaTipo
  <2> QED BY <2>3, <2>5, <2>6 DEF TiposContenido, Celdas
<1>7. CASE desuspenderSegmento
  <2>0. PICK e \in DeSwap(km.pid) : \E h \in buscar_hueco_candidato(e.tam) :
          /\ memoria' = Escrita([id |-> e.id, base |-> h.base, tam |-> e.tam],
                                [i \in 0..(e.tam - 1) |->
                                   IF i < TamanioBloque THEN disco[e.bloque][i] ELSE Ninguno])
          /\ disco' = [disco EXCEPT ![e.bloque] = [i \in DOMAIN @ |-> Ninguno]]
    BY <1>7 DEF desuspenderSegmento
  <2>1. PICK h \in buscar_hueco_candidato(e.tam) :
          /\ memoria' = Escrita([id |-> e.id, base |-> h.base, tam |-> e.tam],
                                [i \in 0..(e.tam - 1) |->
                                   IF i < TamanioBloque THEN disco[e.bloque][i] ELSE Ninguno])
          /\ disco' = [disco EXCEPT ![e.bloque] = [i \in DOMAIN @ |-> Ninguno]]
    BY <2>0
  <2>2. /\ e \in SegmentoSwap /\ e.bloque \in 0..(Bloques - 1) /\ h \in Hueco /\ total' = total
    BY <1>7 DEF DeSwap, IInv, EstructurasOK, BloquesConDuenio, buscar_hueco_candidato, desuspenderSegmento
  <2> DEFINE s == [id |-> e.id, base |-> h.base, tam |-> e.tam]
             que == [i \in 0..(e.tam - 1) |-> IF i < TamanioBloque THEN disco[e.bloque][i] ELSE Ninguno]
  <2>3. s \in Segmento /\ s.tam = e.tam
    BY <2>2 DEF SegmentoSwap, Segmento, Hueco
  <2>4. que \in [0..(e.tam - 1) -> Contenido]
    BY <2>2, LeidoTipo
  <2>5. memoria' = Escrita(s, que)
    BY <2>1
  <2> HIDE DEF s, que
  <2>6. memoria' \in [Celdas -> Contenido]
    BY <2>3, <2>4, <2>5, EscritaTipo
  <2>7. disco' \in [0..(Bloques - 1) -> [0..(TamanioBloque - 1) -> Contenido]]
    <3>1. [i \in DOMAIN disco[e.bloque] |-> Ninguno] \in [0..(TamanioBloque - 1) -> Contenido]
      BY <2>2 DEF TiposContenido, Contenido
    <3> QED BY <2>1, <2>2, <3>1 DEF TiposContenido
  <2> QED BY <2>2, <2>6, <2>7 DEF TiposContenido, Celdas
<1>8. CASE reintentarIO
  <2>1. CASE UNCHANGED <<memoria, escritos>>
    BY <1>8, <2>1, ContenidoQuieto DEF reintentarIO
  <2>2. CASE Traduce(km.pc, km.pid, km.id)
    <3>1. km.pid \in Procesos /\ km.id \in Ids
      BY <1>8 DEF reintentarIO, IInv, Pedido
    <3> QED BY <1>8, <2>2, <3>1, <1>4 DEF reintentarIO
  <2> QED BY <1>8, <2>1, <2>2 DEF reintentarIO
<1>9. CASE destruirSegmento
  <2>1. km.pid \in Procesos
    BY <1>9 DEF destruirSegmento, IInv, Pedido
  <2> QED BY <1>9, <2>1, TiposAlOlvidar DEF destruirSegmento
<1>10. CASE destruirFin
  <2>1. \A b \in DOMAIN disco : [i \in DOMAIN disco[b] |-> Ninguno] \in [0..(TamanioBloque - 1) -> Contenido]
    BY DEF TiposContenido, Contenido
  <2>2. disco' \in [0..(Bloques - 1) -> [0..(TamanioBloque - 1) -> Contenido]]
    BY <1>10, <2>1 DEF destruirFin, TiposContenido
  <2>3. total' = total /\ memoria' = memoria
    BY <1>10 DEF destruirFin
  <2> QED BY <2>2, <2>3 DEF TiposContenido, Celdas
<1>11. ASSUME \/ desalojoRealizado \/ desalojoFallido \/ compactarSegmento
              \/ reconstruir_huecos_desde \/ reintentar \/ suspenderFalla \/ suspenderFin
              \/ desuspenderFalla \/ desuspenderFin
       PROVE  TiposContenido'
  <2>1. UNCHANGED <<total, memoria, disco>>
    BY <1>11 DEF desalojoRealizado, desalojoFallido, compactarSegmento, reconstruir_huecos_desde,
                 reintentar, suspenderFalla, suspenderFin, desuspenderFalla, desuspenderFin
  <2> QED BY <2>1, ContenidoQuieto
<1> QED BY <1>1, <1>2, <1>3, <1>5, <1>6, <1>7, <1>8, <1>9, <1>10, <1>11 DEF Next, HiloStick, Continua

\* The contents have their types at the start, when there is no memory.
LEMMA InicioTiposContenido == Init => TiposContenido
<1> SUFFICES ASSUME Init PROVE TiposContenido
  OBVIOUS
<1>1. \A b \in 0..(Bloques - 1) : disco[b] \in [0..(TamanioBloque - 1) -> Contenido]
  BY DEF Init, Contenido
<1> QED BY <1>1 DEF Init, TiposContenido, Contenido

\* Type correctness, of the lists and of what the sticks and the swap keep: no hole and no
\* segment is ever empty, and no write misses the memory or the block it is for.
THEOREM TypeOKSiempre ==
  ASSUME ~ConexionEnCaliente
  PROVE  Spec => []TypeOK
<1>1. Init => IInv /\ TiposContenido
  BY InicioIInv, InicioTiposContenido
<1>2. (IInv /\ TiposContenido) /\ [Next]_vars => (IInv /\ TiposContenido)'
  BY PasoIInv, PasoTiposContenido
<1>3. IInv /\ TiposContenido => TypeOK
  BY DEF IInv, TiposContenido, TypeOK
<1> QED BY <1>1, <1>2, <1>3, PTL DEF Spec

\* Nothing that was written is lost when the contents stay and no segment leaves a table.
LEMMA NadaSePierde ==
  ASSUME ContenidosInv, UNCHANGED <<memoria, enSwap, disco>>,
         \A p \in Procesos : tabla[p] \subseteq tabla'[p], escritos' \subseteq escritos,
         SinFallas' /\ ~compactado' => SinFallas /\ ~compactado
  PROVE  SinFallas' /\ ~compactado' => Conservado(tabla', memoria', enSwap', disco', escritos')
<1>1. \A p \in Procesos, id \in Ids :
        EnMemoria(tabla, memoria, p, id) => EnMemoria(tabla', memoria', p, id)
  BY DEF EnMemoria
<1>2. \A p \in Procesos, id \in Ids :
        EnDisco(enSwap, disco, p, id) => EnDisco(enSwap', disco', p, id)
  BY DEF EnDisco
<1> QED BY <1>1, <1>2 DEF ContenidosInv, Conservado

\* Answers and first steps of a request.
LEMMA PasosQueNoEscriben ==
  ASSUME IInv, ContenidosInv, UNCHANGED <<tabla, enSwap, swapVivo, fallas, disco, memoria, compactado>>,
         escritos' \subseteq escritos, escritos' \subseteq vivos' \X Ids,
         km'.pc \notin {"compactar", "reintentar"}
  PROVE  /\ escritos' \subseteq vivos' \X Ids /\ (km'.pc \in {"compactar", "reintentar"} => compactado')
         /\ Caben' /\ (SinFallas' /\ ~compactado' => Conservado(tabla', memoria', enSwap', disco', escritos'))
<1>1. Caben'
  BY DEF ContenidosInv, Caben
<1>2. SinFallas' => SinFallas
  BY DEF SinFallas
<1> QED BY <1>1, <1>2, NadaSePierde

\* The rest of ContenidosInv.
Escrituras ==
  /\ escritos \subseteq vivos \X Ids
  /\ km.pc \in {"compactar", "reintentar"} => compactado
  /\ Caben
  /\ SinFallas /\ ~compactado => Conservado(tabla, memoria, enSwap, disco, escritos)

\* The steps that neither move a segment nor write.
LEMMA EscriturasDeControl ==
  ASSUME ~ConexionEnCaliente, IInv, ContenidosInv,
         \/ \E k \in Sticks : registrarHuecoDeStick(k)
         \/ \E p \in Procesos : \/ crear_proceso(p) \/ suspender_proceso(p)
                                \/ desuspender_proceso(p) \/ destruir_proceso(p)
         \/ desalojoFallido \/ suspenderFin \/ desuspenderFalla \/ desuspenderFin
  PROVE  Escrituras'
<1> USE DEF espacio, swap, enTablas
<1>1. escritos \subseteq vivos \X Ids
  BY DEF ContenidosInv
<1>2. ASSUME NEW k \in Sticks, registrarHuecoDeStick(k)
      PROVE  Escrituras'
  <2>1. km' = km /\ km.pc = "libre"
    BY <1>2 DEF registrarHuecoDeStick, IInv, StickPendiente
  <2> QED BY <1>1, <1>2, <2>1, PasosQueNoEscriben DEF registrarHuecoDeStick, Escrituras
<1>3. ASSUME NEW p \in Procesos, crear_proceso(p)
      PROVE  Escrituras'
  <2>1. vivos \subseteq vivos' /\ km'.pc = "libre"
    BY <1>3 DEF crear_proceso, Termina, KMLibre
  <2> QED BY <1>1, <1>3, <2>1, PasosQueNoEscriben DEF crear_proceso, Escrituras
<1>4. ASSUME NEW p \in Procesos, suspender_proceso(p) \/ desuspender_proceso(p)
      PROVE  Escrituras'
  <2>1. km'.pc \in {"suspender", "desuspender"}
    BY <1>4 DEF suspender_proceso, desuspender_proceso, Sigue, KMLibre
  <2> QED BY <1>1, <1>4, <2>1, PasosQueNoEscriben DEF suspender_proceso, desuspender_proceso, Escrituras
<1>5. ASSUME NEW p \in Procesos, destruir_proceso(p)
      PROVE  Escrituras'
  <2>1. km'.pc = "destruir"
    BY <1>5 DEF destruir_proceso, Sigue, KMLibre
  <2>2. escritos' \subseteq escritos /\ escritos' \subseteq vivos' \X Ids
    BY <1>1, <1>5 DEF destruir_proceso
  <2> QED BY <1>5, <2>1, <2>2, PasosQueNoEscriben DEF destruir_proceso, Escrituras
<1>6. ASSUME desalojoFallido \/ suspenderFin \/ desuspenderFalla \/ desuspenderFin
      PROVE  Escrituras'
  <2>1. km'.pc = "libre"
    BY <1>6 DEF desalojoFallido, suspenderFin, desuspenderFalla, desuspenderFin, Termina, KMLibre
  <2> QED BY <1>1, <1>6, <2>1, PasosQueNoEscriben
      DEF desalojoFallido, suspenderFin, desuspenderFalla, desuspenderFin, Escrituras
<1> QED BY <1>2, <1>3, <1>4, <1>5, <1>6

\* From the start of a compaction on nothing is claimed.
LEMMA EscriturasAlCompactar ==
  ASSUME IInv, ContenidosInv,
         desalojoRealizado \/ compactarSegmento \/ reconstruir_huecos_desde \/ reintentar
  PROVE  Escrituras'
<1>1. compactado' = TRUE /\ UNCHANGED <<vivos, escritos>>
  BY DEF ContenidosInv, desalojoRealizado, compactarSegmento, reconstruir_huecos_desde, reintentar,
         enTablas, IInv, EstructurasOK
<1> QED BY <1>1 DEF ContenidosInv, Escrituras, Caben

\* A suspension that fails is a failure of the swap.
LEMMA EscriturasAlFallar ==
  ASSUME IInv, ContenidosInv, suspenderFalla
  PROVE  Escrituras'
<1>1. /\ km.pid \in Procesos /\ km'.pc = "libre"
      /\ UNCHANGED <<vivos, enSwap, escritos, compactado>>
  BY DEF IInv, Pedido, suspenderFalla, Termina, KMLibre
<1>2. \A p \in Procesos : tabla'[p] \subseteq tabla[p]
  BY DEF IInv, EstructurasOK, suspenderFalla
<1>3. Caben'
  BY <1>1, <1>2 DEF ContenidosInv, Caben
<1>4. ~SinFallas'
  <2>1. fallas \in Nat
    BY DEF IInv, EstructurasOK
  <2>2. \/ swapVivo' = FALSE
        \/ ~swapVivo /\ swapVivo' = swapVivo
        \/ fallas' = fallas + 1
    BY Zenon DEF suspenderFalla
  <2>3. fallas + 1 # 0
    BY <2>1
  <2> QED BY <2>2, <2>3, Zenon DEF SinFallas
<1> QED BY <1>1, <1>3, <1>4 DEF ContenidosInv, Escrituras

\* A new segment is as long as a program asked, and a new stick moves nothing.
LEMMA EscriturasAlCrear ==
  ASSUME ~ConexionEnCaliente, \A m \in Tamanios : m <= TamanioBloque, IInv, ContenidosInv,
         NEW p \in Procesos, NEW id \in Ids, NEW n \in Tamanios, mem_alloc(p, id, n)
  PROVE  Escrituras'
<1>1. /\ UNCHANGED <<vivos, enSwap, swapVivo, fallas, disco, memoria, escritos, compactado>>
      /\ km'.pc \in {"libre", "desalojo"}
  <2>1. UNCHANGED <<vivos, enSwap, swapVivo, fallas, disco, memoria, escritos, compactado>>
    BY DEF mem_alloc, swap
  <2>2. km' = KMLibre \/ Sigue("desalojo", p, id, n)
    BY DEF mem_alloc, crear_segmento, CreaEn, NoCrea, Termina
  <2>3. km'.pc \in {"libre", "desalojo"}
    <3>1. CASE km' = KMLibre
      BY <3>1 DEF KMLibre
    <3>2. CASE Sigue("desalojo", p, id, n)
      BY <3>2 DEF Sigue, KMLibre
    <3> QED BY <2>2, <3>1, <3>2
  <2> QED BY <2>1, <2>3
<1>2. /\ \A q \in Procesos : tabla[q] \subseteq tabla'[q]
      /\ \A q \in Procesos : \A s \in tabla'[q] : s \in tabla[q] \/ s.tam = n
  <2>1. CASE tabla' = tabla
    BY <2>1
  <2>2. CASE \E h \in huecos : CreaEn(h, p, id, n)
    BY <2>2 DEF CreaEn, IInv, EstructurasOK
  <2>3. tabla' = tabla \/ \E h \in huecos : CreaEn(h, p, id, n)
    BY DEF mem_alloc, crear_segmento, NoCrea, buscar_hueco_candidato
  <2> QED BY <2>1, <2>2, <2>3
<1>3. Caben'
  BY <1>1, <1>2 DEF ContenidosInv, Caben
<1>4. SinFallas' => SinFallas
  BY <1>1 DEF SinFallas
<1>5. SinFallas' /\ ~compactado' => Conservado(tabla', memoria', enSwap', disco', escritos')
  BY <1>1, <1>2, <1>4, NadaSePierde
<1> QED BY <1>1, <1>3, <1>5 DEF ContenidosInv, Escrituras

\* A new stick grows the memory beyond every segment.
LEMMA EscriturasAlConectar ==
  ASSUME ~ConexionEnCaliente, IInv, ContenidosInv, NEW k \in Sticks, conectar_memory_stick(k)
  PROVE  Escrituras'
<1>1. /\ UNCHANGED <<vivos, tabla, enSwap, swapVivo, fallas, disco, escritos, compactado, km>>
      /\ km.pc = "libre"
  BY DEF conectar_memory_stick, enTablas, swap
<1>2. /\ total \in Nat /\ DOMAIN memoria' = Celdas' /\ DOMAIN memoria = Celdas
      /\ \A d \in Celdas' : d \in Celdas => memoria'[d] = memoria[d]
  BY DEF conectar_memory_stick, IInv, EstructurasOK, ContenidosInv, TiposContenido
<1>3. ASSUME NEW p \in Procesos, NEW id \in Ids, EnMemoria(tabla, memoria, p, id)
      PROVE  EnMemoria(tabla', memoria', p, id)
  <2>1. PICK s \in tabla[p] :
          s.id = id /\ \A d \in DOMAIN memoria : s.base <= d /\ d < Fin(s) => memoria[d] = <<p, id>>
    BY <1>3 DEF EnMemoria
  <2>2. s.base \in Nat /\ Fin(s) \in Nat /\ Fin(s) <= total
    BY DEF IInv, EspacioInv, SegmentosValidos, Segmento, Fin
  <2>3. \A d \in Celdas' : s.base <= d /\ d < Fin(s) => d \in Celdas
    BY <1>2, <2>2 DEF Celdas
  <2>4. \A d \in DOMAIN memoria' : s.base <= d /\ d < Fin(s) => memoria'[d] = <<p, id>>
    BY <1>2, <2>1, <2>3
  <2>5. s \in tabla'[p]
    BY <1>1
  <2> QED BY <2>1, <2>4, <2>5 DEF EnMemoria
<1>4. \A p \in Procesos, id \in Ids : EnDisco(enSwap, disco, p, id) => EnDisco(enSwap', disco', p, id)
  BY <1>1 DEF EnDisco
<1>5. SinFallas' /\ ~compactado' => Conservado(tabla', memoria', enSwap', disco', escritos')
  BY <1>1, <1>3, <1>4 DEF ContenidosInv, Conservado, SinFallas
<1>6. Caben'
  BY <1>1 DEF ContenidosInv, Caben
<1> QED BY <1>1, <1>5, <1>6 DEF ContenidosInv, Escrituras

\* What a program wrote in the segment it frees is forgotten, and nothing else.
LEMMA EscriturasAlLiberar ==
  ASSUME ~ConexionEnCaliente, IInv, ContenidosInv, NEW p \in Procesos, NEW id \in Ids, mem_free(p, id)
  PROVE  Escrituras'
<1> USE DEF swap
<1>1. /\ UNCHANGED <<vivos, enSwap, swapVivo, fallas, disco, compactado>>
      /\ km'.pc = "libre" /\ escritos \subseteq vivos \X Ids
  BY DEF mem_free, Termina, KMLibre, ContenidosInv
<1>2. CASE UNCHANGED <<tabla, memoria, escritos>>
  BY <1>1, <1>2, PasosQueNoEscriben DEF Escrituras
<1>3. CASE \E s \in tabla[p] :
             /\ s.id = id
             /\ tabla' = [tabla EXCEPT ![p] = @ \ {s}]
             /\ memoria' = Olvidada(s)
             /\ escritos' = escritos \ {<<p, id>>}
  <2>1. PICK s \in tabla[p] :
             /\ s.id = id
             /\ tabla' = [tabla EXCEPT ![p] = @ \ {s}]
             /\ memoria' = Olvidada(s)
             /\ escritos' = escritos \ {<<p, id>>}
    BY <1>3
  <2>2. \A q \in Procesos, jd \in Ids :
          EnMemoria(tabla, memoria, q, jd) /\ ~(q = p /\ jd = id) => EnMemoria(tabla', memoria', q, jd)
    BY <2>1, OlvidarConserva DEF ContenidosInv
  <2>3. \A q \in Procesos, jd \in Ids : EnDisco(enSwap, disco, q, jd) => EnDisco(enSwap', disco', q, jd)
    BY <1>1 DEF EnDisco
  <2>4. \A q \in Procesos, jd \in Ids :
          <<q, jd>> \in escritos' => <<q, jd>> \in escritos /\ ~(q = p /\ jd = id)
    BY <2>1
  <2>5. SinFallas' /\ ~compactado' => Conservado(tabla', memoria', enSwap', disco', escritos')
    BY <1>1, <2>2, <2>3, <2>4 DEF ContenidosInv, Conservado, SinFallas
  <2>6. \A q \in Procesos : tabla'[q] \subseteq tabla[q]
    BY <2>1 DEF IInv, EstructurasOK
  <2>7. Caben'
    BY <1>1, <2>6 DEF ContenidosInv, Caben
  <2>8. escritos' \subseteq vivos' \X Ids
    BY <1>1, <2>1
  <2> QED BY <1>1, <2>5, <2>7, <2>8 DEF Escrituras
<1> QED BY <1>2, <1>3 DEF mem_free

\* The segments a destruction frees are of a process that has nothing written any more.
LEMMA EscriturasAlDestruir ==
  ASSUME IInv, ContenidosInv, destruirSegmento
  PROVE  Escrituras'
<1>1. /\ UNCHANGED <<vivos, enSwap, swapVivo, fallas, disco, compactado, km, escritos>>
      /\ km.pc = "destruir" /\ km.pid \in Procesos /\ km.pid \notin vivos
      /\ escritos \subseteq vivos \X Ids
  BY DEF destruirSegmento, IInv, Pedido, ContenidosInv, swap
<1>2. PICK s \in tabla[km.pid] :
        tabla' = [tabla EXCEPT ![km.pid] = @ \ {s}] /\ memoria' = Olvidada(s)
  BY DEF destruirSegmento
<1>3. \A q \in Procesos, jd \in Ids :
        EnMemoria(tabla, memoria, q, jd) /\ ~(q = km.pid /\ jd = s.id) => EnMemoria(tabla', memoria', q, jd)
  BY <1>1, <1>2, OlvidarConserva DEF ContenidosInv
<1>4. \A q \in Procesos, jd \in Ids : EnDisco(enSwap, disco, q, jd) => EnDisco(enSwap', disco', q, jd)
  BY <1>1 DEF EnDisco
<1>5. \A q \in Procesos, jd \in Ids : <<q, jd>> \in escritos' => <<q, jd>> \in escritos /\ q # km.pid
  BY <1>1
<1>6. SinFallas' /\ ~compactado' => Conservado(tabla', memoria', enSwap', disco', escritos')
  BY <1>1, <1>3, <1>4, <1>5 DEF ContenidosInv, Conservado, SinFallas
<1>7. \A q \in Procesos : tabla'[q] \subseteq tabla[q]
  BY <1>1, <1>2 DEF IInv, EstructurasOK
<1>8. Caben'
  BY <1>1, <1>7 DEF ContenidosInv, Caben
<1> QED BY <1>1, <1>6, <1>8 DEF Escrituras

\* The blocks a destruction frees are of such a process too.
LEMMA EscriturasAlTerminar ==
  ASSUME IInv, ContenidosInv, destruirFin
  PROVE  Escrituras'
<1>1. /\ UNCHANGED <<vivos, tabla, memoria, swapVivo, fallas, compactado, escritos>>
      /\ km'.pc = "libre" /\ km.pid \in Procesos /\ km.pid \notin vivos
      /\ escritos \subseteq vivos \X Ids
  BY DEF destruirFin, IInv, Pedido, ContenidosInv, enTablas, Termina, KMLibre
<1>2. /\ enSwap' = enSwap \ DeSwap(km.pid)
      /\ disco' = [b \in DOMAIN disco |-> IF \E e \in DeSwap(km.pid) : e.bloque = b
                                          THEN [i \in DOMAIN disco[b] |-> Ninguno] ELSE disco[b]]
      /\ DOMAIN disco = 0..(Bloques - 1)
  BY DEF destruirFin, ContenidosInv, TiposContenido
<1>3. ASSUME NEW q \in Procesos, NEW jd \in Ids, q # km.pid, EnDisco(enSwap, disco, q, jd)
      PROVE  EnDisco(enSwap', disco', q, jd)
  <2>1. PICK e \in enSwap : /\ e.pid = q /\ e.id = jd
                            /\ \A i \in 0..(e.tam - 1) : i < TamanioBloque /\ disco[e.bloque][i] = <<q, jd>>
    BY <1>3 DEF EnDisco
  <2>2. e \in enSwap' /\ e \notin DeSwap(km.pid)
    BY <1>2, <1>3, <2>1 DEF DeSwap
  <2>3. ~ \E f \in DeSwap(km.pid) : f.bloque = e.bloque
    BY <2>2 DEF DeSwap, IInv, BloquesConDuenio
  <2>4. e.bloque \in DOMAIN disco
    BY <1>2 DEF IInv, BloquesConDuenio, EstructurasOK
  <2>5. disco'[e.bloque] = disco[e.bloque]
    BY <1>2, <2>3, <2>4
  <2> QED BY <2>1, <2>2, <2>5 DEF EnDisco
<1>4. \A q \in Procesos, jd \in Ids : EnMemoria(tabla, memoria, q, jd) => EnMemoria(tabla', memoria', q, jd)
  BY <1>1
<1>5. \A q \in Procesos, jd \in Ids : <<q, jd>> \in escritos' => <<q, jd>> \in escritos /\ q # km.pid
  BY <1>1
<1>6. SinFallas' /\ ~compactado' => Conservado(tabla', memoria', enSwap', disco', escritos')
  BY <1>1, <1>3, <1>4, <1>5 DEF ContenidosInv, Conservado, SinFallas
<1>7. Caben'
  BY <1>1, <1>2 DEF ContenidosInv, Caben
<1> QED BY <1>1, <1>6, <1>7 DEF Escrituras

\* A segment that goes to the swap has there what it had in memory.
LEMMA EscriturasAlSuspender ==
  ASSUME IInv, ContenidosInv, suspenderSegmento
  PROVE  Escrituras'
<1>1. /\ UNCHANGED <<vivos, swapVivo, fallas, compactado, km, escritos>>
      /\ km.pc = "suspender" /\ km.pid \in Procesos
      /\ escritos \subseteq vivos \X Ids
  BY DEF suspenderSegmento, IInv, Pedido, ContenidosInv
<1> DEFINE p == km.pid
<1>2. PICK s \in tabla[p], b \in encontrar_bloque_libre :
        /\ disco' = [disco EXCEPT ![b] = Guardado(s)]
        /\ enSwap' = enSwap \cup {[pid |-> p, id |-> s.id, tam |-> s.tam, bloque |-> b]}
        /\ tabla' = [tabla EXCEPT ![p] = @ \ {s}] /\ memoria' = Olvidada(s)
  BY DEF suspenderSegmento
<1> DEFINE e == [pid |-> p, id |-> s.id, tam |-> s.tam, bloque |-> b]
<1>3. /\ b \in 0..(Bloques - 1) /\ b \notin bitmap /\ s \in Segmento /\ p \in Procesos
      /\ enSwap' = enSwap \cup {e} /\ e.pid = p /\ e.id = s.id /\ e.tam = s.tam /\ e.bloque = b
  BY <1>1, <1>2 DEF encontrar_bloque_libre, IInv, EstructurasOK
<1> HIDE DEF e, p
<1>4. disco'[b] = Guardado(s) /\ \A c \in bitmap : disco'[c] = disco[c]
  BY <1>2, <1>3 DEF ContenidosInv, TiposContenido
<1>5. \A q \in Procesos, jd \in Ids : EnDisco(enSwap, disco, q, jd) => EnDisco(enSwap', disco', q, jd)
  <2>1. \A f \in enSwap : f.bloque \in bitmap
    BY DEF IInv, BloquesConDuenio
  <2>2. \A f \in enSwap : f \in enSwap' /\ disco'[f.bloque] = disco[f.bloque]
    BY <1>3, <1>4, <2>1
  <2> QED BY <2>2 DEF EnDisco
<1>6. ASSUME ~compactado, NEW jd \in Ids, s.id = jd,
             \A d \in Celdas : s.base <= d /\ d < Fin(s) => memoria[d] = <<p, jd>>
      PROVE  EnDisco(enSwap', disco', p, jd)
  <2>1. s.tam <= TamanioBloque /\ s.tam \in Nat /\ TamanioBloque \in Nat
    BY <1>3, <1>6, KernelMemoryAssumption DEF ContenidosInv, Caben, Segmento
  <2>2. \A i \in 0..(s.tam - 1) : i \in 0..(TamanioBloque - 1) /\ i < s.tam
    BY <2>1
  <2>3. \A i \in 0..(TamanioBloque - 1) : i < s.tam =>
          /\ Guardado(s)[i] = memoria[s.base + i]
          /\ s.base + i \in Celdas /\ s.base <= s.base + i /\ s.base + i < Fin(s)
    BY <1>3, GuardadoTipo DEF ContenidosInv
  <2>4. \A i \in 0..(s.tam - 1) : i < TamanioBloque /\ Guardado(s)[i] = <<p, jd>>
    BY <1>6, <2>1, <2>2, <2>3
  <2>5. \A i \in 0..(e.tam - 1) : i < TamanioBloque /\ disco'[e.bloque][i] = <<p, jd>>
    BY <1>3, <1>4, <2>4
  <2> QED BY <1>3, <1>6, <2>5 DEF EnDisco
<1>7. /\ \A q \in Procesos, jd \in Ids :
              EnMemoria(tabla, memoria, q, jd) /\ ~(q = p /\ jd = s.id) => EnMemoria(tabla', memoria', q, jd)
      /\ \A jd \in Ids :
              EnMemoria(tabla, memoria, p, jd) =>
                \/ EnMemoria(tabla', memoria', p, jd)
                \/ s.id = jd /\ \A d \in Celdas : s.base <= d /\ d < Fin(s) => memoria[d] = <<p, jd>>
  <2>1. tabla' = [tabla EXCEPT ![p] = @ \ {s}] /\ memoria' = Olvidada(s)
    BY <1>2
  <2>2. TiposContenido /\ p \in Procesos /\ s \in tabla[p]
    BY <1>2, <1>3 DEF ContenidosInv
  <2> QED BY <2>1, <2>2, OlvidarConserva
<1>8. ASSUME ~compactado, NEW q \in Procesos, NEW jd \in Ids, EnMemoria(tabla, memoria, q, jd)
      PROVE  EnMemoria(tabla', memoria', q, jd) \/ EnDisco(enSwap', disco', q, jd)
  BY <1>6, <1>7, <1>8
<1>9. SinFallas' /\ ~compactado' => Conservado(tabla', memoria', enSwap', disco', escritos')
  <2> SUFFICES ASSUME SinFallas', ~compactado', NEW q \in Procesos, NEW jd \in Ids, <<q, jd>> \in escritos'
               PROVE  EnMemoria(tabla', memoria', q, jd) \/ EnDisco(enSwap', disco', q, jd)
    BY DEF Conservado
  <2>1. SinFallas /\ ~compactado /\ <<q, jd>> \in escritos
    BY <1>1 DEF SinFallas
  <2>2. EnMemoria(tabla, memoria, q, jd) \/ EnDisco(enSwap, disco, q, jd)
    BY <2>1 DEF ContenidosInv, Conservado
  <2> QED BY <1>5, <1>8, <2>1, <2>2
<1>10. Caben'
  <2>1. \A q \in Procesos : tabla'[q] \subseteq tabla[q]
    BY <1>2, <1>3 DEF IInv, EstructurasOK
  <2>2. ~compactado => s.tam <= TamanioBloque
    BY <1>2, <1>3 DEF ContenidosInv, Caben
  <2> QED BY <1>1, <1>3, <2>1, <2>2 DEF ContenidosInv, Caben
<1> QED BY <1>1, <1>9, <1>10 DEF Escrituras

\* A segment that comes back from the swap has in memory what it had there.
LEMMA EscriturasAlVolver ==
  ASSUME IInv, ContenidosInv, desuspenderSegmento
  PROVE  Escrituras'
<1>1. /\ UNCHANGED <<vivos, swapVivo, fallas, compactado, km, escritos>>
      /\ km.pc \notin {"libre", "compactar", "reintentar"} /\ km.pid \in Procesos
      /\ escritos \subseteq vivos \X Ids
  BY DEF desuspenderSegmento, Desuspendiendo, IInv, Pedido, ContenidosInv
<1> DEFINE p == km.pid
<1>2. PICK e \in DeSwap(p) : \E h \in buscar_hueco_candidato(e.tam) :
        LET s == [id |-> e.id, base |-> h.base, tam |-> e.tam] IN
        /\ tabla' = [tabla EXCEPT ![p] = @ \cup {s}]
        /\ memoria' = Escrita(s, [i \in 0..(e.tam - 1) |->
                                    IF i < TamanioBloque THEN disco[e.bloque][i] ELSE Ninguno])
        /\ enSwap' = enSwap \ {e}
        /\ disco' = [disco EXCEPT ![e.bloque] = [i \in DOMAIN @ |-> Ninguno]]
  BY DEF desuspenderSegmento
<1>3. PICK h \in buscar_hueco_candidato(e.tam) :
        LET s == [id |-> e.id, base |-> h.base, tam |-> e.tam] IN
        /\ tabla' = [tabla EXCEPT ![p] = @ \cup {s}]
        /\ memoria' = Escrita(s, [i \in 0..(e.tam - 1) |->
                                    IF i < TamanioBloque THEN disco[e.bloque][i] ELSE Ninguno])
        /\ enSwap' = enSwap \ {e}
        /\ disco' = [disco EXCEPT ![e.bloque] = [i \in DOMAIN @ |-> Ninguno]]
  BY <1>2
<1> DEFINE s == [id |-> e.id, base |-> h.base, tam |-> e.tam]
           que == [i \in 0..(e.tam - 1) |-> IF i < TamanioBloque THEN disco[e.bloque][i] ELSE Ninguno]
<1>4. /\ tabla' = [tabla EXCEPT ![p] = @ \cup {s}] /\ memoria' = Escrita(s, que)
      /\ enSwap' = enSwap \ {e}
      /\ disco' = [disco EXCEPT ![e.bloque] = [i \in DOMAIN @ |-> Ninguno]]
  BY <1>3
<1>5. /\ e \in enSwap /\ e.pid = p /\ e \in SegmentoSwap /\ e.bloque \in 0..(Bloques - 1)
      /\ h \in huecos /\ h \in Hueco /\ p \in Procesos /\ e.tam <= h.tam
  BY <1>1, <1>2, <1>3 DEF DeSwap, IInv, EstructurasOK, BloquesConDuenio, buscar_hueco_candidato, Hueco, SegmentoSwap
<1>6. s \in Segmento /\ s.id = e.id /\ s.tam = e.tam /\ s.base = h.base
  BY <1>5 DEF SegmentoSwap, Segmento, Hueco
<1>7. que \in [0..(s.tam - 1) -> Contenido]
  BY <1>5, <1>6, LeidoTipo DEF ContenidosInv
<1>8. \A i \in 0..(e.tam - 1) : i < TamanioBloque => que[i] = disco[e.bloque][i]
  OBVIOUS
<1> HIDE DEF p, s, que
<1>9. /\ DOMAIN memoria' = Celdas /\ DOMAIN memoria = Celdas
      /\ \A d \in Celdas : s.base <= d /\ d < Fin(s) => memoria'[d] = que[d - s.base]
      /\ \A d \in Celdas : ~(s.base <= d /\ d < Fin(s)) => memoria'[d] = memoria[d]
  <2>1. TiposContenido
    BY DEF ContenidosInv
  <2> QED BY <1>4, <1>6, <1>7, <2>1, EscritaTipo
<1>10. s \in tabla'[p] /\ \A q \in Procesos : tabla[q] \subseteq tabla'[q]
  BY <1>4, <1>5 DEF IInv, EstructurasOK
<1>11. ASSUME NEW q \in Procesos, NEW jd \in Ids, EnMemoria(tabla, memoria, q, jd)
       PROVE  EnMemoria(tabla', memoria', q, jd)
  <2>1. PICK r \in tabla[q] :
          r.id = jd /\ \A d \in DOMAIN memoria : r.base <= d /\ d < Fin(r) => memoria[d] = <<q, jd>>
    BY <1>11 DEF EnMemoria
  <2>2. Aparte(h, r)
    BY <1>1, <1>5 DEF IInv, EspacioInv, Separados
  <2>3. \A d \in Celdas : r.base <= d /\ d < Fin(r) => ~(s.base <= d /\ d < Fin(s))
    <3>1. r \in Segmento
      BY DEF IInv, EspacioInv, SegmentosValidos
    <3>2. /\ r.base \in Nat /\ r.tam \in Nat /\ h.base \in Nat /\ h.tam \in Nat /\ e.tam \in Nat
          /\ \A d \in Celdas : d \in Int
      BY <3>1, <1>5 DEF Segmento, Hueco, SegmentoSwap, Celdas
    <3> QED BY <2>2, <3>2, <1>5, <1>6 DEF Aparte, Fin
  <2>4. \A d \in DOMAIN memoria' : r.base <= d /\ d < Fin(r) => memoria'[d] = <<q, jd>>
    BY <1>9, <2>1, <2>3
  <2> QED BY <1>10, <2>1, <2>4 DEF EnMemoria
<1>12. ASSUME NEW jd \in Ids, e.id = jd,
              \A i \in 0..(e.tam - 1) : i < TamanioBloque /\ disco[e.bloque][i] = <<p, jd>>
       PROVE  EnMemoria(tabla', memoria', p, jd)
  <2>1. \A d \in Celdas : s.base <= d /\ d < Fin(s) => d - s.base \in 0..(e.tam - 1)
    <3>1. s.base \in Nat /\ e.tam \in Nat /\ \A d \in Celdas : d \in Int
      BY <1>5, <1>6 DEF Segmento, SegmentoSwap, Celdas
    <3> QED BY <3>1, <1>6 DEF Fin
  <2>2. \A d \in Celdas : s.base <= d /\ d < Fin(s) => memoria'[d] = <<p, jd>>
    BY <1>8, <1>9, <1>12, <2>1
  <2> QED BY <1>6, <1>9, <1>10, <1>12, <2>2 DEF EnMemoria
<1>13. ASSUME NEW q \in Procesos, NEW jd \in Ids, EnDisco(enSwap, disco, q, jd)
       PROVE  EnMemoria(tabla', memoria', q, jd) \/ EnDisco(enSwap', disco', q, jd)
  <2>1. PICK f \in enSwap : /\ f.pid = q /\ f.id = jd
                            /\ \A i \in 0..(f.tam - 1) : i < TamanioBloque /\ disco[f.bloque][i] = <<q, jd>>
    BY <1>13 DEF EnDisco
  <2>2. CASE f = e
    BY <1>5, <1>12, <2>1, <2>2
  <2>3. CASE f # e
    <3>1. f \in enSwap' /\ f.bloque # e.bloque
      BY <1>4, <1>5, <2>3 DEF IInv, BloquesConDuenio
    <3>2. disco'[f.bloque] = disco[f.bloque]
      BY <1>4, <3>1 DEF ContenidosInv, TiposContenido, IInv, BloquesConDuenio, EstructurasOK
    <3> QED BY <2>1, <3>1, <3>2 DEF EnDisco
  <2> QED BY <2>2, <2>3
<1>14. SinFallas' /\ ~compactado' => Conservado(tabla', memoria', enSwap', disco', escritos')
  <2> SUFFICES ASSUME SinFallas', ~compactado', NEW q \in Procesos, NEW jd \in Ids, <<q, jd>> \in escritos'
               PROVE  EnMemoria(tabla', memoria', q, jd) \/ EnDisco(enSwap', disco', q, jd)
    BY DEF Conservado
  <2>1. SinFallas /\ ~compactado /\ <<q, jd>> \in escritos
    BY <1>1 DEF SinFallas
  <2>2. EnMemoria(tabla, memoria, q, jd) \/ EnDisco(enSwap, disco, q, jd)
    BY <2>1 DEF ContenidosInv, Conservado
  <2> QED BY <1>11, <1>13, <2>2
<1>15. Caben'
  <2>1. \A q \in Procesos : \A r \in tabla'[q] : r \in tabla[q] \/ r = s
    BY <1>4, <1>5 DEF IInv, EstructurasOK
  <2>2. ~compactado => s.tam <= TamanioBloque
    BY <1>5, <1>6 DEF ContenidosInv, Caben
  <2> QED BY <1>1, <1>4, <2>1, <2>2 DEF ContenidosInv, Caben
<1> QED BY <1>1, <1>14, <1>15 DEF Escrituras

\* STDIN writes one segment of a living process, STDOUT none.
LEMMA EscriturasDeIO ==
  ASSUME IInv, ContenidosInv, NEW op, NEW p \in vivos, NEW id \in Ids, Traduce(op, p, id),
         UNCHANGED <<espacio, enTablas, swap, compactado>>, km'.pc = "libre"
  PROVE  Escrituras'
<1>1. /\ UNCHANGED <<total, vivos, tabla, enSwap, swapVivo, fallas, disco, compactado>>
      /\ p \in Procesos /\ escritos \subseteq vivos \X Ids
  BY DEF espacio, enTablas, swap, ContenidosInv, IInv, EstructurasOK
<1>2. /\ escritos' = escritos \/ escritos' = escritos \cup {<<p, id>>}
      /\ \A q \in Procesos, jd \in Ids :
           EnMemoria(tabla, memoria, q, jd) => EnMemoria(tabla', memoria', q, jd)
      /\ <<p, id>> \in escritos' => <<p, id>> \in escritos \/ EnMemoria(tabla', memoria', p, id)
  BY <1>1, TraduceEfecto DEF ContenidosInv
<1>3. \A q \in Procesos, jd \in Ids : EnDisco(enSwap, disco, q, jd) => EnDisco(enSwap', disco', q, jd)
  BY <1>1 DEF EnDisco
<1>4. SinFallas' /\ ~compactado' => Conservado(tabla', memoria', enSwap', disco', escritos')
  <2> SUFFICES ASSUME SinFallas', ~compactado', NEW q \in Procesos, NEW jd \in Ids, <<q, jd>> \in escritos'
               PROVE  EnMemoria(tabla', memoria', q, jd) \/ EnDisco(enSwap', disco', q, jd)
    BY DEF Conservado
  <2>1. SinFallas /\ ~compactado
    BY <1>1 DEF SinFallas
  <2>2. <<q, jd>> \in escritos \/ EnMemoria(tabla', memoria', q, jd)
    BY <1>2
  <2>3. <<q, jd>> \in escritos => EnMemoria(tabla, memoria, q, jd) \/ EnDisco(enSwap, disco, q, jd)
    BY <2>1 DEF ContenidosInv, Conservado
  <2> QED BY <1>2, <1>3, <2>2, <2>3
<1>5. Caben' /\ escritos' \subseteq vivos' \X Ids
  BY <1>1, <1>2 DEF ContenidosInv, Caben
<1> QED BY <1>4, <1>5 DEF Escrituras

\* Every step keeps what was written.
LEMMA PasoEscrituras ==
  ASSUME ~ConexionEnCaliente, \A n \in Tamanios : n <= TamanioBloque,
         IInv, ContenidosInv, [Next]_vars
  PROVE  Escrituras'
<1>1. CASE UNCHANGED vars
  <2>1. Caben' /\ (SinFallas' => SinFallas)
    BY <1>1 DEF vars, enTablas, swap, ContenidosInv, Caben, SinFallas
  <2>2. UNCHANGED <<tabla, memoria, enSwap, disco, escritos, vivos, km, compactado>>
    BY <1>1 DEF vars, enTablas, swap
  <2>3. SinFallas' /\ ~compactado' => Conservado(tabla', memoria', enSwap', disco', escritos')
    BY <2>1, <2>2, NadaSePierde
  <2> QED BY <2>1, <2>2, <2>3 DEF ContenidosInv, Escrituras
<1>2. ASSUME NEW k \in Sticks, HiloStick(k)
      PROVE  Escrituras'
  BY <1>2, EscriturasAlConectar, EscriturasDeControl DEF HiloStick
<1>3. ASSUME NEW p \in Procesos, Solicitud(p)
      PROVE  Escrituras'
  <2>1. CASE crear_proceso(p) \/ destruir_proceso(p) \/ suspender_proceso(p) \/ desuspender_proceso(p)
    BY <2>1, EscriturasDeControl
  <2>2. ASSUME NEW id \in Ids, NEW n \in Tamanios, mem_alloc(p, id, n)
        PROVE  Escrituras'
    BY <2>2, EscriturasAlCrear
  <2>3. ASSUME NEW id \in Ids, mem_free(p, id)
        PROVE  Escrituras'
    BY <2>3, EscriturasAlLiberar
  <2>4. ASSUME NEW id \in Ids, NEW op \in {"STDIN", "STDOUT"}, atenderIO(op, p, id)
        PROVE  Escrituras'
    <3>1. /\ p \in vivos /\ UNCHANGED <<espacio, enTablas, swap, compactado>>
          /\ \/ Traduce(op, p, id) /\ km' = KMLibre
             \/ km' = KMLibre /\ UNCHANGED <<memoria, escritos>>
             \/ Sigue(op, p, id, 0) /\ UNCHANGED <<memoria, escritos>>
      BY <2>4 DEF atenderIO, Atiende, Termina
    <3>2. CASE Traduce(op, p, id) /\ km' = KMLibre
      BY <3>1, <3>2, EscriturasDeIO DEF KMLibre
    <3>3. CASE km' = KMLibre /\ UNCHANGED <<memoria, escritos>>
      <4>1. km'.pc = "libre"
        BY <3>3 DEF KMLibre
      <4> QED BY <3>1, <3>3, <4>1, PasosQueNoEscriben DEF enTablas, swap, ContenidosInv, Escrituras
    <3>4. CASE Sigue(op, p, id, 0) /\ UNCHANGED <<memoria, escritos>>
      <4>1. km'.pc \in {"STDIN", "STDOUT"}
        BY <3>4 DEF Sigue, KMLibre
      <4> QED BY <3>1, <3>4, <4>1, PasosQueNoEscriben DEF enTablas, swap, ContenidosInv, Escrituras
    <3> QED BY <3>1, <3>2, <3>3, <3>4
  <2> QED BY <1>3, <2>1, <2>2, <2>3, <2>4 DEF Solicitud
<1>4. CASE reintentarIO
  <2>1. /\ km.pid \in vivos /\ km.id \in Ids /\ km' = KMLibre /\ km'.pc = "libre"
        /\ UNCHANGED <<espacio, enTablas, swap, compactado>>
        /\ Traduce(km.pc, km.pid, km.id) \/ UNCHANGED <<memoria, escritos>>
    BY <1>4 DEF reintentarIO, IInv, Pedido, Termina, KMLibre
  <2>2. CASE Traduce(km.pc, km.pid, km.id)
    BY <2>1, <2>2, EscriturasDeIO
  <2>3. CASE UNCHANGED <<memoria, escritos>>
    BY <2>1, <2>3, PasosQueNoEscriben DEF enTablas, swap, ContenidosInv, Escrituras
  <2> QED BY <2>1, <2>2, <2>3
<1>5. ASSUME Continua, ~reintentarIO
      PROVE  Escrituras'
  BY <1>5, EscriturasDeControl, EscriturasAlCompactar, EscriturasAlFallar, EscriturasAlDestruir,
     EscriturasAlTerminar, EscriturasAlSuspender, EscriturasAlVolver DEF Continua
<1> QED BY <1>1, <1>2, <1>3, <1>4, <1>5 DEF Next, Continua

\* What a program writes in a segment is there, in the memory or in the swap, until it frees
\* it: suspender_proceso and desuspender_proceso lose none of it while the swap has not
\* failed and no compaction has moved a base. No program asks for a segment longer than a
\* block: suspender_proceso reads it whole into a buffer of one block.
THEOREM ContenidoSiempreConservado ==
  ASSUME ~ConexionEnCaliente, \A n \in Tamanios : n <= TamanioBloque
  PROVE  Spec => []SuspensionConservaContenido
<1>1. Init => IInv /\ ContenidosInv
  <2> SUFFICES ASSUME Init PROVE IInv /\ ContenidosInv
    OBVIOUS
  <2>1. IInv /\ TiposContenido
    BY InicioIInv, InicioTiposContenido
  <2>2. Caben
    BY DEF Init, Caben
  <2>3. Conservado(tabla, memoria, enSwap, disco, escritos)
    BY DEF Init, Conservado
  <2>4. escritos \subseteq vivos \X Ids /\ km.pc = "libre"
    BY DEF Init, KMLibre
  <2> QED BY <2>1, <2>2, <2>3, <2>4 DEF ContenidosInv
<1>2. (IInv /\ ContenidosInv) /\ [Next]_vars => (IInv /\ ContenidosInv)'
  <2> SUFFICES ASSUME IInv, ContenidosInv, [Next]_vars PROVE (IInv /\ ContenidosInv)'
    OBVIOUS
  <2>1. IInv' /\ TiposContenido'
    BY PasoIInv, PasoTiposContenido DEF ContenidosInv
  <2>2. Escrituras'
    BY PasoEscrituras
  <2> QED BY <2>1, <2>2 DEF ContenidosInv, Escrituras
<1>3. IInv /\ ContenidosInv => SuspensionConservaContenido
  <2> SUFFICES ASSUME IInv, ContenidosInv, SinFallas, ~compactado, NEW x \in escritos
               PROVE  Intacto(x[1], x[2])
    BY DEF SuspensionConservaContenido
  <2>1. x[1] \in Procesos /\ x[2] \in Ids /\ x = <<x[1], x[2]>>
    BY DEF ContenidosInv, IInv, EstructurasOK
  <2>2. EnMemoria(tabla, memoria, x[1], x[2]) \/ EnDisco(enSwap, disco, x[1], x[2])
    BY <2>1 DEF ContenidosInv, Conservado
  <2> QED BY <2>2 DEF EnMemoria, EnDisco, Intacto, DeSwap
<1> QED BY <1>1, <1>2, <1>3, PTL DEF Spec

-----------------------------------------------------------------------------
(* No byte leaks.                                                            *)

\* During a compaction the segments that were moved cover everything below the cursor.
Compactado ==
  km.pc = "compactar" =>
    \A d \in Celdas : d < km.cursor =>
      \E p \in Procesos : \E s \in tabla[p] : [pid |-> p, seg |-> s] \notin km.pend /\ EnBloque(d, s)
CubiertoInv == SinFugas /\ Compactado

\* registrar_hueco keeps every byte of the holes and adds those of the block.
LEMMA RegistrarCubre ==
  ASSUME NEW hs, NEW t \in Nat, HuecosValidos(hs, t), NEW b \in Nat, NEW n \in Nat, NEW d \in Int,
         (\E h \in hs : EnBloque(d, h)) \/ (b <= d /\ d < b + n)
  PROVE  \E h \in registrar_hueco(hs, b, n) : EnBloque(d, h)
<1>1. CASE n = 0
  BY <1>1 DEF registrar_hueco
<1>2. CASE n # 0
  <2> DEFINE izquierda == {h \in hs : Fin(h) = b}
             derecha == {h \in hs : h.base = b + n}
             desde == IF izquierda = {} THEN b ELSE (CHOOSE h \in izquierda : TRUE).base
             hasta == IF derecha = {} THEN b + n ELSE Fin(CHOOSE h \in derecha : TRUE)
             nuevo == [base |-> desde, tam |-> hasta - desde]
             quedan == hs \ (izquierda \cup derecha)
  <2>1. registrar_hueco(hs, b, n) = quedan \cup {nuevo}
    BY <1>2 DEF registrar_hueco
  <2>2. /\ hs \subseteq Hueco /\ \A h, g \in hs : h = g \/ Aparte(h, g)
        /\ \A h \in hs : h.base \in Nat /\ h.tam \in Nat \ {0} /\ Fin(h) = h.base + h.tam
    BY DEF HuecosValidos, Hueco, Fin
  <2>3. \A h \in izquierda : desde = h.base
    <3> TAKE h \in izquierda
    <3> DEFINE g == CHOOSE x \in izquierda : TRUE
    <3>1. g \in izquierda /\ desde = g.base
      OBVIOUS
    <3> HIDE DEF g, desde
    <3>2. h \in hs /\ g \in hs /\ Fin(h) = b /\ Fin(g) = b
      BY <3>1
    <3>3. h = g
      BY <2>2, <3>2 DEF Aparte
    <3> QED BY <3>1, <3>3
  <2>4. \A h \in derecha : hasta = Fin(h)
    <3> TAKE h \in derecha
    <3> DEFINE g == CHOOSE x \in derecha : TRUE
    <3>1. g \in derecha /\ hasta = Fin(g)
      OBVIOUS
    <3> HIDE DEF g, hasta
    <3>2. h \in hs /\ g \in hs /\ h.base = b + n /\ g.base = b + n
      BY <3>1
    <3>3. h = g
      BY <2>2, <3>2 DEF Aparte
    <3> QED BY <3>1, <3>3
  <2>5. izquierda = {} => desde = b
    OBVIOUS
  <2>6. derecha = {} => hasta = b + n
    OBVIOUS
  <2> HIDE DEF desde, hasta
  <2>7. desde \in Nat /\ desde <= b
    <3>1. CASE izquierda = {}
      BY <2>5, <3>1
    <3>2. ASSUME NEW h \in izquierda
          PROVE  desde \in Nat /\ desde <= b
      <4>1. h \in hs /\ Fin(h) = b
        OBVIOUS
      <4> QED BY <2>2, <2>3, <4>1
    <3> QED BY <3>1, <3>2
  <2>8. hasta \in Nat /\ b + n <= hasta
    <3>1. CASE derecha = {}
      BY <2>6, <3>1
    <3>2. ASSUME NEW h \in derecha
          PROVE  hasta \in Nat /\ b + n <= hasta
      <4>1. h \in hs /\ h.base = b + n
        OBVIOUS
      <4> QED BY <2>2, <2>4, <4>1
    <3> QED BY <3>1, <3>2
  <2>9. nuevo.base = desde /\ Fin(nuevo) = hasta
    BY <2>7, <2>8 DEF Fin
  <2>10. CASE b <= d /\ d < b + n
    <3>1. EnBloque(d, nuevo)
      BY <2>7, <2>8, <2>9, <2>10 DEF EnBloque
    <3> QED BY <2>1, <3>1
  <2>11. ASSUME NEW h \in hs, EnBloque(d, h)
         PROVE  \E g \in registrar_hueco(hs, b, n) : EnBloque(d, g)
    <3>1. CASE h \in izquierda
      <4>1. desde = h.base /\ Fin(h) = b
        BY <2>3, <3>1
      <4>2. EnBloque(d, nuevo)
        BY <2>2, <2>7, <2>8, <2>9, <2>11, <4>1 DEF EnBloque
      <4> QED BY <2>1, <4>2
    <3>2. CASE h \in derecha
      <4>1. hasta = Fin(h) /\ h.base = b + n
        BY <2>4, <3>2
      <4>2. EnBloque(d, nuevo)
        BY <2>2, <2>7, <2>8, <2>9, <2>11, <4>1 DEF EnBloque
      <4> QED BY <2>1, <4>2
    <3>3. CASE h \in quedan
      BY <2>1, <2>11, <3>3
    <3> QED BY <3>1, <3>2, <3>3
  <2> QED BY <2>10, <2>11
<1> QED BY <1>1, <1>2

\* The bytes that reservar_espacio takes from a hole are those of the new segment.
LEMMA ReservarCubre ==
  ASSUME huecos \subseteq Hueco, NEW h \in huecos, NEW n \in Nat \ {0}, n <= h.tam, NEW d \in Int,
         \E g \in huecos : EnBloque(d, g)
  PROVE  \/ \E g \in Reservado(h, n) : EnBloque(d, g)
         \/ h.base <= d /\ d < h.base + n
<1>1. PICK g \in huecos : EnBloque(d, g)
  OBVIOUS
<1>2. CASE g # h
  BY <1>1, <1>2 DEF Reservado
<1>3. CASE g = h
  <2>1. h.base \in Nat /\ h.tam \in Nat
    BY DEF Hueco
  <2>2. h.base <= d /\ d < h.base + h.tam
    BY <1>1, <1>3 DEF EnBloque, Fin
  <2>3. CASE h.tam = n
    BY <2>2, <2>3
  <2>4. CASE h.tam # n /\ ~(d < h.base + n)
    <3> DEFINE resto == [base |-> h.base + n, tam |-> h.tam - n]
    <3>1. resto \in Reservado(h, n)
      BY <2>4 DEF Reservado
    <3>2. resto.base = h.base + n /\ Fin(resto) = h.base + h.tam
      BY <2>1 DEF Fin
    <3>3. EnBloque(d, resto)
      BY <2>1, <2>2, <2>4, <3>2 DEF EnBloque
    <3> QED BY <3>1, <3>3
  <2> QED BY <2>1, <2>2, <2>3, <2>4
<1> QED BY <1>2, <1>3

\* A step outside a compaction that keeps every byte of the lists where it is, or moves it
\* from one list to the other.
LEMMA SiguenCubiertos ==
  ASSUME CubiertoInv, km.pc # "compactar", km'.pc # "compactar",
         UNCHANGED <<total, sticks>>, SinFallas' => SinFallas,
         \A d \in Celdas :
           \/ \E h \in huecos : EnBloque(d, h)
           \/ \E p \in Procesos : \E s \in tabla[p] : EnBloque(d, s)
           => \/ \E h \in huecos' : EnBloque(d, h)
              \/ \E p \in Procesos : \E s \in tabla'[p] : EnBloque(d, s)
  PROVE  CubiertoInv'
<1>1. Celdas' = Celdas
  BY DEF Celdas
<1>2. Compactado'
  BY DEF Compactado
<1>3. SinFugas'
  <2> SUFFICES ASSUME SinFallas', NEW d \in Celdas
               PROVE  \/ \E h \in huecos' : EnBloque(d, h)
                      \/ \E p \in Procesos : \E s \in tabla'[p] : EnBloque(d, s)
                      \/ \E k \in Sticks : /\ sticks[k].pc = "sumado"
                                           /\ sticks[k].base <= d /\ d < sticks[k].base + Tamanio[k]
    BY <1>1 DEF SinFugas, EnBloque
  <2>1. SinFallas
    OBVIOUS
  <2> QED BY <2>1 DEF CubiertoInv, SinFugas
<1> QED BY <1>2, <1>3 DEF CubiertoInv

\* The bytes of a segment that leaves its table are in a hole again.
LEMMA CubiertosAlLiberar ==
  ASSUME IInv, CubiertoInv, km.pc # "compactar", km'.pc # "compactar",
         UNCHANGED <<total, sticks>>, SinFallas' => SinFallas,
         NEW p \in Procesos, NEW s \in tabla[p], tabla' = [tabla EXCEPT ![p] = @ \ {s}],
         huecos' = registrar_hueco(huecos, s.base, s.tam)
  PROVE  CubiertoInv'
<1>1. /\ s.base \in Nat /\ s.tam \in Nat /\ Fin(s) = s.base + s.tam
      /\ total \in Nat /\ HuecosValidos(huecos, total)
  BY DEF IInv, EspacioInv, EstructurasOK, SegmentosValidos, Segmento, Fin
<1>2. ASSUME NEW d \in Celdas, \/ \E h \in huecos : EnBloque(d, h)
                               \/ \E q \in Procesos : \E r \in tabla[q] : EnBloque(d, r)
      PROVE  \/ \E h \in huecos' : EnBloque(d, h)
             \/ \E q \in Procesos : \E r \in tabla'[q] : EnBloque(d, r)
  <2>1. d \in Int
    BY DEF Celdas
  <2>2. CASE (\E h \in huecos : EnBloque(d, h)) \/ EnBloque(d, s)
    <3>1. (\E h \in huecos : EnBloque(d, h)) \/ (s.base <= d /\ d < s.base + s.tam)
      BY <1>1, <2>2 DEF EnBloque
    <3> QED BY <1>1, <2>1, <3>1, RegistrarCubre
  <2>3. ASSUME NEW q \in Procesos, NEW r \in tabla[q], EnBloque(d, r), ~EnBloque(d, s)
        PROVE  r \in tabla'[q]
    BY <2>3 DEF IInv, EstructurasOK
  <2> QED BY <1>2, <2>2, <2>3
<1> QED BY <1>2, SiguenCubiertos

\* The bytes taken from a hole are those of a segment.
LEMMA CubiertosAlReservar ==
  ASSUME IInv, CubiertoInv, km.pc # "compactar", km'.pc # "compactar",
         UNCHANGED <<total, sticks>>, SinFallas' => SinFallas,
         NEW p \in Procesos, NEW id, NEW n \in Nat \ {0}, NEW h \in huecos, n <= h.tam,
         tabla' = [tabla EXCEPT ![p] = @ \cup {[id |-> id, base |-> h.base, tam |-> n]}],
         huecos' = Reservado(h, n)
  PROVE  CubiertoInv'
<1> DEFINE s == [id |-> id, base |-> h.base, tam |-> n]
<1>1. huecos \subseteq Hueco /\ s.base = h.base /\ Fin(s) = h.base + n
  BY DEF IInv, EstructurasOK, Fin
<1>2. s \in tabla'[p] /\ \A q \in Procesos : tabla[q] \subseteq tabla'[q]
  BY DEF IInv, EstructurasOK
<1> HIDE DEF s
<1>3. ASSUME NEW d \in Celdas, \/ \E g \in huecos : EnBloque(d, g)
                               \/ \E q \in Procesos : \E r \in tabla[q] : EnBloque(d, r)
      PROVE  \/ \E g \in huecos' : EnBloque(d, g)
             \/ \E q \in Procesos : \E r \in tabla'[q] : EnBloque(d, r)
  <2>1. d \in Int
    BY DEF Celdas
  <2>2. CASE \E g \in huecos : EnBloque(d, g)
    <3>1. (\E g \in Reservado(h, n) : EnBloque(d, g)) \/ (h.base <= d /\ d < h.base + n)
      BY <1>1, <2>1, <2>2, ReservarCubre
    <3>2. h.base <= d /\ d < h.base + n => EnBloque(d, s)
      BY <1>1 DEF EnBloque
    <3> QED BY <1>2, <3>1, <3>2
  <2>3. CASE \E q \in Procesos : \E r \in tabla[q] : EnBloque(d, r)
    BY <1>2, <2>3
  <2> QED BY <1>3, <2>2, <2>3
<1> QED BY <1>3, SiguenCubiertos

\* Neither the lists nor the memory change.
LEMMA CubiertosQuietos ==
  ASSUME CubiertoInv, km.pc # "compactar", km'.pc # "compactar",
         UNCHANGED <<total, sticks, huecos, tabla>>, SinFallas' => SinFallas
  PROVE  CubiertoInv'
BY SiguenCubiertos

\* crear_segmento, when it is tried and when it is tried again.
LEMMA CubiertosAlCrear ==
  ASSUME IInv, CubiertoInv, NEW p \in Procesos, NEW id, NEW n \in Nat, crear_segmento(p, id, n),
         km.pc # "compactar", UNCHANGED <<total, sticks>>, SinFallas' => SinFallas
  PROVE  CubiertoInv'
<1>1. CASE UNCHANGED <<huecos, tabla>> /\ km' = KMLibre
  <2>1. km'.pc # "compactar"
    BY <1>1 DEF KMLibre
  <2> QED BY <1>1, <2>1, CubiertosQuietos
<1>2. CASE n > 0 /\ \E h \in buscar_hueco_candidato(n) : CreaEn(h, p, id, n)
  <2>1. PICK h \in buscar_hueco_candidato(n) : CreaEn(h, p, id, n)
    BY <1>2
  <2>2. h \in huecos /\ n <= h.tam /\ n \in Nat \ {0}
    BY <1>2, <2>1 DEF buscar_hueco_candidato, IInv, EstructurasOK, Hueco
  <2>3. km'.pc # "compactar"
    BY <2>1 DEF CreaEn, Termina, KMLibre
  <2> QED BY <2>1, <2>2, <2>3, CubiertosAlReservar DEF CreaEn
<1> QED BY <1>1, <1>2 DEF crear_segmento, NoCrea, Termina

\* A new stick adds the bytes of the hole it will register.
LEMMA CubiertosAlConectar ==
  ASSUME ~ConexionEnCaliente, IInv, CubiertoInv, NEW k \in Sticks, conectar_memory_stick(k)
  PROVE  CubiertoInv'
<1>1. /\ km.pc = "libre" /\ km' = km /\ \A j \in Sticks : sticks[j].pc # "sumado"
      /\ total \in Nat /\ Tamanio[k] \in Nat /\ total' = total + Tamanio[k]
      /\ sticks'[k] = [pc |-> "sumado", base |-> total]
      /\ UNCHANGED <<huecos, tabla>>
  BY KernelMemoryAssumption DEF conectar_memory_stick, enTablas, IInv, EstructurasOK
<1>2. SinFallas' => SinFallas
  BY DEF conectar_memory_stick, swap, SinFallas
<1>3. Compactado'
  BY <1>1 DEF Compactado
<1>4. SinFugas'
  <2> SUFFICES ASSUME SinFallas, NEW d \in Celdas'
               PROVE  \/ \E h \in huecos : EnBloque(d, h)
                      \/ \E p \in Procesos : \E s \in tabla[p] : EnBloque(d, s)
                      \/ sticks'[k].pc = "sumado" /\ sticks'[k].base <= d /\ d < sticks'[k].base + Tamanio[k]
    BY <1>1, <1>2 DEF SinFugas, EnBloque
  <2>1. d \in Int /\ 0 <= d /\ d < total + Tamanio[k]
    BY <1>1 DEF Celdas
  <2>2. CASE d < total
    <3>1. d \in Celdas
      BY <1>1, <2>1, <2>2 DEF Celdas
    <3> QED BY <1>1, <3>1 DEF CubiertoInv, SinFugas
  <2>3. CASE ~(d < total)
    <3>1. sticks'[k].pc = "sumado" /\ sticks'[k].base = total
      BY <1>1
    <3> QED BY <1>1, <2>1, <2>3, <3>1
  <2> QED BY <2>2, <2>3
<1> QED BY <1>3, <1>4 DEF CubiertoInv

\* The hole of a stick has the bytes that were counted.
LEMMA CubiertosAlRegistrar ==
  ASSUME IInv, CubiertoInv, NEW k \in Sticks, registrarHuecoDeStick(k)
  PROVE  CubiertoInv'
<1>1. /\ sticks[k].pc = "sumado" /\ sticks[k].base \in Nat /\ Tamanio[k] \in Nat
      /\ huecos' = registrar_hueco(huecos, sticks[k].base, Tamanio[k])
      /\ UNCHANGED <<total, tabla, km>> /\ total \in Nat
  BY KernelMemoryAssumption DEF registrarHuecoDeStick, IInv, EstructurasOK, enTablas
<1>2. /\ km.pc = "libre" /\ \A j \in Sticks : sticks[j].pc = "sumado" => j = k
      /\ HuecosValidos(huecos, total)
  BY <1>1 DEF IInv, StickPendiente, EspacioInv
<1>3. SinFallas' => SinFallas
  BY DEF registrarHuecoDeStick, swap, SinFallas
<1>4. Compactado'
  BY <1>1, <1>2 DEF Compactado
<1>5. SinFugas'
  <2> SUFFICES ASSUME SinFallas, NEW d \in Celdas
               PROVE  \/ \E h \in huecos' : EnBloque(d, h)
                      \/ \E p \in Procesos : \E s \in tabla[p] : EnBloque(d, s)
    BY <1>1, <1>3 DEF SinFugas, EnBloque, Celdas
  <2>1. d \in Int
    BY DEF Celdas
  <2>2. \/ \E h \in huecos : EnBloque(d, h)
        \/ \E p \in Procesos : \E s \in tabla[p] : EnBloque(d, s)
        \/ sticks[k].base <= d /\ d < sticks[k].base + Tamanio[k]
    BY <1>2 DEF CubiertoInv, SinFugas
  <2>3. (\E h \in huecos : EnBloque(d, h)) \/ (sticks[k].base <= d /\ d < sticks[k].base + Tamanio[k])
        => \E h \in huecos' : EnBloque(d, h)
    BY <1>1, <1>2, <2>1, RegistrarCubre
  <2> QED BY <2>2, <2>3
<1> QED BY <1>4, <1>5 DEF CubiertoInv

\* The segment moved covers the bytes the cursor goes over.
LEMMA CubiertosAlMover ==
  ASSUME IInv, CubiertoInv, compactarSegmento
  PROVE  CubiertoInv'
<1>1. /\ km.pc = "compactar" /\ total' = total /\ km.cursor \in Nat
      /\ km.pend \in SUBSET [pid : Procesos, seg : Segmento]
  BY DEF compactarSegmento, espacio, IInv, EstructurasOK
<1>2. PICK x \in SiguienteDe(km.pend) :
        /\ tabla' = [tabla EXCEPT ![x.pid] = (@ \ {x.seg}) \cup {[x.seg EXCEPT !.base = km.cursor]}]
        /\ km' = [km EXCEPT !.cursor = @ + x.seg.tam, !.pend = @ \ {x}]
  BY DEF compactarSegmento
<1> DEFINE p == x.pid
           s == x.seg
           m == [s EXCEPT !.base = km.cursor]
<1>3. /\ x \in km.pend /\ p \in Procesos /\ s \in tabla[p] /\ x = [pid |-> p, seg |-> s]
      /\ \A y \in km.pend : s.base <= y.seg.base
      /\ km.cursor <= s.base
  BY <1>1, <1>2 DEF SiguienteDe, IInv, EnCompactacion
<1>4. s \in Segmento /\ s.base \in Nat /\ s.tam \in Nat \ {0}
  BY <1>1, <1>3 DEF IInv, EspacioInv, SegmentosValidos, Segmento
<1>5. m.base = km.cursor /\ Fin(m) = km.cursor + s.tam /\ (s.base = km.cursor => m = s)
  BY <1>1, <1>4 DEF Segmento, Fin
<1>6. km'.pc = "compactar" /\ km'.cursor = km.cursor + s.tam /\ km'.pend = km.pend \ {x}
  BY <1>1, <1>2 DEF IInv, EstructurasOK
<1>7. /\ m \in tabla'[p]
      /\ \A q \in Procesos : \A r \in tabla[q] : ~(q = p /\ r = s) => r \in tabla'[q]
  BY <1>2, <1>3 DEF IInv, EstructurasOK
<1> HIDE DEF m, p, s
<1>8. [pid |-> p, seg |-> m] \notin km'.pend
  <2> SUFFICES ASSUME [pid |-> p, seg |-> m] \in km.pend PROVE [pid |-> p, seg |-> m] = x
    BY <1>6
  <2>1. s.base <= m.base
    <3> DEFINE y == [pid |-> p, seg |-> m]
    <3>1. y \in km.pend /\ y.seg = m
      OBVIOUS
    <3> HIDE DEF y
    <3> QED BY <1>3, <3>1
  <2>2. s.base = km.cursor
    BY <1>1, <1>3, <1>4, <1>5, <2>1
  <2> QED BY <1>3, <1>5, <2>2
<1>9. ASSUME NEW d \in Celdas, d < km'.cursor
      PROVE  \E q \in Procesos : \E r \in tabla'[q] : [pid |-> q, seg |-> r] \notin km'.pend /\ EnBloque(d, r)
  <2>1. d \in Int
    BY DEF Celdas
  <2>2. CASE d < km.cursor
    <3>0. PICK q \in Procesos : \E r \in tabla[q] : [pid |-> q, seg |-> r] \notin km.pend /\ EnBloque(d, r)
      BY <1>1, <2>2 DEF CubiertoInv, Compactado
    <3>1. PICK r \in tabla[q] : [pid |-> q, seg |-> r] \notin km.pend /\ EnBloque(d, r)
      BY <3>0
    <3>2. ~(q = p /\ r = s)
      BY <1>3, <3>1
    <3> QED BY <1>6, <1>7, <3>1, <3>2
  <2>3. CASE ~(d < km.cursor)
    <3>1. EnBloque(d, m)
      BY <1>1, <1>4, <1>5, <1>6, <1>9, <2>1, <2>3 DEF EnBloque
    <3> QED BY <1>3, <1>7, <1>8, <3>1
  <2> QED BY <2>2, <2>3
<1>10. Celdas' = Celdas
  BY <1>1 DEF Celdas
<1> QED BY <1>6, <1>9, <1>10 DEF CubiertoInv, SinFugas, Compactado, EnBloque

\* What is above the cursor when every segment has been moved is the hole that is left.
LEMMA CubiertosAlReconstruir ==
  ASSUME IInv, CubiertoInv, reconstruir_huecos_desde
  PROVE  CubiertoInv'
<1>1. /\ km.pc = "compactar" /\ km.pend = {} /\ total' = total /\ total \in Nat /\ km.cursor \in Nat
      /\ tabla' = tabla /\ km'.pc = "reintentar"
      /\ \/ km.cursor >= total
         \/ huecos' = {[base |-> km.cursor, tam |-> total - km.cursor]}
  BY DEF reconstruir_huecos_desde, enTablas, IInv, EstructurasOK
<1>2. ASSUME NEW d \in Celdas
      PROVE  \/ \E h \in huecos' : EnBloque(d, h)
             \/ \E p \in Procesos : \E s \in tabla[p] : EnBloque(d, s)
  <2>1. d \in Int /\ d < total
    BY <1>1 DEF Celdas
  <2>2. CASE d < km.cursor
    BY <1>1, <2>2 DEF CubiertoInv, Compactado
  <2>3. CASE ~(d < km.cursor)
    <3> DEFINE h == [base |-> km.cursor, tam |-> total - km.cursor]
    <3>1. h.base = km.cursor /\ Fin(h) = total
      BY <1>1 DEF Fin
    <3>2. h \in huecos'
      BY <1>1, <2>1, <2>3
    <3> HIDE DEF h
    <3>3. EnBloque(d, h)
      BY <1>1, <2>1, <2>3, <3>1 DEF EnBloque
    <3> QED BY <3>2, <3>3
  <2> QED BY <2>2, <2>3
<1>3. Celdas' = Celdas
  BY <1>1 DEF Celdas
<1> QED BY <1>1, <1>2, <1>3 DEF CubiertoInv, SinFugas, Compactado, EnBloque

\* No step loses a byte.
LEMMA PasoCubierto ==
  ASSUME ~ConexionEnCaliente, IInv, CubiertoInv, [Next]_vars
  PROVE  CubiertoInv'
<1> USE DEF espacio, enTablas, swap
<1>1. CASE UNCHANGED vars
  <2>1. UNCHANGED <<total, huecos, sticks, tabla, km, swapVivo, fallas>>
    BY <1>1 DEF vars
  <2> QED BY <2>1 DEF CubiertoInv, SinFugas, Compactado, EnBloque, SinFallas, Celdas
<1>2. ASSUME NEW k \in Sticks, HiloStick(k)
      PROVE  CubiertoInv'
  BY <1>2, CubiertosAlConectar, CubiertosAlRegistrar DEF HiloStick
<1>3. ASSUME NEW p \in Procesos, Solicitud(p)
      PROVE  CubiertoInv'
  <2>1. CASE crear_proceso(p) \/ destruir_proceso(p) \/ suspender_proceso(p) \/ desuspender_proceso(p)
    <3>1. km.pc = "libre" /\ km'.pc \in {"libre", "destruir", "suspender", "desuspender"}
      <4>1. CASE crear_proceso(p)
        BY <4>1 DEF crear_proceso, Atiende, Termina, KMLibre
      <4>2. CASE destruir_proceso(p)
        <5>1. km.pc = "libre" /\ Sigue("destruir", p, Ninguno, 0)
          BY <4>2 DEF destruir_proceso, Atiende
        <5> QED BY <5>1 DEF Sigue, KMLibre
      <4>3. CASE suspender_proceso(p)
        <5>1. km.pc = "libre" /\ Sigue("suspender", p, Ninguno, 0)
          BY <4>3 DEF suspender_proceso, Atiende
        <5> QED BY <5>1 DEF Sigue, KMLibre
      <4>4. CASE desuspender_proceso(p)
        <5>1. km.pc = "libre" /\ Sigue("desuspender", p, Ninguno, 0)
          BY <4>4 DEF desuspender_proceso, Atiende
        <5> QED BY <5>1 DEF Sigue, KMLibre
      <4> QED BY <2>1, <4>1, <4>2, <4>3, <4>4
    <3>2. UNCHANGED <<total, huecos, sticks, tabla, swapVivo, fallas>>
      BY <2>1 DEF crear_proceso, destruir_proceso, suspender_proceso, desuspender_proceso
    <3> QED BY <3>1, <3>2, CubiertosQuietos DEF SinFallas
  <2>2. ASSUME NEW id \in Ids, NEW n \in Tamanios, mem_alloc(p, id, n)
        PROVE  CubiertoInv'
    <3>1. /\ km.pc = "libre" /\ n \in Nat /\ UNCHANGED <<total, sticks>> /\ (SinFallas' => SinFallas)
      BY <2>2, KernelMemoryAssumption DEF mem_alloc, Atiende, SinFallas
    <3>2. CASE crear_segmento(p, id, n)
      BY <3>1, <3>2, CubiertosAlCrear
    <3>3. CASE Sigue("desalojo", p, id, n) /\ UNCHANGED <<huecos, tabla>>
      <4>1. km'.pc = "desalojo"
        BY <3>3 DEF Sigue, KMLibre
      <4> QED BY <3>1, <3>3, <4>1, CubiertosQuietos
    <3> QED BY <2>2, <3>2, <3>3 DEF mem_alloc
  <2>3. ASSUME NEW id \in Ids, mem_free(p, id)
        PROVE  CubiertoInv'
    <3>1. /\ km.pc = "libre" /\ km'.pc = "libre" /\ UNCHANGED <<total, sticks>>
          /\ (SinFallas' => SinFallas)
      BY <2>3 DEF mem_free, Atiende, Termina, KMLibre, SinFallas
    <3>2. CASE UNCHANGED <<huecos, tabla>>
      BY <3>1, <3>2, CubiertosQuietos
    <3>3. CASE \E s \in tabla[p] : /\ tabla' = [tabla EXCEPT ![p] = @ \ {s}]
                                   /\ huecos' = registrar_hueco(huecos, s.base, s.tam)
      BY <3>1, <3>3, CubiertosAlLiberar
    <3> QED BY <2>3, <3>2, <3>3 DEF mem_free
  <2>4. ASSUME NEW id \in Ids, NEW op \in {"STDIN", "STDOUT"}, atenderIO(op, p, id)
        PROVE  CubiertoInv'
    <3>1. /\ km.pc = "libre" /\ UNCHANGED <<total, huecos, sticks, tabla>> /\ (SinFallas' => SinFallas)
          /\ km' = KMLibre \/ Sigue(op, p, id, 0)
      BY <2>4 DEF atenderIO, Atiende, Termina, SinFallas
    <3>2. CASE km' = KMLibre
      <4>1. km'.pc = "libre"
        BY <3>2 DEF KMLibre
      <4> QED BY <3>1, <4>1, CubiertosQuietos
    <3>3. CASE Sigue(op, p, id, 0)
      <4>1. km'.pc = op
        BY <3>3 DEF Sigue, KMLibre
      <4> QED BY <3>1, <4>1, CubiertosQuietos
    <3> QED BY <3>1, <3>2, <3>3
  <2> QED BY <1>3, <2>1, <2>2, <2>3, <2>4 DEF Solicitud
<1>4. CASE desalojoRealizado
  <2>1. /\ km'.pc = "compactar" /\ km'.cursor = 0
    BY <1>4 DEF desalojoRealizado, IInv, Pedido, EstructurasOK
  <2>2. ~ \E d \in Celdas' : d < km'.cursor
    BY <2>1 DEF Celdas
  <2> QED BY <2>1, <2>2 DEF CubiertoInv, SinFugas, Compactado
<1>5. CASE reintentar
  <2>1. /\ km.pid \in Procesos /\ km.tam \in Nat /\ km.pc = "reintentar"
        /\ UNCHANGED <<total, sticks>> /\ (SinFallas' => SinFallas)
    BY <1>5 DEF reintentar, IInv, Pedido, EstructurasOK, SinFallas
  <2>2. CASE crear_segmento(km.pid, km.id, km.tam)
    BY <2>1, <2>2, CubiertosAlCrear
  <2>3. CASE NoCrea("ERROR")
    <3>1. km'.pc = "libre" /\ UNCHANGED <<huecos, tabla>>
      BY <2>3 DEF NoCrea, Termina, KMLibre
    <3> QED BY <2>1, <3>1, CubiertosQuietos
  <2> QED BY <1>5, <2>2, <2>3 DEF reintentar
<1>6. CASE suspenderSegmento
  <2>1. /\ km.pid \in Procesos /\ km.pc = "suspender" /\ km' = km
        /\ UNCHANGED <<total, sticks>> /\ (SinFallas' => SinFallas)
    BY <1>6 DEF suspenderSegmento, IInv, Pedido, SinFallas
  <2>2. PICK s \in tabla[km.pid] : /\ tabla' = [tabla EXCEPT ![km.pid] = @ \ {s}]
                                   /\ huecos' = registrar_hueco(huecos, s.base, s.tam)
    BY <1>6 DEF suspenderSegmento
  <2> QED BY <2>1, <2>2, CubiertosAlLiberar
<1>7. CASE suspenderFalla
  <2>1. km'.pc = "libre"
    BY <1>7 DEF suspenderFalla, Termina, KMLibre
  <2>2. ~SinFallas'
    <3>1. fallas \in Nat
      BY DEF IInv, EstructurasOK
    <3>2. \/ swapVivo' = FALSE
          \/ ~swapVivo /\ swapVivo' = swapVivo
          \/ fallas' = fallas + 1
      BY <1>7, Zenon DEF suspenderFalla
    <3>3. fallas + 1 # 0
      BY <3>1
    <3> QED BY <3>2, <3>3, Zenon DEF SinFallas
  <2> QED BY <2>1, <2>2 DEF CubiertoInv, SinFugas, Compactado
<1>8. CASE desuspenderSegmento
  <2>1. /\ km.pid \in Procesos /\ km.pc # "compactar" /\ km' = km
        /\ UNCHANGED <<total, sticks>> /\ (SinFallas' => SinFallas)
    BY <1>8 DEF desuspenderSegmento, Desuspendiendo, IInv, Pedido, SinFallas
  <2>2. PICK e \in DeSwap(km.pid) : \E h \in buscar_hueco_candidato(e.tam) :
          /\ huecos' = Reservado(h, e.tam)
          /\ tabla' = [tabla EXCEPT ![km.pid] = @ \cup {[id |-> e.id, base |-> h.base, tam |-> e.tam]}]
    BY <1>8 DEF desuspenderSegmento
  <2>3. PICK h \in buscar_hueco_candidato(e.tam) :
          /\ huecos' = Reservado(h, e.tam)
          /\ tabla' = [tabla EXCEPT ![km.pid] = @ \cup {[id |-> e.id, base |-> h.base, tam |-> e.tam]}]
    BY <2>2
  <2>4. e.tam \in Nat \ {0}
    BY DEF DeSwap, IInv, EstructurasOK, SegmentoSwap
  <2>5. h \in huecos /\ e.tam <= h.tam
    BY <2>4 DEF buscar_hueco_candidato, IInv, EstructurasOK, Hueco
  <2> QED BY <2>1, <2>3, <2>4, <2>5, CubiertosAlReservar
<1>9. CASE destruirSegmento
  <2>1. /\ km.pid \in Procesos /\ km.pc = "destruir" /\ km' = km
        /\ UNCHANGED <<total, sticks>> /\ (SinFallas' => SinFallas)
    BY <1>9 DEF destruirSegmento, IInv, Pedido, SinFallas
  <2>2. PICK s \in tabla[km.pid] : /\ tabla' = [tabla EXCEPT ![km.pid] = @ \ {s}]
                                   /\ huecos' = registrar_hueco(huecos, s.base, s.tam)
    BY <1>9 DEF destruirSegmento
  <2> QED BY <2>1, <2>2, CubiertosAlLiberar
<1>10. ASSUME \/ desalojoFallido \/ suspenderFin \/ desuspenderFalla \/ desuspenderFin
              \/ reintentarIO \/ destruirFin
       PROVE  CubiertoInv'
  <2>1. km.pc # "compactar" /\ km' = KMLibre
    BY <1>10 DEF desalojoFallido, suspenderFin, desuspenderFalla, desuspenderFin, reintentarIO,
                 destruirFin, Desuspendiendo, Termina
  <2>2. UNCHANGED <<total, huecos, sticks, tabla, swapVivo, fallas>>
    BY <1>10 DEF desalojoFallido, suspenderFin, desuspenderFalla, desuspenderFin, reintentarIO, destruirFin
  <2>3. km'.pc # "compactar"
    BY <2>1 DEF KMLibre
  <2> QED BY <2>1, <2>2, <2>3, CubiertosQuietos DEF SinFallas
<1> QED BY <1>1, <1>2, <1>3, <1>4, <1>5, <1>6, <1>7, <1>8, <1>9, <1>10,
           CubiertosAlMover, CubiertosAlReconstruir DEF Next, Continua

\* Every byte of the memory is in a hole, in a segment or in a stick about to be registered
\* while the swap has not failed: registrar_hueco, reservar_espacio and
\* reconstruir_huecos_desde forget none, and a compaction gives back what was lost.
THEOREM SinFugasSiempre ==
  ASSUME ~ConexionEnCaliente
  PROVE  Spec => []SinFugas
<1>1. Init => IInv /\ CubiertoInv
  <2> SUFFICES ASSUME Init PROVE CubiertoInv
    BY InicioIInv
  <2>1. Celdas = {} /\ km.pc = "libre"
    BY DEF Init, KMLibre, Celdas
  <2> QED BY <2>1 DEF CubiertoInv, SinFugas, Compactado
<1>2. (IInv /\ CubiertoInv) /\ [Next]_vars => (IInv /\ CubiertoInv)'
  BY PasoIInv, PasoCubierto
<1>3. IInv /\ CubiertoInv => SinFugas
  BY DEF CubiertoInv
<1> QED BY <1>1, <1>2, <1>3, PTL DEF Spec
=============================================================================
