------------------------- MODULE PlanificadorProofs -------------------------
(* Proofs about Planificador, for any CPUs, processes, mutexes and programs. *)
EXTENDS Planificador, SequenceTheorems, FiniteSetTheorems, WellFoundedInduction, TLAPS

-----------------------------------------------------------------------------
(* Sequences.                                                               *)

\* A set of numbers that has elements has a smallest one.
LEMMA MinimoDeNaturales ==
  ASSUME NEW T \in SUBSET Nat, T # {}
  PROVE  /\ Min(T) \in T
         /\ \A y \in T : Min(T) <= y
<1> DEFINE R == OpToRel(<, Nat)
<1>1. IsWellFoundedOn(R, Nat)
  BY NatLessThanWellFounded
<1>2. \A x, y \in Nat : <<x, y>> \in R <=> x < y
  BY DEF OpToRel
<1> HIDE DEF R
<1>3. PICK x \in T : \A y \in T : ~(<<y, x>> \in R)
  BY <1>1, WFMin
<1>4. \A y \in T : y \in Nat /\ x \in Nat
  OBVIOUS
<1>5. \A y \in T : ~(y < x)
  BY <1>2, <1>3, <1>4
<1>6. \A y \in T : x <= y
  BY <1>4, <1>5
<1> QED BY <1>6 DEF Min

\* Removing the first e of a sequence: what was before it stays in its place, and what was
\* behind it moves one place.
LEMMA QuitarPrimero ==
  ASSUME NEW S, NEW s \in Seq(S), NEW e, Contains(s, e)
  PROVE  \E n \in 1..Len(s) :
           /\ s[n] = e /\ \A m \in 1..(n - 1) : s[m] # e
           /\ RemoveFirst(s, e) \in Seq(S)
           /\ Len(RemoveFirst(s, e)) = Len(s) - 1
           /\ \A i \in 1..Len(RemoveFirst(s, e)) :
                RemoveFirst(s, e)[i] = IF i < n THEN s[i] ELSE s[i + 1]
<1> DEFINE I == {i \in 1..Len(s) : s[i] = e}
           n == Min(I)
<1>1. Len(s) \in Nat /\ I \in SUBSET Nat /\ I # {}
  BY DEF Contains
<1>2. n \in I /\ \A y \in I : n <= y
  BY <1>1, MinimoDeNaturales
<1>3. RemoveFirst(s, e) = RemoveAt(s, n)
  BY <1>1 DEF RemoveFirst, SelectInSeq
<1> HIDE DEF n
<1>4. n \in 1..Len(s) /\ s[n] = e
  BY <1>2
<1>5. \A m \in 1..(n - 1) : s[m] # e
  BY <1>1, <1>2, <1>4
<1>6. /\ SubSeq(s, 1, n - 1) \in Seq(S) /\ Len(SubSeq(s, 1, n - 1)) = n - 1
      /\ \A i \in 1..(n - 1) : SubSeq(s, 1, n - 1)[i] = s[i]
  BY <1>1, <1>4, SubSeqProperties
<1>7. /\ SubSeq(s, n + 1, Len(s)) \in Seq(S) /\ Len(SubSeq(s, n + 1, Len(s))) = Len(s) - n
      /\ \A i \in 1..(Len(s) - n) : SubSeq(s, n + 1, Len(s))[i] = s[n + i]
  BY <1>1, <1>4, SubSeqProperties
<1> DEFINE a == SubSeq(s, 1, n - 1)
           b == SubSeq(s, n + 1, Len(s))
<1>8. /\ a \o b \in Seq(S) /\ Len(a \o b) = Len(a) + Len(b)
      /\ \A i \in 1..(Len(a) + Len(b)) : (a \o b)[i] = IF i <= Len(a) THEN a[i] ELSE b[i - Len(a)]
  BY <1>6, <1>7, ConcatProperties
<1>9. RemoveFirst(s, e) = a \o b
  BY <1>3 DEF RemoveAt
<1> HIDE DEF a, b
<1>10. /\ Len(a) = n - 1 /\ Len(b) = Len(s) - n
       /\ \A i \in 1..(n - 1) : a[i] = s[i]
       /\ \A i \in 1..(Len(s) - n) : b[i] = s[n + i]
  BY <1>6, <1>7 DEF a, b
<1>11. Len(a \o b) = Len(s) - 1
  BY <1>1, <1>4, <1>8, <1>10
<1>12. \A i \in 1..Len(a \o b) : (a \o b)[i] = IF i < n THEN s[i] ELSE s[i + 1]
  <2> TAKE i \in 1..Len(a \o b)
  <2>1. i \in 1..(Len(a) + Len(b)) /\ i \in Nat /\ n \in Nat
    BY <1>1, <1>4, <1>8, <1>10
  <2>2. CASE i < n
    BY <2>1, <2>2, <1>8, <1>10
  <2>3. CASE ~(i < n)
    <3>1. i - (n - 1) \in 1..(Len(s) - n) /\ n + (i - (n - 1)) = i + 1
      BY <2>1, <2>3, <1>1, <1>4, <1>10, <1>11
    <3>2. (a \o b)[i] = b[i - Len(a)]
      BY <2>1, <2>3, <1>8, <1>10
    <3>3. b[i - (n - 1)] = s[n + (i - (n - 1))]
      BY <3>1, <1>10
    <3> QED BY <3>1, <3>2, <3>3, <2>3, <1>10
  <2> QED BY <2>2, <2>3
<1> QED BY <1>4, <1>5, <1>8, <1>9, <1>11, <1>12

\* What is left of a sequence without the first e has the same elements.
LEMMA QuitarPrimeroTipo ==
  ASSUME NEW S, NEW s \in Seq(S), NEW e
  PROVE  RemoveFirst(s, e) \in Seq(S)
<1>1. CASE Contains(s, e)
  BY <1>1, QuitarPrimero
<1>2. CASE ~Contains(s, e)
  BY <1>2 DEF RemoveFirst, Contains
<1> QED BY <1>1, <1>2

-----------------------------------------------------------------------------
(* The stamp of a suspended process.                                       *)

\* What a critical section leaves as it was, other than the state and the lists.
MismosPCB(tab, u) ==
  u.prioridad = tab.prioridad /\ u.fdCpu = tab.fdCpu /\ u.enSwap = tab.enSwap

\* Whether the stamp of p changes when it enters a state.
Sella(tab, p, nuevo) == nuevo = "SUSP_BLOCK" \/ (nuevo = "SUSP_READY" /\ tab.orden[p] = 0)

\* The stamp of SUSP_READY changes the order of one process and the clock, no list.
LEMMA SelladoEfecto ==
  ASSUME NEW tab \in Tabla, NEW p \in Procesos, NEW nuevo
  PROVE  LET u == Sellado(tab, p, nuevo) IN
         /\ u \in Tabla /\ u.estado = tab.estado /\ MismosPCB(tab, u)
         /\ u.ready = tab.ready
         /\ u.listas = tab.listas
         /\ u.orden = IF Sella(tab, p, nuevo) THEN [tab.orden EXCEPT ![p] = tab.reloj]
                      ELSE tab.orden
<1> DEFINE u == Sellado(tab, p, nuevo)
<1>1. CASE Sella(tab, p, nuevo)
  <2>1. u = [tab EXCEPT !.orden[p] = tab.reloj, !.reloj = tab.reloj + 1]
    BY <1>1 DEF Sella, Sellado, ConSello
  <2> HIDE DEF u
  <2>2. /\ u \in Tabla /\ u.estado = tab.estado /\ MismosPCB(tab, u) /\ u.ready = tab.ready
        /\ u.listas = tab.listas
        /\ u.orden = [tab.orden EXCEPT ![p] = tab.reloj]
    <3> DEFINE orden == [tab.orden EXCEPT ![p] = tab.reloj]
               reloj == tab.reloj + 1
    <3>1. u = [tab EXCEPT !.orden = orden, !.reloj = reloj]
      BY <2>1
    <3>2. orden \in [Procesos -> Nat] /\ reloj \in Nat
      BY DEF Tabla
    <3> HIDE DEF orden, reloj
    <3>3. /\ u \in Tabla /\ u.estado = tab.estado /\ MismosPCB(tab, u) /\ u.ready = tab.ready
          /\ u.listas = tab.listas /\ u.orden = orden
      BY <3>1, <3>2 DEF Tabla, MismosPCB
    <3> QED BY <3>3 DEF orden
  <2> QED BY <1>1, <2>2 DEF u
<1>2. CASE ~Sella(tab, p, nuevo)
  <2>1. u = tab
    BY <1>2 DEF Sella, Sellado
  <2> HIDE DEF u
  <2> QED BY <1>2, <2>1 DEF u, MismosPCB
<1> QED BY <1>1, <1>2

-----------------------------------------------------------------------------
(* Queues of processes.                                                     *)

\* Who is in a queue once another one has been put in it.
LEMMA ContieneAppend ==
  ASSUME NEW S, NEW s \in Seq(S), NEW e \in S
  PROVE  /\ \A x : Contains(Append(s, e), x) <=> Contains(s, x) \/ x = e
         /\ (\A i, j \in 1..Len(s) : s[i] = s[j] => i = j) /\ ~Contains(s, e) =>
              \A i, j \in 1..Len(Append(s, e)) : Append(s, e)[i] = Append(s, e)[j] => i = j
<1> DEFINE a == Append(s, e)
<1>1. /\ Len(s) \in Nat /\ Len(a) = Len(s) + 1 /\ a[Len(s) + 1] = e
      /\ \A i \in 1..Len(s) : a[i] = s[i]
  BY AppendProperties, LenProperties
<1> HIDE DEF a
<1>2. \A i \in 1..Len(a) : (i \in 1..Len(s) /\ a[i] = s[i]) \/ (i = Len(s) + 1 /\ a[i] = e)
  BY <1>1
<1>3. \A i \in 1..Len(s) : i \in 1..Len(a)
  BY <1>1
<1>4. Len(s) + 1 \in 1..Len(a)
  BY <1>1
<1>5. \A x : Contains(a, x) <=> Contains(s, x) \/ x = e
  BY <1>1, <1>2, <1>3, <1>4 DEF Contains
<1>6. ASSUME \A i, j \in 1..Len(s) : s[i] = s[j] => i = j, ~Contains(s, e)
      PROVE  \A i, j \in 1..Len(a) : a[i] = a[j] => i = j
  BY <1>2, <1>6 DEF Contains
<1> QED BY <1>5, <1>6 DEF a

\* Who is in a queue once its first one has left.
LEMMA ContieneTail ==
  ASSUME NEW S, NEW s \in Seq(S), s # <<>>, \A i, j \in 1..Len(s) : s[i] = s[j] => i = j
  PROVE  /\ Head(s) \in S /\ Contains(s, Head(s)) /\ Tail(s) \in Seq(S)
         /\ \A x : Contains(Tail(s), x) <=> Contains(s, x) /\ x # Head(s)
         /\ \A i, j \in 1..Len(Tail(s)) : Tail(s)[i] = Tail(s)[j] => i = j
<1> DEFINE r == Tail(s)
           h == Head(s)
<1>1. /\ h \in S /\ r \in Seq(S) /\ Len(r) = Len(s) - 1 /\ Len(s) \in Nat \ {0}
      /\ \A i \in 1..Len(r) : r[i] = s[i + 1]
  BY HeadTailProperties, EmptySeq, LenProperties
<1>2. h = s[1]
  OBVIOUS
<1> HIDE DEF r, h
<1>3. /\ 1 \in 1..Len(s)
      /\ \A i \in 1..Len(r) : i + 1 \in 1..Len(s) /\ i + 1 # 1 /\ r[i] = s[i + 1]
      /\ \A i \in 1..Len(s) : i # 1 => i - 1 \in 1..Len(r) /\ (i - 1) + 1 = i
  BY <1>1
<1>4. Contains(s, h)
  BY <1>2, <1>3 DEF Contains
<1>5. ASSUME NEW x, Contains(r, x)
      PROVE  Contains(s, x) /\ x # h
  BY <1>2, <1>3, <1>5 DEF Contains
<1>6. ASSUME NEW x, Contains(s, x), x # h
      PROVE  Contains(r, x)
  <2>1. PICK i \in 1..Len(s) : s[i] = x /\ i # 1
    BY <1>2, <1>6 DEF Contains
  <2>2. i - 1 \in 1..Len(r) /\ r[i - 1] = s[(i - 1) + 1] /\ (i - 1) + 1 = i
    BY <1>3, <2>1
  <2>3. r[i - 1] = x
    BY <2>1, <2>2
  <2> QED BY <2>2, <2>3 DEF Contains
<1>7. ASSUME NEW i \in 1..Len(r), NEW j \in 1..Len(r), r[i] = r[j]
      PROVE  i = j
  <2>1. i + 1 \in 1..Len(s) /\ j + 1 \in 1..Len(s) /\ s[i + 1] = s[j + 1]
    BY <1>3, <1>7
  <2>2. i + 1 = j + 1
    BY <2>1
  <2> QED BY <2>2, <1>1
<1> QED BY <1>1, <1>4, <1>5, <1>6, <1>7 DEF r, h

-----------------------------------------------------------------------------
(* What the operations do to any table, whether or not its lists agree with *)
(* the PCBs.                                                                *)

\* The same steps of actualizarEstado, of a table whose queues may be incoherent: types only.
LEMMA RetiradoTipo ==
  ASSUME NEW tab \in Tabla, NEW p \in Procesos
  PROVE  LET u == Retirado(tab, p) IN
         u \in Tabla /\ u.estado = tab.estado /\ MismosPCB(tab, u)
<1> DEFINE u == Retirado(tab, p)
           e == tab.estado[p]
<1>1. CASE e = "READY"
  <2> DEFINE con == {k \in Colas : Contains(tab.ready[k], p)}
             K == Min(con)
             s == RemoveFirst(tab.ready[K], p)
  <2>1. CASE con = {}
    <3>1. u = tab
      BY <1>1, <2>1 DEF Retirado, QuitarDeReady
    <3> HIDE DEF u
    <3> QED BY <3>1 DEF MismosPCB, u
  <2>2. CASE con # {}
    <3>1. K \in con
      <4>1. con \in SUBSET Nat
        BY TablasAssumption DEF Colas
      <4> QED BY <2>2, <4>1, MinimoDeNaturales
    <3>2. u = [tab EXCEPT !.ready[K] = s]
      BY <1>1, <2>2 DEF Retirado, QuitarDeReady
    <3> HIDE DEF K
    <3>3. s \in Seq(Procesos)
      BY <3>1, QuitarPrimeroTipo DEF Tabla
    <3> HIDE DEF s, u
    <3>4. u \in Tabla /\ u.estado = tab.estado /\ MismosPCB(tab, u)
      BY <3>1, <3>2, <3>3 DEF Tabla, MismosPCB
    <3> QED BY <3>4 DEF u
  <2> QED BY <2>1, <2>2
<1>2. CASE e # "READY"
  <2> DEFINE lista == RemoveFirst(tab.listas[e], p)
  <2>1. u = [tab EXCEPT !.listas[e] = lista]
    BY <1>2 DEF Retirado
  <2>2. e \in ConLista => lista \in Seq(Procesos)
    BY QuitarPrimeroTipo DEF Tabla
  <2> HIDE DEF lista, u, e
  <2>3. u \in Tabla /\ u.estado = tab.estado /\ MismosPCB(tab, u)
    BY <2>1, <2>2 DEF Tabla, MismosPCB
  <2> QED BY <2>3 DEF u
<1> QED BY <1>1, <1>2

\* proceso_a_ready keeps the states and the PCBs.
LEMMA procesoAReadyTipo ==
  ASSUME NEW tab \in Tabla, NEW p \in Procesos
  PROVE  LET u == procesoAReady(tab, p) IN
         u \in Tabla /\ u.estado = tab.estado /\ MismosPCB(tab, u)
<1> DEFINE u == procesoAReady(tab, p)
           K == Nivel(tab, p)
           s == Append(tab.ready[K], p)
<1>1. CASE K \notin Colas
  <2>1. u = tab
    BY <1>1 DEF procesoAReady
  <2> HIDE DEF u
  <2> QED BY <2>1 DEF MismosPCB, u
<1>2. CASE K \in Colas
  <2>1. u = [tab EXCEPT !.ready[K] = s]
    BY <1>2 DEF procesoAReady
  <2> HIDE DEF K
  <2>2. s \in Seq(Procesos)
    BY <1>2 DEF Tabla
  <2> HIDE DEF s, u
  <2>3. u \in Tabla /\ u.estado = tab.estado /\ MismosPCB(tab, u)
    BY <1>2, <2>1, <2>2 DEF Tabla, MismosPCB
  <2> QED BY <2>3 DEF u
<1> QED BY <1>1, <1>2

\* The entry in the list of the new state keeps the states and the PCBs.
LEMMA EncoladoTipo ==
  ASSUME NEW tab \in Tabla, NEW p \in Procesos, NEW nuevo \in ConLista \cup {"READY"}
  PROVE  LET u == Encolado(tab, p, nuevo) IN
         u \in Tabla /\ u.estado = tab.estado /\ MismosPCB(tab, u)
<1> DEFINE u == Encolado(tab, p, nuevo)
<1>1. CASE nuevo = "READY"
  BY <1>1, procesoAReadyTipo DEF Encolado
<1>2. CASE nuevo # "READY"
  <2> DEFINE v == Sellado(tab, p, nuevo)
             lista == Append(v.listas[nuevo], p)
  <2>1. u = [v EXCEPT !.listas[nuevo] = lista]
    BY <1>2 DEF Encolado
  <2>2. v \in Tabla /\ v.estado = tab.estado /\ MismosPCB(tab, v)
    BY SelladoEfecto
  <2> HIDE DEF v
  <2>3. lista \in Seq(Procesos)
    BY <1>2, <2>2 DEF Tabla
  <2> HIDE DEF lista, u
  <2>4. u \in Tabla /\ u.estado = tab.estado /\ MismosPCB(tab, u)
    BY <1>2, <2>1, <2>2, <2>3 DEF Tabla, MismosPCB
  <2> QED BY <2>4 DEF u
<1> QED BY <1>1, <1>2

\* actualizar_estado_proceso sets one state, and leaves EXIT as it is.
LEMMA actualizarEstadoTipo ==
  ASSUME NEW tab \in Tabla, NEW p \in Procesos, NEW nuevo \in ConLista \cup {"READY"}
  PROVE  LET u == actualizarEstado(tab, p, nuevo) IN
         /\ u \in Tabla /\ MismosPCB(tab, u)
         /\ u.estado = [tab.estado EXCEPT ![p] = IF @ = "EXIT" THEN @ ELSE nuevo]
<1> DEFINE u == actualizarEstado(tab, p, nuevo)
<1>0. tab.estado \in [Procesos -> Estados]
  BY DEF Tabla
<1>1. CASE tab.estado[p] = "EXIT"
  <2>1. u = tab
    BY <1>1 DEF actualizarEstado
  <2> HIDE DEF u
  <2> QED BY <1>0, <1>1, <2>1 DEF MismosPCB, u
<1>2. CASE tab.estado[p] # "EXIT"
  <2> DEFINE r == Retirado(tab, p)
             v == [r EXCEPT !.estado[p] = nuevo]
             w == Encolado(v, p, nuevo)
  <2>1. u = w
    BY <1>2 DEF actualizarEstado
  <2>2. r \in Tabla /\ r.estado = tab.estado /\ MismosPCB(tab, r)
    BY RetiradoTipo
  <2> HIDE DEF r
  <2>3. /\ v \in Tabla /\ v.estado = [tab.estado EXCEPT ![p] = nuevo] /\ MismosPCB(tab, v)
    BY <2>2 DEF Tabla, MismosPCB, Estados
  <2> HIDE DEF v
  <2>4. w \in Tabla /\ w.estado = v.estado /\ MismosPCB(v, w)
    BY <2>3, EncoladoTipo
  <2> HIDE DEF w, u
  <2> QED BY <1>0, <1>2, <2>1, <2>3, <2>4 DEF MismosPCB, u
<1> QED BY <1>1, <1>2

\* A change of priority moves the PID between queues and keeps every state.
LEMMA cambiarPrioridadTipo ==
  ASSUME NEW tab \in Tabla, NEW p \in Procesos, NEW nueva \in Int
  PROVE  LET u == cambiarPrioridad(tab, p, nueva) IN
         /\ u \in Tabla /\ u.estado = tab.estado /\ u.fdCpu = tab.fdCpu
         /\ u.prioridad = [tab.prioridad EXCEPT ![p] = nueva]
<1> DEFINE u == cambiarPrioridad(tab, p, nueva)
           vieja == tab.prioridad[p]
           s == RemoveFirst(tab.ready[vieja], p)
           fuera == IF Algoritmo = "CMN" /\ tab.estado[p] = "READY" /\ vieja \in Colas
                    THEN [tab EXCEPT !.ready[vieja] = s]
                    ELSE tab
           con == [fuera EXCEPT !.prioridad[p] = nueva]
<1>1. CASE vieja = nueva
  <2>1. u = tab
    BY <1>1 DEF cambiarPrioridad
  <2>2. tab.prioridad \in [Procesos -> Int]
    BY DEF Tabla
  <2> HIDE DEF u
  <2> QED BY <1>1, <2>1, <2>2 DEF u
<1>2. CASE vieja # nueva
  <2>1. u = IF Algoritmo = "CMN" /\ tab.estado[p] = "READY" THEN procesoAReady(con, p) ELSE con
    BY <1>2 DEF cambiarPrioridad
  <2>2. vieja \in Colas => s \in Seq(Procesos)
    BY QuitarPrimeroTipo DEF Tabla
  <2> HIDE DEF s
  <2>3. /\ fuera \in Tabla /\ fuera.estado = tab.estado /\ fuera.fdCpu = tab.fdCpu
        /\ fuera.prioridad = tab.prioridad
    BY <2>2 DEF Tabla
  <2> HIDE DEF fuera
  <2>4. /\ con \in Tabla /\ con.estado = tab.estado /\ con.fdCpu = tab.fdCpu
        /\ con.prioridad = [tab.prioridad EXCEPT ![p] = nueva]
    BY <2>3 DEF Tabla
  <2> HIDE DEF con
  <2> DEFINE v == procesoAReady(con, p)
  <2>5. v \in Tabla /\ v.estado = con.estado /\ MismosPCB(con, v)
    BY <2>4, procesoAReadyTipo
  <2> HIDE DEF v
  <2>6. u = v \/ u = con
    BY <2>1 DEF v
  <2> HIDE DEF u
  <2> QED BY <2>4, <2>5, <2>6 DEF MismosPCB, u
<1> QED BY <1>1, <1>2

\* The return of an evicted process to the head of READY changes its state and its socket only.
LEMMA alFrenteTipo ==
  ASSUME NEW tab \in Tabla, NEW p \in Procesos
  PROVE  LET u == alFrenteDeReady(tab, p) IN
         /\ u \in Tabla /\ u.prioridad = tab.prioridad
         /\ u.estado = [tab.estado EXCEPT ![p] = "READY"]
         /\ u.fdCpu = [tab.fdCpu EXCEPT ![p] = Nadie]
<1> DEFINE u == alFrenteDeReady(tab, p)
           lista == RemoveFirst(tab.listas["EXEC"], p)
           K == Nivel(tab, p)
           s == <<p>> \o tab.ready[K]
<1>1. u = [tab EXCEPT !.listas["EXEC"] = lista, !.estado[p] = "READY",
                      !.fdCpu[p] = Nadie, !.ready[K] = s]
  BY DEF alFrenteDeReady
<1>2. lista \in Seq(Procesos)
  BY QuitarPrimeroTipo DEF Tabla, ConLista
<1> HIDE DEF K
<1>3. K \in Colas => s \in Seq(Procesos)
  BY DEF Tabla
<1> HIDE DEF lista, s, u
<1>4. "READY" \in Estados /\ "EXEC" \in ConLista
  BY DEF Estados, ConLista
<1>5. /\ u \in Tabla /\ u.prioridad = tab.prioridad
      /\ u.estado = [tab.estado EXCEPT ![p] = "READY"]
      /\ u.fdCpu = [tab.fdCpu EXCEPT ![p] = Nadie]
  BY <1>1, <1>2, <1>3, <1>4 DEF Tabla
<1> QED BY <1>5 DEF u

\* The process of a CPU is one of those in EXEC.
LEMMA EnCpuTipo ==
  ASSUME NEW tab \in Tabla, NEW c \in CPUs
  PROVE  enCpu(tab, c) \subseteq Procesos
<1> DEFINE exec == tab.listas["EXEC"]
           suyos == {i \in DOMAIN exec : tab.fdCpu[exec[i]] = c}
<1>1. exec \in Seq(Procesos)
  BY DEF Tabla, ConLista
<1>2. CASE suyos = {}
  BY <1>2 DEF enCpu
<1>3. CASE suyos # {}
  <2>1. suyos \in SUBSET Nat
    BY <1>1
  <2>2. Min(suyos) \in suyos
    BY <1>3, <2>1, MinimoDeNaturales
  <2> DEFINE n == Min(suyos)
  <2>3. enCpu(tab, c) = {exec[n]} /\ n \in DOMAIN exec
    BY <1>3, <2>2 DEF enCpu
  <2> HIDE DEF n, exec
  <2>4. exec[n] \in Procesos
    BY <1>1, <2>3
  <2> QED BY <2>3, <2>4
<1> QED BY <1>2, <1>3

\* A disconnection changes lists and queues, and no state: its processes are only queued.
LEMMA recuperarTipo ==
  ASSUME NEW tab \in Tabla, NEW c \in CPUs
  PROVE  LET u == recuperarDeCpu(tab, c) IN
         /\ u \in Tabla /\ u.estado = tab.estado /\ u.prioridad = tab.prioridad
<1> DEFINE u == recuperarDeCpu(tab, c)
<1>1. CASE enCpu(tab, c) = {}
  <2>1. u = tab
    BY <1>1 DEF recuperarDeCpu
  <2> HIDE DEF u
  <2> QED BY <2>1 DEF u
<1>2. CASE enCpu(tab, c) # {}
  <2> DEFINE p == CHOOSE q \in enCpu(tab, c) : TRUE
             v == [tab EXCEPT !.fdCpu[p] = Nadie]
             w == procesoAReady(v, p)
  <2>1. u = w
    BY <1>2 DEF recuperarDeCpu
  <2>2. p \in enCpu(tab, c)
    BY <1>2
  <2>3. enCpu(tab, c) \subseteq Procesos
    BY EnCpuTipo
  <2> HIDE DEF p
  <2>4. v \in Tabla /\ v.estado = tab.estado /\ v.prioridad = tab.prioridad
    BY <2>2, <2>3 DEF Tabla
  <2> HIDE DEF v
  <2>5. w \in Tabla /\ w.estado = v.estado /\ MismosPCB(v, w)
    BY <2>2, <2>3, <2>4, procesoAReadyTipo
  <2> HIDE DEF w, u
  <2> QED BY <2>1, <2>4, <2>5 DEF MismosPCB, u
<1> QED BY <1>1, <1>2

\* The process selected is the head of a READY queue.
LEMMA seleccionarProcesoTipo ==
  ASSUME NEW tab \in Tabla, NEW p \in seleccionarProceso(tab)
  PROVE  /\ p \in Procesos /\ Nivel(tab, p) \in Int
         /\ \E k \in Colas : tab.ready[k] # << >> /\ p = tab.ready[k][1]
<1> DEFINE llenas == {k \in Colas : tab.ready[k] # <<>>}
           K == Min(llenas)
<1>1. llenas # {} /\ p = Head(tab.ready[K])
  BY DEF seleccionarProceso
<1>2. K \in llenas
  <2>1. llenas \in SUBSET Nat
    BY TablasAssumption DEF Colas
  <2> QED BY <1>1, <2>1, MinimoDeNaturales
<1> HIDE DEF K
<1>3. K \in Colas /\ tab.ready[K] \in Seq(Procesos) /\ tab.ready[K] # <<>>
  BY <1>2 DEF Tabla
<1>4. p = tab.ready[K][1] /\ p \in Procesos
  BY <1>1, <1>3
<1> QED BY <1>3, <1>4 DEF Nivel, Tabla

-----------------------------------------------------------------------------
(* The lists agree with the PCBs.                                           *)

SinRepetir(s) == \A i, j \in 1..Len(s) : s[i] = s[j] => i = j

\* A sequence does not repeat after a new element is appended.
LEMMA SinRepetirAppend ==
  ASSUME NEW S, NEW s \in Seq(S), NEW e \in S, SinRepetir(s), ~Contains(s, e)
  PROVE  SinRepetir(Append(s, e))
<1>1. \A i, j \in 1..Len(s) : s[i] = s[j] => i = j
  BY DEF SinRepetir
<1>2. \A i, j \in 1..Len(Append(s, e)) : Append(s, e)[i] = Append(s, e)[j] => i = j
  BY <1>1, ContieneAppend
<1> QED BY <1>2 DEF SinRepetir

\* A sequence without repetitions, once e has been removed from it.
LEMMA ContieneQuitar ==
  ASSUME NEW S, NEW s \in Seq(S), NEW e, SinRepetir(s)
  PROVE  /\ RemoveFirst(s, e) \in Seq(S) /\ SinRepetir(RemoveFirst(s, e))
         /\ \A x : Contains(RemoveFirst(s, e), x) <=> Contains(s, x) /\ x # e
<1>1. CASE ~Contains(s, e)
  <2>1. RemoveFirst(s, e) = s
    BY <1>1 DEF RemoveFirst, Contains
  <2> QED BY <1>1, <2>1
<1>2. CASE Contains(s, e)
  <2> DEFINE r == RemoveFirst(s, e)
  <2>1. PICK n \in 1..Len(s) :
          /\ s[n] = e /\ r \in Seq(S) /\ Len(r) = Len(s) - 1
          /\ \A i \in 1..Len(r) : r[i] = IF i < n THEN s[i] ELSE s[i + 1]
    BY <1>2, QuitarPrimero
  <2> HIDE DEF r
  <2>2. Len(s) \in Nat /\ Len(r) \in Nat /\ n \in Nat
    BY <2>1, LenProperties
  <2> DEFINE f(i) == IF i < n THEN i ELSE i + 1
  <2>3. \A i \in 1..Len(r) : f(i) \in 1..Len(s) /\ f(i) # n /\ r[i] = s[f(i)]
    BY <2>1, <2>2
  <2>4. \A i, j \in 1..Len(r) : f(i) = f(j) => i = j
    BY <2>2
  <2>5. \A j \in 1..Len(s) : j # n => \E i \in 1..Len(r) : f(i) = j
    <3> TAKE j \in 1..Len(s)
    <3> HAVE j # n
    <3>1. CASE j < n
      <4>1. j \in 1..Len(r) /\ f(j) = j
        BY <2>1, <2>2, <3>1
      <4> QED BY <4>1
    <3>2. CASE ~(j < n)
      <4>1. j - 1 \in 1..Len(r) /\ f(j - 1) = j
        BY <2>1, <2>2, <3>2
      <4> QED BY <4>1
    <3> QED BY <3>1, <3>2
  <2> HIDE DEF f
  <2>6. SinRepetir(r)
    BY <2>3, <2>4 DEF SinRepetir
  <2>7. \A x : Contains(r, x) => Contains(s, x) /\ x # e
    BY <2>1, <2>3 DEF Contains, SinRepetir
  <2>8. \A x : Contains(s, x) /\ x # e => Contains(r, x)
    <3> TAKE x
    <3> HAVE Contains(s, x) /\ x # e
    <3>1. PICK j \in 1..Len(s) : s[j] = x
      BY DEF Contains
    <3>2. PICK i \in 1..Len(r) : f(i) = j
      BY <2>1, <2>5, <3>1
    <3>3. r[i] = x
      BY <2>3, <3>1, <3>2
    <3> QED BY <3>3 DEF Contains
  <2> QED BY <2>1, <2>6, <2>7, <2>8 DEF r
<1> QED BY <1>1, <1>2

\* The lists of L agree with the PCBs: q is in the one of its state and in no other; in
\* READY, in the queue of its priority.
EnSuLista(L, tab, q) == \A l \in L : Contains(tab.listas[l], q) <=> tab.estado[q] = l

EnSuCola(tab, q) ==
  \A k \in Colas : Contains(tab.ready[k], q) <=> tab.estado[q] = "READY" /\ Nivel(tab, q) = k

SinLugar(L, tab, q) ==
  /\ \A l \in L : ~Contains(tab.listas[l], q)
  /\ \A k \in Colas : ~Contains(tab.ready[k], q)

FilasSinRepetir(L, tab) ==
  /\ \A l \in L : SinRepetir(tab.listas[l])
  /\ \A k \in Colas : SinRepetir(tab.ready[k])

CoherenteEn(L, tab) ==
  /\ FilasSinRepetir(L, tab)
  /\ \A q \in Procesos : EnSuLista(L, tab, q) /\ EnSuCola(tab, q)

Coherente(tab) == CoherenteEn(ConLista, tab)

\* p is on its way from one list to another.
CoherenteSalvo(L, tab, p) ==
  /\ FilasSinRepetir(L, tab) /\ SinLugar(L, tab, p)
  /\ \A q \in Procesos \ {p} : EnSuLista(L, tab, q) /\ EnSuCola(tab, q)

\* Retirado takes p out of the list of its state, and leaves every other process in its place.
LEMMA RetiradoCoherente ==
  ASSUME NEW L \in SUBSET ConLista, NEW tab \in Tabla, CoherenteEn(L, tab), NEW p \in Procesos
  PROVE  CoherenteSalvo(L, Retirado(tab, p), p)
<1> DEFINE u == Retirado(tab, p)
           e == tab.estado[p]
<1>1. CASE e = "READY"
  <2> DEFINE con == {k \in Colas : Contains(tab.ready[k], p)}
             K == Min(con)
             s == RemoveFirst(tab.ready[K], p)
  <2>0. e \notin ConLista
    BY <1>1 DEF ConLista
  <2>1. CASE con = {}
    <3>1. u = tab
      BY <1>1, <2>1 DEF Retirado, QuitarDeReady
    <3>2. SinLugar(L, tab, p)
      BY <2>0, <2>1 DEF CoherenteEn, EnSuLista, SinLugar
    <3> HIDE DEF u
    <3> QED BY <3>1, <3>2 DEF CoherenteSalvo, CoherenteEn, u
  <2>2. CASE con # {}
    <3>1. K \in con
      <4>1. con \in SUBSET Nat
        BY TablasAssumption DEF Colas
      <4> QED BY <2>2, <4>1, MinimoDeNaturales
    <3>2. u = [tab EXCEPT !.ready[K] = s]
      BY <1>1, <2>2 DEF Retirado, QuitarDeReady
    <3>3. \A k \in con : k = Nivel(tab, p)
      BY DEF CoherenteEn, EnSuCola
    <3>4. K \in Colas /\ \A k \in Colas \ {K} : ~Contains(tab.ready[k], p)
      BY <3>1, <3>3
    <3> HIDE DEF K, con
    <3>5. tab.ready[K] \in Seq(Procesos) /\ SinRepetir(tab.ready[K])
      BY <3>4 DEF Tabla, CoherenteEn, FilasSinRepetir
    <3>6. /\ s \in Seq(Procesos) /\ SinRepetir(s)
          /\ \A x : Contains(s, x) <=> Contains(tab.ready[K], x) /\ x # p
      BY <3>5, ContieneQuitar
    <3> HIDE DEF s, u
    <3>7. /\ u.estado = tab.estado /\ u.prioridad = tab.prioridad /\ u.listas = tab.listas
          /\ \A k \in Colas : u.ready[k] = IF k = K THEN s ELSE tab.ready[k]
      BY <3>2, <3>4, <3>6 DEF Tabla
    <3>8. FilasSinRepetir(L, u)
      BY <3>6, <3>7 DEF CoherenteEn, FilasSinRepetir
    <3>9. SinLugar(L, u, p)
      BY <2>0, <3>4, <3>6, <3>7 DEF CoherenteEn, EnSuLista, SinLugar
    <3>10. \A q \in Procesos \ {p} : EnSuLista(L, u, q) /\ EnSuCola(u, q)
      BY <3>6, <3>7 DEF CoherenteEn, EnSuLista, EnSuCola, Nivel
    <3> QED BY <3>8, <3>9, <3>10 DEF CoherenteSalvo, u
  <2> QED BY <2>1, <2>2
<1>2. CASE e # "READY"
  <2> DEFINE s == RemoveFirst(tab.listas[e], p)
  <2>1. u = [tab EXCEPT !.listas[e] = s]
    BY <1>2 DEF Retirado
  <2>2. \A k \in Colas : ~Contains(tab.ready[k], p)
    BY <1>2 DEF CoherenteEn, EnSuCola
  <2>3. CASE e \notin ConLista
    <3>1. u = tab
      <4> HIDE DEF e, s
      <4> QED BY <2>1, <2>3 DEF Tabla
    <3>2. SinLugar(L, tab, p)
      BY <2>2, <2>3 DEF CoherenteEn, EnSuLista, SinLugar
    <3> HIDE DEF u
    <3> QED BY <3>1, <3>2 DEF CoherenteSalvo, CoherenteEn, u
  <2>4. CASE e \in ConLista
    <3>1. /\ tab.listas[e] \in Seq(Procesos) /\ s \in Seq(Procesos)
          /\ e \in L => SinRepetir(tab.listas[e])
      BY <2>4, QuitarPrimeroTipo DEF Tabla, CoherenteEn, FilasSinRepetir
    <3>2. e \in L => /\ SinRepetir(s)
                     /\ \A x : Contains(s, x) <=> Contains(tab.listas[e], x) /\ x # p
      BY <3>1, ContieneQuitar
    <3>3. \A l \in L \ {e} : ~Contains(tab.listas[l], p)
      BY DEF CoherenteEn, EnSuLista
    <3> HIDE DEF s, u, e
    <3>4. /\ u.estado = tab.estado /\ u.prioridad = tab.prioridad /\ u.ready = tab.ready
          /\ \A l \in ConLista : u.listas[l] = IF l = e THEN s ELSE tab.listas[l]
      BY <2>1, <2>4, <3>1 DEF Tabla
    <3>5. FilasSinRepetir(L, u)
      BY <3>2, <3>4 DEF CoherenteEn, FilasSinRepetir
    <3>6. SinLugar(L, u, p)
      BY <2>2, <3>2, <3>3, <3>4 DEF SinLugar
    <3>7. \A q \in Procesos \ {p} : EnSuLista(L, u, q) /\ EnSuCola(u, q)
      BY <3>2, <3>4 DEF CoherenteEn, EnSuLista, EnSuCola, Nivel
    <3> QED BY <3>5, <3>6, <3>7 DEF CoherenteSalvo, u
  <2> QED BY <2>3, <2>4
<1> QED BY <1>1, <1>2

\* Out of every list, the PCB of p may change; the other PCBs keep what places them.
LEMMA CoherenteOtroPCB ==
  ASSUME NEW L \in SUBSET ConLista, NEW tab, NEW u, NEW p \in Procesos, CoherenteSalvo(L, tab, p),
         u.listas = tab.listas, u.ready = tab.ready,
         \A q \in Procesos \ {p} : /\ u.estado[q] = tab.estado[q]
                                   /\ u.prioridad[q] = tab.prioridad[q]
  PROVE  CoherenteSalvo(L, u, p)
<1>1. FilasSinRepetir(L, u) /\ SinLugar(L, u, p)
  BY DEF CoherenteSalvo, FilasSinRepetir, SinLugar
<1>2. ASSUME NEW q \in Procesos \ {p}
      PROVE  EnSuLista(L, u, q) /\ EnSuCola(u, q)
  <2>1. EnSuLista(L, tab, q) /\ EnSuCola(tab, q) /\ Nivel(u, q) = Nivel(tab, q)
    BY DEF CoherenteSalvo, Nivel
  <2> QED BY <2>1 DEF EnSuLista, EnSuCola
<1> QED BY <1>1, <1>2 DEF CoherenteSalvo

\* A process in READY that is in no list is put in the queue of its priority.
LEMMA procesoAReadyCoherente ==
  ASSUME NEW L \in SUBSET ConLista, NEW tab \in Tabla, NEW p \in Procesos, CoherenteSalvo(L, tab, p),
         tab.estado[p] = "READY"
  PROVE  CoherenteEn(L, procesoAReady(tab, p))
<1> DEFINE u == procesoAReady(tab, p)
           K == Nivel(tab, p)
           s == Append(tab.ready[K], p)
<1>1. CASE K \notin Colas
  <2>1. u = tab
    BY <1>1 DEF procesoAReady
  <2>2. EnSuLista(L, tab, p) /\ EnSuCola(tab, p)
    BY <1>1 DEF CoherenteSalvo, SinLugar, EnSuLista, EnSuCola, ConLista
  <2> HIDE DEF u
  <2> QED BY <2>1, <2>2 DEF CoherenteSalvo, CoherenteEn, u
<1>2. CASE K \in Colas
  <2>1. u = [tab EXCEPT !.ready[K] = s]
    BY <1>2 DEF procesoAReady
  <2>2. \A k \in Colas : Nivel(tab, p) = k <=> k = K
    OBVIOUS
  <2> HIDE DEF K
  <2>3. /\ tab.ready[K] \in Seq(Procesos) /\ SinRepetir(tab.ready[K])
        /\ ~Contains(tab.ready[K], p)
    BY <1>2 DEF Tabla, CoherenteSalvo, FilasSinRepetir, SinLugar
  <2>4. /\ s \in Seq(Procesos) /\ \A x : Contains(s, x) <=> Contains(tab.ready[K], x) \/ x = p
    BY <2>3, ContieneAppend
  <2>5. SinRepetir(s)
    BY <2>3, SinRepetirAppend
  <2> HIDE DEF s, u
  <2>6. /\ u.estado = tab.estado /\ u.prioridad = tab.prioridad /\ u.listas = tab.listas
        /\ \A k \in Colas : u.ready[k] = IF k = K THEN s ELSE tab.ready[k]
    BY <1>2, <2>1, <2>4 DEF Tabla
  <2>7. FilasSinRepetir(L, u)
    BY <2>5, <2>6 DEF CoherenteSalvo, FilasSinRepetir
  <2>8. \A q \in Procesos : Nivel(u, q) = Nivel(tab, q)
    BY <2>6 DEF Nivel
  <2>9. EnSuLista(L, u, p) /\ EnSuCola(u, p)
    BY <2>2, <2>4, <2>6, <2>8 DEF CoherenteSalvo, SinLugar, EnSuLista, EnSuCola, ConLista
  <2>10. \A q \in Procesos \ {p} : EnSuLista(L, u, q) /\ EnSuCola(u, q)
    BY <2>4, <2>6, <2>8 DEF CoherenteSalvo, EnSuLista, EnSuCola
  <2> QED BY <2>7, <2>9, <2>10 DEF CoherenteEn, u
<1> QED BY <1>1, <1>2

\* A process that is in no list is put in that of its state.
LEMMA EncoladoCoherente ==
  ASSUME NEW L \in SUBSET ConLista, NEW tab \in Tabla, NEW p \in Procesos,
         NEW nuevo \in ConLista \cup {"READY"}, CoherenteSalvo(L, tab, p), tab.estado[p] = nuevo
  PROVE  CoherenteEn(L, Encolado(tab, p, nuevo))
<1> DEFINE u == Encolado(tab, p, nuevo)
<1>1. CASE nuevo = "READY"
  BY <1>1, procesoAReadyCoherente DEF Encolado
<1>2. CASE nuevo # "READY"
  <2> DEFINE v == Sellado(tab, p, nuevo)
             s == Append(v.listas[nuevo], p)
  <2>1. u = [v EXCEPT !.listas[nuevo] = s]
    BY <1>2 DEF Encolado
  <2>2. /\ v \in Tabla /\ v.estado = tab.estado /\ MismosPCB(tab, v) /\ v.ready = tab.ready
        /\ v.listas = tab.listas
    BY SelladoEfecto
  <2> HIDE DEF v
  <2>3. /\ v.listas[nuevo] \in Seq(Procesos)
        /\ nuevo \in L => SinRepetir(v.listas[nuevo]) /\ ~Contains(v.listas[nuevo], p)
    <3>1. v.listas[nuevo] \in Seq(Procesos)
      BY <1>2, <2>2 DEF Tabla
    <3>2. \A l \in L : SinRepetir(v.listas[l]) /\ ~Contains(v.listas[l], p)
      BY <2>2 DEF CoherenteSalvo, FilasSinRepetir, SinLugar
    <3> QED BY <3>1, <3>2
  <2>4. /\ s \in Seq(Procesos) /\ \A x : Contains(s, x) <=> Contains(v.listas[nuevo], x) \/ x = p
    BY <2>3, ContieneAppend
  <2>5. ASSUME nuevo \in L
        PROVE  SinRepetir(s)
    <3> DEFINE w == v.listas[nuevo]
    <3>1. w \in Seq(Procesos) /\ SinRepetir(w) /\ ~Contains(w, p)
      BY <2>3, <2>5
    <3>2. SinRepetir(Append(w, p))
      BY <3>1, SinRepetirAppend
    <3> QED BY <3>2
  <2> HIDE DEF s, u
  <2>6. /\ u.estado = tab.estado /\ u.prioridad = tab.prioridad /\ u.ready = tab.ready
        /\ \A l \in ConLista : u.listas[l] = IF l = nuevo THEN s ELSE tab.listas[l]
    BY <1>2, <2>1, <2>2, <2>4 DEF Tabla, MismosPCB
  <2>7. FilasSinRepetir(L, u)
    BY <2>5, <2>6 DEF CoherenteSalvo, FilasSinRepetir
  <2>8. \A q \in Procesos : Nivel(u, q) = Nivel(tab, q)
    BY <2>6 DEF Nivel
  <2>9. EnSuLista(L, u, p) /\ EnSuCola(u, p)
    BY <1>2, <2>2, <2>4, <2>6, <2>8 DEF CoherenteSalvo, SinLugar, EnSuLista, EnSuCola
  <2>10. \A q \in Procesos \ {p} : EnSuLista(L, u, q) /\ EnSuCola(u, q)
    BY <2>2, <2>4, <2>6, <2>8 DEF CoherenteSalvo, EnSuLista, EnSuCola
  <2> QED BY <2>7, <2>9, <2>10 DEF CoherenteEn, u
<1> QED BY <1>1, <1>2

\* actualizarEstadoProceso moves a process from the list of its state to that of the new one.
LEMMA actualizarEstadoCoherente ==
  ASSUME NEW L \in SUBSET ConLista, NEW tab \in Tabla, CoherenteEn(L, tab), NEW p \in Procesos,
         NEW nuevo \in ConLista \cup {"READY"}
  PROVE  CoherenteEn(L, actualizarEstado(tab, p, nuevo))
<1> DEFINE u == actualizarEstado(tab, p, nuevo)
<1>1. CASE tab.estado[p] = "EXIT"
  <2>1. u = tab
    BY <1>1 DEF actualizarEstado
  <2> QED BY <2>1
<1>2. CASE tab.estado[p] # "EXIT"
  <2> DEFINE r == Retirado(tab, p)
             v == [r EXCEPT !.estado[p] = nuevo]
  <2>1. u = Encolado(v, p, nuevo)
    BY <1>2 DEF actualizarEstado
  <2>2. r \in Tabla /\ r.estado = tab.estado /\ MismosPCB(tab, r)
    BY RetiradoTipo
  <2>3. CoherenteSalvo(L, r, p)
    BY RetiradoCoherente
  <2> HIDE DEF r
  <2>4. /\ v \in Tabla /\ v.estado = [r.estado EXCEPT ![p] = nuevo]
        /\ v.prioridad = r.prioridad /\ v.listas = r.listas /\ v.ready = r.ready
    BY <2>2 DEF Tabla, Estados
  <2> HIDE DEF v
  <2>5. v.estado[p] = nuevo /\ \A q \in Procesos \ {p} : v.estado[q] = r.estado[q]
    BY <2>2, <2>4 DEF Tabla
  <2>6. CoherenteSalvo(L, v, p)
    BY <2>3, <2>4, <2>5, CoherenteOtroPCB
  <2>7. CoherenteEn(L, Encolado(v, p, nuevo))
    BY <2>4, <2>5, <2>6, EncoladoCoherente
  <2> QED BY <2>1, <2>7
<1> QED BY <1>1, <1>2

\* cambiar_prioridad moves a process in READY to the queue of its new priority.
LEMMA cambiarPrioridadCoherente ==
  ASSUME NEW L \in SUBSET ConLista, NEW tab \in Tabla, CoherenteEn(L, tab), NEW p \in Procesos, NEW nueva \in Int
  PROVE  CoherenteEn(L, cambiarPrioridad(tab, p, nueva))
<1> DEFINE u == cambiarPrioridad(tab, p, nueva)
           vieja == tab.prioridad[p]
           s == RemoveFirst(tab.ready[vieja], p)
           fuera == IF Algoritmo = "CMN" /\ tab.estado[p] = "READY" /\ vieja \in Colas
                    THEN [tab EXCEPT !.ready[vieja] = s]
                    ELSE tab
           con == [fuera EXCEPT !.prioridad[p] = nueva]
<1>1. CASE vieja = nueva
  <2>1. u = tab
    BY <1>1 DEF cambiarPrioridad
  <2> QED BY <2>1
<1>2. CASE vieja # nueva /\ Algoritmo = "CMN" /\ tab.estado[p] = "READY"
  <2>1. u = procesoAReady(con, p)
    BY <1>2 DEF cambiarPrioridad
  <2>2. Nivel(tab, p) = vieja /\ \A l \in L : ~Contains(tab.listas[l], p)
    BY <1>2 DEF Nivel, CoherenteEn, EnSuLista, ConLista
  <2>3. /\ fuera \in Tabla /\ fuera.estado = tab.estado /\ fuera.prioridad = tab.prioridad
        /\ CoherenteSalvo(L, fuera, p)
    <3>1. CASE vieja \notin Colas
      <4>1. fuera = tab
        BY <3>1
      <4>2. CoherenteSalvo(L, tab, p)
        BY <2>2, <3>1 DEF CoherenteEn, EnSuCola, CoherenteSalvo, SinLugar
      <4> HIDE DEF fuera
      <4> QED BY <4>1, <4>2
    <3>2. CASE vieja \in Colas
      <4>1. fuera = [tab EXCEPT !.ready[vieja] = s]
        BY <1>2, <3>2
      <4>2. \A k \in Colas \ {vieja} : ~Contains(tab.ready[k], p)
        BY <2>2 DEF CoherenteEn, EnSuCola
      <4> HIDE DEF vieja
      <4>3. tab.ready[vieja] \in Seq(Procesos) /\ SinRepetir(tab.ready[vieja])
        BY <3>2 DEF Tabla, CoherenteEn, FilasSinRepetir
      <4>4. /\ s \in Seq(Procesos) /\ SinRepetir(s)
            /\ \A x : Contains(s, x) <=> Contains(tab.ready[vieja], x) /\ x # p
        BY <4>3, ContieneQuitar
      <4> HIDE DEF s, fuera
      <4>5. /\ fuera \in Tabla /\ fuera.estado = tab.estado /\ fuera.prioridad = tab.prioridad
            /\ fuera.listas = tab.listas
            /\ \A k \in Colas : fuera.ready[k] = IF k = vieja THEN s ELSE tab.ready[k]
        BY <3>2, <4>1, <4>4 DEF Tabla
      <4>6. FilasSinRepetir(L, fuera)
        BY <4>4, <4>5 DEF CoherenteEn, FilasSinRepetir
      <4>7. SinLugar(L, fuera, p)
        BY <2>2, <4>2, <4>4, <4>5 DEF SinLugar
      <4>8. \A q \in Procesos \ {p} : EnSuLista(L, fuera, q) /\ EnSuCola(fuera, q)
        BY <4>4, <4>5 DEF CoherenteEn, EnSuLista, EnSuCola, Nivel
      <4> QED BY <4>5, <4>6, <4>7, <4>8 DEF CoherenteSalvo
    <3> QED BY <3>1, <3>2
  <2> HIDE DEF fuera
  <2>4. /\ con \in Tabla /\ con.estado = fuera.estado /\ con.listas = fuera.listas
        /\ con.ready = fuera.ready
        /\ \A q \in Procesos \ {p} : con.prioridad[q] = fuera.prioridad[q]
    BY <2>3 DEF Tabla
  <2> HIDE DEF con
  <2>5. CoherenteSalvo(L, con, p)
    BY <2>3, <2>4, CoherenteOtroPCB
  <2>6. CoherenteEn(L, procesoAReady(con, p))
    BY <1>2, <2>3, <2>4, <2>5, procesoAReadyCoherente
  <2> QED BY <2>1, <2>6
<1>3. CASE vieja # nueva /\ ~(Algoritmo = "CMN" /\ tab.estado[p] = "READY")
  <2>1. u = [tab EXCEPT !.prioridad[p] = nueva]
    BY <1>3 DEF cambiarPrioridad
  <2> HIDE DEF u
  <2>2. /\ u.estado = tab.estado /\ u.listas = tab.listas /\ u.ready = tab.ready
        /\ \A q \in Procesos \ {p} : u.prioridad[q] = tab.prioridad[q]
    BY <2>1 DEF Tabla
  <2>3. FilasSinRepetir(L, u)
    BY <2>2 DEF CoherenteEn, FilasSinRepetir
  <2>4. \A q \in Procesos \ {p} : EnSuLista(L, u, q) /\ EnSuCola(u, q)
    BY <2>2 DEF CoherenteEn, EnSuLista, EnSuCola, Nivel
  <2>5. EnSuLista(L, u, p) /\ EnSuCola(u, p)
    <3>1. CASE Algoritmo = "CMN"
      BY <1>3, <2>2, <3>1 DEF CoherenteEn, EnSuLista, EnSuCola
    <3>2. CASE Algoritmo # "CMN"
      BY <2>2, <3>2 DEF CoherenteEn, EnSuLista, EnSuCola, Nivel
    <3> QED BY <3>1, <3>2
  <2> QED BY <2>3, <2>4, <2>5 DEF CoherenteEn, u
<1> QED BY <1>1, <1>2, <1>3

\* What enters a sequence at its front.
LEMMA ContieneAlFrente ==
  ASSUME NEW S, NEW s \in Seq(S), NEW e \in S, ~Contains(s, e), SinRepetir(s)
  PROVE  /\ <<e>> \o s \in Seq(S) /\ SinRepetir(<<e>> \o s)
         /\ \A x : Contains(<<e>> \o s, x) <=> Contains(s, x) \/ x = e
<1> DEFINE uno == <<e>>
           r == uno \o s
<1>1. uno \in Seq(S) /\ Len(uno) = 1 /\ uno[1] = e
  OBVIOUS
<1> HIDE DEF uno
<1>2. /\ r \in Seq(S) /\ Len(r) = 1 + Len(s) /\ Len(s) \in Nat
      /\ \A i \in 1..Len(r) : r[i] = IF i <= Len(uno) THEN uno[i] ELSE s[i - Len(uno)]
  <2>1. /\ r \in Seq(S) /\ Len(r) = Len(uno) + Len(s)
        /\ \A i \in 1..Len(uno) + Len(s) : r[i] = IF i <= Len(uno) THEN uno[i] ELSE s[i - Len(uno)]
    BY <1>1, ConcatProperties
  <2> QED BY <1>1, <2>1, LenProperties
<1> HIDE DEF r
<1>3. /\ r[1] = e /\ 1 \in 1..Len(r)
      /\ \A i \in 1..Len(r) : i = 1 \/ (i - 1 \in 1..Len(s) /\ r[i] = s[i - 1])
  BY <1>1, <1>2
<1>4. \A i \in 1..Len(s) : i + 1 \in 1..Len(r) /\ r[i + 1] = s[i]
  BY <1>1, <1>2
<1>5. \A x : Contains(r, x) <=> Contains(s, x) \/ x = e
  <2>1. \A x : Contains(r, x) => Contains(s, x) \/ x = e
    BY <1>3 DEF Contains
  <2>2. \A x : Contains(s, x) => Contains(r, x)
    BY <1>4 DEF Contains
  <2>3. Contains(r, e)
    BY <1>3 DEF Contains
  <2> QED BY <2>1, <2>2, <2>3
<1>6. \A i \in 1..Len(r) : i # 1 => r[i] # e
  BY <1>3 DEF Contains
<1>7. ASSUME NEW i \in 1..Len(r), NEW j \in 1..Len(r), r[i] = r[j]
      PROVE  i = j
  <2>1. CASE i = 1 \/ j = 1
    BY <1>3, <1>6, <1>7, <2>1
  <2>2. CASE i # 1 /\ j # 1
    <3>1. i - 1 \in 1..Len(s) /\ j - 1 \in 1..Len(s) /\ s[i - 1] = s[j - 1]
      BY <1>3, <1>7, <2>2
    <3>2. i - 1 = j - 1
      BY <3>1 DEF SinRepetir
    <3> QED BY <1>2, <3>2
  <2> QED BY <2>1, <2>2
<1>8. SinRepetir(r)
  BY <1>7 DEF SinRepetir
<1> QED BY <1>2, <1>5, <1>8 DEF r, uno

\* The eviction takes a process out of the list of EXEC and puts it at the front of its
\* queue, whatever its PCB says.
LEMMA alFrenteCoherente ==
  ASSUME NEW L \in SUBSET ConLista, NEW tab \in Tabla, CoherenteEn(L, tab), NEW p \in Procesos,
         \/ tab.estado[p] = "EXEC"
         \/ "EXEC" \notin L /\ tab.estado[p] \notin L \cup {"READY"}
  PROVE  CoherenteEn(L, alFrenteDeReady(tab, p))
<1> DEFINE u == alFrenteDeReady(tab, p)
           exec == tab.listas["EXEC"]
           lista == RemoveFirst(exec, p)
           K == Nivel(tab, p)
           s == <<p>> \o tab.ready[K]
<1>1. u = [tab EXCEPT !.listas["EXEC"] = lista, !.estado[p] = "READY",
                      !.fdCpu[p] = Nadie, !.ready[K] = s]
  BY DEF alFrenteDeReady
<1>2. /\ exec \in Seq(Procesos) /\ lista \in Seq(Procesos)
      /\ "EXEC" \in L => SinRepetir(exec)
  BY QuitarPrimeroTipo DEF Tabla, ConLista, CoherenteEn, FilasSinRepetir
<1> HIDE DEF exec
<1>3. "EXEC" \in L => /\ SinRepetir(lista)
                      /\ \A x : Contains(lista, x) <=> Contains(exec, x) /\ x # p
  BY <1>2, ContieneQuitar
<1>4. \A k \in Colas : ~Contains(tab.ready[k], p)
  BY DEF CoherenteEn, EnSuCola
<1>5. \A k \in Colas : Nivel(tab, p) = k <=> k = K
  OBVIOUS
<1>6. K \in Colas => /\ s \in Seq(Procesos) /\ SinRepetir(s)
                     /\ \A x : Contains(s, x) <=> Contains(tab.ready[K], x) \/ x = p
  <2> HAVE K \in Colas
  <2> HIDE DEF K
  <2>1. tab.ready[K] \in Seq(Procesos) /\ SinRepetir(tab.ready[K]) /\ ~Contains(tab.ready[K], p)
    BY <1>4 DEF Tabla, CoherenteEn, FilasSinRepetir
  <2> QED BY <2>1, ContieneAlFrente
<1> HIDE DEF lista, s, u, K
<1>7. u.prioridad = tab.prioridad
  BY <1>1 DEF Tabla
<1>8. u.estado = [tab.estado EXCEPT ![p] = "READY"]
  BY <1>1 DEF Tabla
<1>9. \A l \in ConLista : u.listas[l] = IF l = "EXEC" THEN lista ELSE tab.listas[l]
  BY <1>1 DEF Tabla
<1>10. \A k \in Colas : u.ready[k] = IF k = K THEN s ELSE tab.ready[k]
  BY <1>1 DEF Tabla
<1>11. u.estado[p] = "READY" /\ \A q \in Procesos \ {p} : u.estado[q] = tab.estado[q]
  BY <1>8 DEF Tabla
<1>12. FilasSinRepetir(L, u)
  BY <1>2, <1>3, <1>6, <1>9, <1>10 DEF CoherenteEn, FilasSinRepetir
<1>13. \A q \in Procesos : Nivel(u, q) = Nivel(tab, q)
  BY <1>7 DEF Nivel
<1>14. EnSuLista(L, u, p)
  <2>1. \A l \in L : l # "READY" /\ l \in ConLista
    BY DEF ConLista
  <2>2. \A l \in L : l # "EXEC" => ~Contains(tab.listas[l], p)
    BY DEF CoherenteEn, EnSuLista
  <2> QED BY <1>3, <1>9, <1>11, <2>1, <2>2 DEF EnSuLista
<1>15. EnSuCola(u, p)
  BY <1>4, <1>5, <1>6, <1>10, <1>11, <1>13 DEF EnSuCola
<1>16. \A q \in Procesos \ {p} : EnSuLista(L, u, q)
  BY <1>3, <1>9, <1>11 DEF CoherenteEn, EnSuLista, exec
<1>17. \A q \in Procesos \ {p} : EnSuCola(u, q)
  BY <1>6, <1>10, <1>11, <1>13 DEF CoherenteEn, EnSuCola
<1> QED BY <1>12, <1>14, <1>15, <1>16, <1>17 DEF CoherenteEn, u

\* A process that did not exist enters NEW.
LEMMA CreadoCoherente ==
  ASSUME NEW L \in SUBSET ConLista, NEW tab \in Tabla, NEW u \in Tabla, CoherenteEn(L, tab), NEW p \in Procesos,
         tab.estado[p] = "INEXISTENTE",
         u = [tab EXCEPT !.estado[p] = "NEW", !.listas["NEW"] = Append(tab.listas["NEW"], p)]
  PROVE  CoherenteEn(L, u)
<1> DEFINE nueva == tab.listas["NEW"]
           s == Append(nueva, p)
<1>1. \A l \in L : ~Contains(tab.listas[l], p)
  BY DEF CoherenteEn, EnSuLista, ConLista
<1>2. \A k \in Colas : ~Contains(tab.ready[k], p)
  BY DEF CoherenteEn, EnSuCola
<1>3. nueva \in Seq(Procesos) /\ ("NEW" \in L => SinRepetir(nueva) /\ ~Contains(nueva, p))
  BY <1>1 DEF Tabla, ConLista, CoherenteEn, FilasSinRepetir
<1> HIDE DEF nueva
<1>4. s \in Seq(Procesos) /\ \A x : Contains(s, x) <=> Contains(nueva, x) \/ x = p
  BY <1>3, ContieneAppend
<1>5. "NEW" \in L => SinRepetir(s)
  BY <1>3, ContieneAppend DEF SinRepetir
<1>6. u = [tab EXCEPT !.estado[p] = "NEW", !.listas["NEW"] = s]
  BY DEF nueva
<1> HIDE DEF s
<1>7. u.prioridad = tab.prioridad /\ u.ready = tab.ready
  BY <1>6 DEF Tabla
<1>8. u.estado[p] = "NEW" /\ \A q \in Procesos \ {p} : u.estado[q] = tab.estado[q]
  <2>1. u.estado = [tab.estado EXCEPT ![p] = "NEW"]
    BY <1>6 DEF Tabla
  <2> QED BY <2>1 DEF Tabla
<1>9. \A l \in ConLista : u.listas[l] = IF l = "NEW" THEN s ELSE tab.listas[l]
  <2>1. u.listas = [tab.listas EXCEPT !["NEW"] = s]
    BY <1>6 DEF Tabla
  <2> QED BY <2>1 DEF Tabla
<1>10. FilasSinRepetir(L, u)
  BY <1>5, <1>7, <1>9 DEF CoherenteEn, FilasSinRepetir
<1>11. \A q \in Procesos : Nivel(u, q) = Nivel(tab, q)
  BY <1>7 DEF Nivel
<1>12. EnSuLista(L, u, p) /\ EnSuCola(u, p)
  <2>1. EnSuLista(L, u, p)
    BY <1>1, <1>4, <1>8, <1>9 DEF EnSuLista, ConLista
  <2>2. EnSuCola(u, p)
    BY <1>2, <1>7, <1>8 DEF EnSuCola
  <2> QED BY <2>1, <2>2
<1>13. \A q \in Procesos \ {p} : EnSuLista(L, u, q)
  BY <1>4, <1>8, <1>9 DEF CoherenteEn, EnSuLista, nueva
<1>14. \A q \in Procesos \ {p} : EnSuCola(u, q)
  BY <1>7, <1>8, <1>11 DEF CoherenteEn, EnSuCola
<1> QED BY <1>10, <1>12, <1>13, <1>14 DEF CoherenteEn

\* What the lists and the queues say of the tables does not depend on the rest of the PCB.
LEMMA CoherenteMismo ==
  ASSUME NEW L \in SUBSET ConLista, NEW tab, NEW u, CoherenteEn(L, tab), u.estado = tab.estado, u.prioridad = tab.prioridad,
         u.listas = tab.listas, u.ready = tab.ready
  PROVE  CoherenteEn(L, u)
BY DEF CoherenteEn, FilasSinRepetir, EnSuLista, EnSuCola, Nivel

\* Once in a sequence without repetitions, or not at all.
LEMMA AparicionesUnaONinguna ==
  ASSUME NEW S, NEW s \in Seq(S), SinRepetir(s), NEW x
  PROVE  Cardinality({i \in DOMAIN s : s[i] = x}) = IF Contains(s, x) THEN 1 ELSE 0
<1> DEFINE I == {i \in DOMAIN s : s[i] = x}
<1>1. DOMAIN s = 1..Len(s)
  BY LenProperties
<1>2. CASE Contains(s, x)
  <2>1. PICK i \in 1..Len(s) : s[i] = x
    BY <1>2 DEF Contains
  <2>2. I = {i}
    BY <1>1, <2>1 DEF SinRepetir
  <2> HIDE DEF I
  <2>3. Cardinality(I) = 1
    BY <2>2, FS_Singleton
  <2> QED BY <1>2, <2>3 DEF I
<1>3. CASE ~Contains(s, x)
  <2>1. I = {}
    BY <1>1, <1>3 DEF Contains
  <2> HIDE DEF I
  <2>2. Cardinality(I) = 0
    BY <2>1, FS_EmptySet
  <2> QED BY <1>3, <2>2 DEF I
<1> QED BY <1>2, <1>3

-----------------------------------------------------------------------------
(* What the threads keep is what their next step needs.                     *)

DeMutex == {"MUTEX_CREATE", "MUTEX_LOCK", "MUTEX_UNLOCK"}

FormaCorto == corto.pc \in {"ejecutar", "enviar"} => corto.p \in Procesos /\ corto.c \in CPUs
FormaManejador ==
  \A c \in CPUs :
    /\ manejador[c].pc \in {"desalojado", "avisar", "bloquear", "despertar", "confirmaciones",
                            "compactando"}
         => manejador[c].pid \in Procesos
    /\ manejador[c].pc = "confirmaciones" => manejador[c].arg \in Nat
FormaCPU ==
  \A c \in CPUs :
    /\ cpu[c].modo \in {"ejecuta", "respuesta", "ack"} => cpu[c].pid \in Procesos
    /\ cpu[c].modo = "respuesta" =>
         cpu[c].sys \in ConRespuesta /\ (cpu[c].sys \in DeMutex => cpu[c].arg \in Mutexes)
    /\ \A m \in cpu[c].pend : m.tipo = "INTERRUPT"
FormaDeCpu ==
  \A c \in CPUs : \A i \in 1..Len(deCpu[c]) : deCpu[c][i].tipo \in DeMutex => deCpu[c][i].arg \in Mutexes
Formas == FormaCorto /\ FormaManejador /\ FormaCPU /\ FormaDeCpu

Bien == TypeOK /\ Formas

\* The record types of TypeOK.
EstadoCorto == [pc : {"flag", "tomar", "ejecutar", "enviar"}, p : Procesos \cup {Nadie},
                c : CPUs \cup {Nadie}, nivel : Int]
EstadoManejador == [pc : {"desconectado", "libre", "desalojado", "avisar", "bloquear",
                          "despertar", "confirmaciones", "compactando", "terminado"},
                    pid : Procesos \cup {Nadie}, arg : Nat \cup Args]
EstadoCPU == [modo : {"desconectada", "espera", "ejecuta", "respuesta", "ack", "caida"},
              pid : Procesos \cup {Nadie}, sys : ConRespuesta \cup {Nadie},
              arg : Args, pend : SUBSET MensajesAlCPU]
Relojes == [dormidos : Nat, vencidos : Nat]

-----------------------------------------------------------------------------
(* The interrupts of a critical section.                                    *)

\* A finite set of numbers can be listed in order: otherwise take the smallest one that
\* cannot, and put its first element before the rest.
LEMMA OrdenExiste ==
  ASSUME NEW I \in SUBSET Nat, IsFiniteSet(I)
  PROVE  \E s \in SetToSeqs(I) : \A a, b \in DOMAIN s : a < b => s[a] < s[b]
<1> DEFINE Ordena(J, s) == s \in SetToSeqs(J) /\ \A a, b \in DOMAIN s : a < b => s[a] < s[b]
           Malo(n) == \E J \in SUBSET Nat :
                        IsFiniteSet(J) /\ Cardinality(J) = n /\ ~\E s : Ordena(J, s)
           Malos == {n \in Nat : Malo(n)}
<1>1. SUFFICES ASSUME Malos # {}
               PROVE  FALSE
  <2>1. Cardinality(I) \in Nat
    BY FS_CardinalityType
  <2>2. \E s : Ordena(I, s)
    BY <1>1, <2>1
  <2> QED BY <2>2
<1>2. PICK n \in Malos : \A k \in Malos : n <= k
  <2>1. Malos \in SUBSET Nat
    OBVIOUS
  <2> HIDE DEF Malos
  <2> QED BY <1>1, <2>1, MinimoDeNaturales
<1>3. PICK J \in SUBSET Nat : IsFiniteSet(J) /\ Cardinality(J) = n /\ ~\E s : Ordena(J, s)
  BY <1>2
<1>4. J # {}
  <2> SUFFICES ASSUME J = {}
               PROVE  FALSE
    OBVIOUS
  <2>1. Cardinality(J) = 0
    BY FS_EmptySet
  <2>2. << >> \in SetToSeqs(J)
    BY <2>1 DEF SetToSeqs
  <2>3. Ordena(J, << >>)
    BY <2>2
  <2> QED BY <1>3, <2>3
<1> DEFINE m == Min(J)
           K == J \ {m}
<1>5. m \in J /\ \A y \in J : m <= y
  BY <1>4, MinimoDeNaturales
<1> HIDE DEF m
<1>6. n \in Nat \ {0} /\ IsFiniteSet(K) /\ Cardinality(K) = n - 1 /\ K \in SUBSET Nat
  <2>1. IsFiniteSet(K) /\ Cardinality(K) = n - 1
    BY <1>3, <1>5, FS_RemoveElement
  <2>2. Cardinality(K) \in Nat
    BY <2>1, FS_CardinalityType
  <2>3. n \in Nat /\ K \in SUBSET Nat
    BY <1>2
  <2> HIDE DEF K, Malos
  <2> QED BY <2>1, <2>2, <2>3
<1>7. PICK s : Ordena(K, s)
  <2>1. n - 1 \in Nat /\ ~(n <= n - 1)
    BY <1>6
  <2>2. n - 1 \notin Malos
    <3> HIDE DEF Malos
    <3> QED BY <1>2, <2>1
  <2>3. ~Malo(n - 1)
    <3> HIDE DEF Malo
    <3> QED BY <2>1, <2>2
  <2> QED BY <1>6, <2>3
<1> DEFINE r == [i \in 1..n |-> IF i = 1 THEN m ELSE s[i - 1]]
<1>8. s \in [1..(n - 1) -> K] /\ \A a, b \in 1..(n - 1) : a # b => s[a] # s[b]
  BY <1>6, <1>7 DEF SetToSeqs
<1>9. \A a, b \in 1..(n - 1) : a < b => s[a] < s[b]
  BY <1>7, <1>8
<1>10. \A i \in 1..n : i # 1 => i - 1 \in 1..(n - 1)
  BY <1>6
<1>11. \A i \in 1..n : r[i] \in J /\ (i # 1 => r[i] \in K)
  BY <1>5, <1>8, <1>10
<1>12. \A a, b \in 1..n : a < b => r[a] < r[b]
  <2> TAKE a, b \in 1..n
  <2> HAVE a < b
  <2>1. CASE a = 1
    <3>1. b # 1 /\ r[a] = m /\ r[b] \in K
      BY <2>1, <1>11
    <3>2. m \in Nat /\ r[b] \in Nat /\ m <= r[b] /\ r[b] # m
      BY <3>1, <1>5
    <3> QED BY <3>1, <3>2
  <2>2. CASE a # 1
    <3>1. b # 1 /\ a - 1 \in 1..(n - 1) /\ b - 1 \in 1..(n - 1) /\ a - 1 < b - 1
      BY <2>2, <1>10, <1>6
    <3> QED BY <2>2, <3>1, <1>9
  <2> QED BY <2>1, <2>2
<1>13. \A a, b \in 1..n : a # b => r[a] # r[b]
  <2> TAKE a, b \in 1..n
  <2> HAVE a # b
  <2>1. a < b \/ b < a
    BY <1>6
  <2>2. r[a] \in Nat /\ r[b] \in Nat
    BY <1>11
  <2> HIDE DEF r
  <2> QED BY <1>12, <2>1, <2>2
<1>14. r \in SetToSeqs(J)
  BY <1>3, <1>11, <1>13 DEF SetToSeqs
<1>15. Ordena(J, r)
  BY <1>12, <1>14
<1> QED BY <1>3, <1>15


\* Indices in order: as many as the set has, each one once.
LEMMA EnOrdenTipo ==
  ASSUME NEW I \in SUBSET Nat, IsFiniteSet(I)
  PROVE  /\ EnOrden(I) \in Seq(I) /\ Len(EnOrden(I)) = Cardinality(I)
         /\ \A a, b \in 1..Len(EnOrden(I)) : a # b => EnOrden(I)[a] # EnOrden(I)[b]
<1>1. EnOrden(I) \in SetToSeqs(I)
  BY OrdenExiste DEF EnOrden
<1>2. Cardinality(I) \in Nat
  BY FS_CardinalityType
<1>3. EnOrden(I) \in [1..Cardinality(I) -> I]
      /\ \A a, b \in 1..Cardinality(I) : a # b => EnOrden(I)[a] # EnOrden(I)[b]
  BY <1>1 DEF SetToSeqs
<1> HIDE DEF EnOrden
<1>4. EnOrden(I) \in Seq(I) /\ Len(EnOrden(I)) = Cardinality(I)
  BY <1>2, <1>3, IsASeq
<1> QED BY <1>3, <1>4

Interrupciones == [tipo : {"INTERRUPT"}, pid : Procesos, arg : Motivos]

\* Each CPU gets the interrupts of the processes of EXEC that its PCBs name.
LEMMA InterrupcionesParaTipo ==
  ASSUME NEW tabla \in Tabla, NEW c \in CPUs, NEW ps, NEW motivo \in Motivos
  PROVE  LET s == InterrupcionesPara(tabla, c, ps, motivo) IN
         /\ s \in Seq(Interrupciones)
         /\ \A i \in 1..Len(s) : s[i].arg = motivo /\ s[i].pid \in ps /\ tabla.fdCpu[s[i].pid] = c
<1> DEFINE exec == tabla.listas["EXEC"]
           I == {i \in DOMAIN exec : exec[i] \in ps /\ tabla.fdCpu[exec[i]] = c}
           o == EnOrden(I)
           s == InterrupcionesPara(tabla, c, ps, motivo)
<1>1. exec \in Seq(Procesos) /\ Len(exec) \in Nat /\ DOMAIN exec = 1..Len(exec)
  BY DEF Tabla, ConLista
<1>2. I \in SUBSET Nat /\ IsFiniteSet(I)
  <2>1. IsFiniteSet(1..Len(exec))
    BY <1>1, FS_Interval
  <2>2. I \subseteq 1..Len(exec)
    BY <1>1
  <2> HIDE DEF I, exec
  <2>3. IsFiniteSet(I)
    BY <2>1, <2>2, FS_Subset
  <2> QED BY <1>1, <2>2, <2>3
<1>3. o \in Seq(I)
  <2> HIDE DEF I
  <2> QED BY <1>2, EnOrdenTipo
<1>4. s = [i \in DOMAIN o |-> Interrupcion(exec[o[i]], motivo)]
  BY DEF InterrupcionesPara
<1> HIDE DEF s, o
<1>5. \A i \in 1..Len(o) : o[i] \in I
  BY <1>3, ElementOfSeq
<1>6. Len(o) \in Nat /\ DOMAIN o = 1..Len(o)
  BY <1>3, LenProperties
<1>7. \A i \in 1..Len(o) : exec[o[i]] \in Procesos /\ exec[o[i]] \in ps /\ tabla.fdCpu[exec[o[i]]] = c
  BY <1>1, <1>5
<1> HIDE DEF exec, I
<1>8. s \in [1..Len(o) -> Interrupciones]
  BY <1>4, <1>6, <1>7 DEF Interrupcion, Msj, Interrupciones
<1>9. s \in Seq(Interrupciones) /\ Len(s) = Len(o)
  BY <1>6, <1>8, IsASeq
<1>10. \A i \in 1..Len(s) : s[i].arg = motivo /\ s[i].pid \in ps /\ tabla.fdCpu[s[i].pid] = c
  BY <1>4, <1>6, <1>7, <1>9 DEF Interrupcion, Msj
<1> QED BY <1>9, <1>10 DEF s

\* The channels nuevo are the channels canal with interrupts behind.
SoloInterrumpe(canal, nuevo) ==
  \A c \in CPUs :
    /\ Len(nuevo[c]) >= Len(canal[c])
    /\ \A i \in 1..Len(canal[c]) : nuevo[c][i] = canal[c][i]
    /\ \A i \in (Len(canal[c]) + 1)..Len(nuevo[c]) : nuevo[c][i] \in Interrupciones

Canales == [CPUs -> Seq(MensajesAlCPU)]

\* The interrupts of a critical section only append INTERRUPT messages.
LEMMA InterrumpidasTipo ==
  ASSUME NEW canal \in Canales, NEW tabla \in Tabla, NEW ps, NEW motivo \in Motivos
  PROVE  LET nuevo == Interrumpidas(canal, tabla, ps, motivo) IN
         nuevo \in Canales /\ SoloInterrumpe(canal, nuevo)
<1> DEFINE nuevo == Interrumpidas(canal, tabla, ps, motivo)
<1>1. ASSUME NEW c \in CPUs
      PROVE  /\ nuevo[c] \in Seq(MensajesAlCPU)
             /\ Len(nuevo[c]) >= Len(canal[c])
             /\ \A i \in 1..Len(canal[c]) : nuevo[c][i] = canal[c][i]
             /\ \A i \in (Len(canal[c]) + 1)..Len(nuevo[c]) : nuevo[c][i] \in Interrupciones
  <2> DEFINE a == canal[c]
             s == InterrupcionesPara(tabla, c, ps, motivo)
  <2>1. nuevo[c] = a \o s \/ nuevo[c] = a
    BY DEF Interrumpidas
  <2>2. s \in Seq(Interrupciones) /\ a \in Seq(MensajesAlCPU)
    BY InterrupcionesParaTipo DEF Canales
  <2> HIDE DEF nuevo, s, a
  <2>3. s \in Seq(MensajesAlCPU)
    BY <2>2, SeqMonotonic DEF Interrupciones, MensajesAlCPU
  <2>4. /\ a \o s \in Seq(MensajesAlCPU) /\ Len(a \o s) = Len(a) + Len(s)
        /\ Len(a) \in Nat /\ Len(s) \in Nat
        /\ \A i \in 1..(Len(a) + Len(s)) :
             (a \o s)[i] = IF i <= Len(a) THEN a[i] ELSE s[i - Len(a)]
    BY <2>2, <2>3, ConcatProperties, LenProperties
  <2>5. \A i \in (Len(a) + 1)..(Len(a) + Len(s)) : (a \o s)[i] \in Interrupciones
    <3> TAKE i \in (Len(a) + 1)..(Len(a) + Len(s))
    <3>1. i - Len(a) \in 1..Len(s) /\ i \in 1..(Len(a) + Len(s)) /\ ~(i <= Len(a))
      BY <2>4
    <3>2. s[i - Len(a)] \in Interrupciones
      BY <2>2, <3>1, ElementOfSeq
    <3> QED BY <2>4, <3>1, <3>2
  <2>6. \A i \in 1..Len(a) : (a \o s)[i] = a[i]
    BY <2>4
  <2>7. CASE nuevo[c] = a
    BY <2>2, <2>4, <2>7 DEF a
  <2>8. CASE nuevo[c] = a \o s
    BY <2>4, <2>5, <2>6, <2>8 DEF a
  <2> QED BY <2>1, <2>7, <2>8
<1>2. nuevo \in Canales
  BY <1>1 DEF Interrumpidas, Canales
<1> HIDE DEF nuevo
<1> QED BY <1>1, <1>2 DEF SoloInterrumpe, nuevo

\* A message sent is appended to one channel, or lost with its connection.
LEMMA EnviadoTipo ==
  ASSUME NEW canal \in Canales, NEW c, NEW m \in MensajesAlCPU
  PROVE  /\ Enviado(canal, c, m) \in Canales
         /\ \A d \in CPUs : \/ Enviado(canal, c, m)[d] = canal[d]
                            \/ d = c /\ Enviado(canal, c, m)[d] = Append(canal[d], m)
<1>1. CASE c \in Conectadas
  <2>1. c \in CPUs
    BY <1>1 DEF Conectadas
  <2>2. Append(canal[c], m) \in Seq(MensajesAlCPU)
    BY <2>1 DEF Canales
  <2> QED BY <1>1, <2>1, <2>2 DEF Enviado, Canales
<1>2. CASE c \notin Conectadas
  BY <1>2 DEF Enviado
<1> QED BY <1>1, <1>2


-----------------------------------------------------------------------------
(* The pieces the actions are made of.                                      *)

\* A CPU given back is appended to the free ones, with a token.
LEMMA LiberarTipo ==
  ASSUME Bien, NEW c \in CPUs, LiberarCPU(c)
  PROVE  cpusLibres' \in Seq(CPUs) /\ semCpu' \in Nat
BY DEF Bien, TypeOK, LiberarCPU

\* A handler that goes on to another step of its system call.
LEMMA SigueTipo ==
  ASSUME Bien, NEW c \in CPUs, NEW p \in Procesos, NEW arg \in Nat \cup Args,
         NEW pc \in {"desalojado", "avisar", "bloquear", "despertar", "confirmaciones", "compactando"},
         pc = "confirmaciones" => arg \in Nat, Sigue(c, pc, p, arg)
  PROVE  /\ manejador' \in [CPUs -> EstadoManejador] /\ FormaManejador'
         /\ \A d \in CPUs \ {c} : manejador'[d] = manejador[d]
         /\ manejador'[c].pc = pc /\ manejador'[c].pid = p /\ manejador'[c].arg = arg
<1> DEFINE h == [pc |-> pc, pid |-> p, arg |-> arg]
<1>1. h \in EstadoManejador /\ h.pc = pc /\ h.pid = p /\ h.arg = arg
  BY DEF EstadoManejador
<1>2. manejador \in [CPUs -> EstadoManejador]
  BY DEF Bien, TypeOK, EstadoManejador
<1>3. manejador' = [manejador EXCEPT ![c] = h]
  BY DEF Sigue
<1> HIDE DEF h
<1>4. /\ manejador' \in [CPUs -> EstadoManejador] /\ manejador'[c] = h
      /\ \A d \in CPUs \ {c} : manejador'[d] = manejador[d]
  BY <1>1, <1>2, <1>3
<1>5. FormaManejador'
  BY <1>1, <1>4 DEF FormaManejador, Bien, Formas
<1> QED BY <1>1, <1>4, <1>5

\* A handler that goes back to wait for its CPU.
LEMMA TerminaTipo ==
  ASSUME Bien, NEW c \in CPUs, Termina(c)
  PROVE  /\ manejador' \in [CPUs -> EstadoManejador] /\ FormaManejador'
         /\ \A d \in CPUs \ {c} : manejador'[d] = manejador[d]
         /\ manejador'[c] = ManejadorLibre /\ ManejadorLibre.pc = "libre" /\ ManejadorLibre.pid = Nadie
<1>1. ManejadorLibre \in EstadoManejador /\ ManejadorLibre.pc = "libre" /\ ManejadorLibre.pid = Nadie
  BY DEF EstadoManejador, ManejadorLibre, Args
<1>2. manejador \in [CPUs -> EstadoManejador]
  BY DEF Bien, TypeOK, EstadoManejador
<1>3. /\ manejador' \in [CPUs -> EstadoManejador] /\ manejador'[c] = ManejadorLibre
      /\ \A d \in CPUs \ {c} : manejador'[d] = manejador[d]
  BY <1>1, <1>2 DEF Termina
<1>4. FormaManejador'
  BY <1>1, <1>3 DEF FormaManejador, Bien, Formas
<1> QED BY <1>1, <1>3, <1>4

\* A handler takes the first message of its CPU.
LEMMA AtiendeTipo ==
  ASSUME Bien, NEW c \in CPUs, NEW tipo, Atiende(c, tipo)
  PROVE  LET m == Head(deCpu[c]) IN
         /\ manejador[c].pc = "libre" /\ deCpu[c] # << >>
         /\ m \in MensajesDelCPU /\ m.tipo = tipo /\ m.pid \in Procesos /\ m.arg \in Args
         /\ m.tipo \in DeMutex => m.arg \in Mutexes
         /\ deCpu' \in [CPUs -> Seq(MensajesDelCPU)] /\ FormaDeCpu'
         /\ deCpu'[c] = Tail(deCpu[c])
         /\ \A d \in CPUs \ {c} : deCpu'[d] = deCpu[d]
<1> DEFINE s == deCpu[c]
           m == Head(s)
           r == Tail(s)
<1>1. deCpu \in [CPUs -> Seq(MensajesDelCPU)]
  BY DEF Bien, TypeOK
<1>2. /\ s \in Seq(MensajesDelCPU) /\ s # << >> /\ m.tipo = tipo /\ manejador[c].pc = "libre"
      /\ deCpu' = [deCpu EXCEPT ![c] = r]
  BY <1>1 DEF Atiende
<1>3. /\ r \in Seq(MensajesDelCPU) /\ Len(r) = Len(s) - 1 /\ Len(s) \in Nat \ {0}
      /\ \A i \in 1..Len(r) : r[i] = s[i + 1]
  BY <1>2, HeadTailProperties, EmptySeq, LenProperties
<1>4. m \in MensajesDelCPU /\ m = s[1]
  BY <1>2, <1>3
<1>5. \A i \in 1..Len(s) : s[i].tipo \in DeMutex => s[i].arg \in Mutexes
  BY DEF Bien, Formas, FormaDeCpu
<1> HIDE DEF s, m, r
<1>6. m.tipo \in DeMutex => m.arg \in Mutexes
  BY <1>3, <1>4, <1>5
<1>7. /\ deCpu' \in [CPUs -> Seq(MensajesDelCPU)] /\ deCpu'[c] = r
      /\ \A d \in CPUs \ {c} : deCpu'[d] = deCpu[d]
  BY <1>1, <1>2, <1>3
<1>8. \A i \in 1..Len(r) : r[i].tipo \in DeMutex => r[i].arg \in Mutexes
  <2> TAKE i \in 1..Len(r)
  <2>1. i + 1 \in 1..Len(s)
    BY <1>3
  <2> QED BY <1>3, <1>5, <2>1
<1>9. FormaDeCpu'
  BY <1>7, <1>8 DEF FormaDeCpu, Bien, Formas
<1>10. m.pid \in Procesos /\ m.arg \in Args
  BY <1>4 DEF MensajesDelCPU
<1> QED BY <1>2, <1>4, <1>6, <1>7, <1>9, <1>10 DEF s, m, r

\* A handler answers its CPU.
LEMMA RespondeTipo ==
  ASSUME Bien, NEW c, NEW tipo \in {"OK", "ERROR", "BLOQUEADO"}, Responde(c, tipo)
  PROVE  /\ aCpu' \in Canales
         /\ \A d \in CPUs : \/ aCpu'[d] = aCpu[d]
                            \/ d = c /\ aCpu'[d] = Append(aCpu[d], Respuesta(tipo))
<1>1. aCpu \in Canales
  BY DEF Bien, TypeOK, Canales
<1>2. Respuesta(tipo) \in MensajesAlCPU
  BY DEF Respuesta, Msj, MensajesAlCPU
<1> DEFINE n == Enviado(aCpu, c, Respuesta(tipo))
<1>3. /\ n \in Canales
      /\ \A d \in CPUs : n[d] = aCpu[d] \/ (d = c /\ n[d] = Append(aCpu[d], Respuesta(tipo)))
  BY <1>1, <1>2, EnviadoTipo
<1>4. aCpu' = n
  BY DEF Responde
<1> HIDE DEF n
<1> QED BY <1>3, <1>4

\* A CPU module takes the first message for it.
LEMMA RecibeTipo ==
  ASSUME Bien, NEW c \in CPUs, Recibe(c)
  PROVE  LET m == Head(aCpu[c]) IN
         /\ aCpu[c] # << >> /\ m \in MensajesAlCPU
         /\ aCpu' \in Canales /\ aCpu'[c] = Tail(aCpu[c])
         /\ \A d \in CPUs \ {c} : aCpu'[d] = aCpu[d]
<1>1. aCpu \in Canales
  BY DEF Bien, TypeOK, Canales
<1>2. aCpu[c] \in Seq(MensajesAlCPU) /\ aCpu[c] # << >>
  BY <1>1 DEF Canales, Recibe
<1>3. Head(aCpu[c]) \in MensajesAlCPU /\ Tail(aCpu[c]) \in Seq(MensajesAlCPU)
  BY <1>2
<1> DEFINE r == Tail(aCpu[c])
<1>4. aCpu' = [aCpu EXCEPT ![c] = r]
  BY DEF Recibe
<1> HIDE DEF r
<1>5. aCpu' \in Canales /\ aCpu'[c] = r /\ \A d \in CPUs \ {c} : aCpu'[d] = aCpu[d]
  BY <1>1, <1>3, <1>4 DEF Canales, r
<1> QED BY <1>2, <1>3, <1>5 DEF r

\* A CPU module sends a message about the process that it runs.
LEMMA PedidoTipo ==
  ASSUME Bien, NEW c \in CPUs, NEW arg \in Args, cpu[c].pid \in Procesos,
         NEW tipo \in ConRespuesta \cup Bloqueantes \cup {"DONE", "SEG_FAULT", "INTERRUPCION_ATENDIDA"},
         tipo \in DeMutex => arg \in Mutexes,
         deCpu' = Pedido(c, tipo, arg)
  PROVE  /\ deCpu' \in [CPUs -> Seq(MensajesDelCPU)] /\ FormaDeCpu'
         /\ deCpu'[c] = Append(deCpu[c], Msj(tipo, cpu[c].pid, arg))
         /\ \A d \in CPUs \ {c} : deCpu'[d] = deCpu[d]
<1> DEFINE s == deCpu[c]
           m == Msj(tipo, cpu[c].pid, arg)
           r == Append(s, m)
<1>1. deCpu \in [CPUs -> Seq(MensajesDelCPU)] /\ s \in Seq(MensajesDelCPU)
  BY DEF Bien, TypeOK
<1>2. m \in MensajesDelCPU /\ m.tipo = tipo /\ m.arg = arg
  BY DEF Msj, MensajesDelCPU
<1>3. deCpu' = [deCpu EXCEPT ![c] = r]
  BY DEF Pedido
<1> HIDE DEF m, s
<1>4. /\ r \in Seq(MensajesDelCPU) /\ Len(r) = Len(s) + 1 /\ Len(s) \in Nat
      /\ \A i \in 1..Len(s) : r[i] = s[i]
      /\ r[Len(s) + 1] = m
  BY <1>1, <1>2, AppendProperties, LenProperties
<1> HIDE DEF r
<1>5. /\ deCpu' \in [CPUs -> Seq(MensajesDelCPU)] /\ deCpu'[c] = r
      /\ \A d \in CPUs \ {c} : deCpu'[d] = deCpu[d]
  BY <1>1, <1>3, <1>4
<1>6. \A i \in 1..Len(s) : s[i].tipo \in DeMutex => s[i].arg \in Mutexes
  BY DEF Bien, Formas, FormaDeCpu, s
<1>7. \A i \in 1..Len(r) : r[i].tipo \in DeMutex => r[i].arg \in Mutexes
  <2> TAKE i \in 1..Len(r)
  <2>1. i \in 1..Len(s) \/ i = Len(s) + 1
    BY <1>4
  <2> QED BY <1>2, <1>4, <1>6, <2>1
<1>8. FormaDeCpu'
  BY <1>5, <1>7 DEF FormaDeCpu, Bien, Formas
<1> QED BY <1>5, <1>8 DEF r, s, m

\* A process that goes to READY adds a token and may interrupt a CPU.
LEMMA PasarAReadyTipo ==
  ASSUME Bien, NEW p \in Procesos, PasarAReady(aCpu, p)
  PROVE  /\ t' \in Tabla /\ MismosPCB(t, t') /\ semReady' = semReady + 1 /\ semReady' \in Nat
         /\ t'.estado = [t.estado EXCEPT ![p] = IF @ = "EXIT" THEN @ ELSE "READY"]
         /\ aCpu' \in Canales /\ SoloInterrumpe(aCpu, aCpu')
<1>1. t \in Tabla /\ semReady \in Nat /\ aCpu \in Canales
  BY DEF Bien, TypeOK, Canales
<1>2. t' = actualizarEstado(t, p, "READY") /\ semReady' = semReady + 1
  BY DEF PasarAReady
<1>3. /\ t' \in Tabla /\ MismosPCB(t, t')
      /\ t'.estado = [t.estado EXCEPT ![p] = IF @ = "EXIT" THEN @ ELSE "READY"]
  BY <1>1, <1>2, actualizarEstadoTipo
<1>4. aCpu' \in Canales /\ SoloInterrumpe(aCpu, aCpu')
  <2>1. CASE t.estado[p] = "EXIT"
    <3>1. aCpu' = aCpu
      BY <2>1 DEF PasarAReady
    <3>2. \A d \in CPUs : aCpu[d] \in Seq(MensajesAlCPU)
      BY <1>1 DEF Canales
    <3>3. \A d \in CPUs : Len(aCpu[d]) \in Nat
      BY <3>2, LenProperties
    <3> QED BY <1>1, <3>1, <3>3 DEF SoloInterrumpe
  <2>2. CASE t.estado[p] # "EXIT"
    <3>1. aCpu' = Interrumpidas(aCpu, t', desalojadosPor(t', p), 1)
      BY <2>2 DEF PasarAReady
    <3>2. 1 \in Motivos
      BY DEF Motivos
    <3> QED BY <1>1, <1>3, <3>1, <3>2, InterrumpidasTipo
  <2> QED BY <2>1, <2>2
<1> QED BY <1>1, <1>2, <1>3, <1>4


\* Despachado, for any table.
EnExec(tab, p, c) == actualizarEstado([tab EXCEPT !.fdCpu[p] = c], p, "EXEC")

\* A process that goes to EXEC has a new state and the socket of its CPU.
LEMMA DespachadoTipo ==
  ASSUME NEW tab \in Tabla, NEW p \in Procesos, NEW c \in CPUs
  PROVE  /\ EnExec(tab, p, c) \in Tabla /\ EnExec(tab, p, c).prioridad = tab.prioridad
         /\ EnExec(tab, p, c).estado = [tab.estado EXCEPT ![p] = IF @ = "EXIT" THEN @ ELSE "EXEC"]
<1> DEFINE v == [tab EXCEPT !.fdCpu[p] = c]
           u == actualizarEstado(v, p, "EXEC")
<1>1. /\ v \in Tabla /\ v.prioridad = tab.prioridad /\ v.estado = tab.estado
      /\ v.fdCpu = [tab.fdCpu EXCEPT ![p] = c]
  BY DEF Tabla
<1> HIDE DEF v
<1> DEFINE nuevo == "EXEC"
<1>2. nuevo \in ConLista \cup {"READY"}
  BY DEF ConLista
<1> HIDE DEF nuevo
<1>3. LET w == actualizarEstado(v, p, nuevo) IN
      /\ w \in Tabla /\ MismosPCB(v, w)
      /\ w.estado = [v.estado EXCEPT ![p] = IF @ = "EXIT" THEN @ ELSE nuevo]
  BY <1>1, <1>2, actualizarEstadoTipo
<1>4. /\ u \in Tabla /\ MismosPCB(v, u)
      /\ u.estado = [v.estado EXCEPT ![p] = IF @ = "EXIT" THEN @ ELSE "EXEC"]
  BY <1>3 DEF nuevo
<1> HIDE DEF u
<1>5. EnExec(tab, p, c) = u
  BY DEF EnExec, u, v
<1> QED BY <1>1, <1>4, <1>5 DEF MismosPCB

-----------------------------------------------------------------------------
(* Every step keeps the types and the shapes.                               *)

\* The types and the forms, steps of the short-term scheduler.
LEMMA BienCorto ==
  ASSUME Bien, Corto
  PROVE  Bien'
<1>0. /\ t \in Tabla /\ corto \in EstadoCorto /\ aCpu \in Canales
      /\ timers \in [Procesos -> [CPUs -> Relojes]]
  BY DEF Bien, TypeOK, EstadoCorto, Canales, Relojes
<1>1. CASE cortoEsperaCompactacion
  <2>1. corto' \in EstadoCorto /\ corto'.pc = "tomar"
    BY <1>0, <1>1 DEF cortoEsperaCompactacion, EstadoCorto
  <2>2. TypeOK'
    BY <1>1, <2>1 DEF cortoEsperaCompactacion, enKS, enMutex, enCPU, Bien, TypeOK, EstadoCorto
  <2> QED BY <1>1, <2>1, <2>2 DEF cortoEsperaCompactacion, enCPU, Bien, Formas, FormaCorto,
             FormaManejador, FormaCPU, FormaDeCpu
<1>2. CASE cortoSelecciona
  <2>1. PICK p \in seleccionarProceso(t) :
          corto' = [pc |-> "ejecutar", p |-> p, c |-> Head(cpusLibres), nivel |-> Nivel(t, p)]
    BY <1>2 DEF cortoSelecciona
  <2>2. p \in Procesos /\ Nivel(t, p) \in Int
    BY <1>0, seleccionarProcesoTipo
  <2>3. /\ Head(cpusLibres) \in CPUs /\ cpusLibres' \in Seq(CPUs)
        /\ semReady' \in Nat /\ semCpu' \in Nat
    BY <1>2 DEF cortoSelecciona, Bien, TypeOK
  <2>4. corto' \in EstadoCorto /\ corto'.p \in Procesos /\ corto'.c \in CPUs
    BY <2>1, <2>2, <2>3 DEF EstadoCorto
  <2>5. TypeOK'
    BY <1>2, <2>3, <2>4 DEF cortoSelecciona, enMutex, enCPU, Bien, TypeOK, EstadoCorto
  <2> QED BY <1>2, <2>4, <2>5 DEF cortoSelecciona, enCPU, Bien, Formas, FormaCorto,
             FormaManejador, FormaCPU, FormaDeCpu
<1>3. CASE cortoDevuelve
  <2>1. corto' \in EstadoCorto /\ corto'.pc = "flag"
    BY <1>3 DEF cortoDevuelve, CortoEnReposo, EstadoCorto
  <2>2. TypeOK'
    BY <1>3, <2>1 DEF cortoDevuelve, enKS, enMutex, enCPU, Bien, TypeOK, EstadoCorto
  <2> QED BY <1>3, <2>1, <2>2 DEF cortoDevuelve, enCPU, Bien, Formas, FormaCorto,
             FormaManejador, FormaCPU, FormaDeCpu
<1>4. CASE cortoEjecuta
  <2>1. corto.p \in Procesos /\ corto.c \in CPUs
    BY <1>4 DEF cortoEjecuta, Bien, Formas, FormaCorto
  <2>2. t' \in Tabla
    <3>1. t' = EnExec(t, corto.p, corto.c)
      BY <1>4 DEF cortoEjecuta, Despachado, EnExec
    <3> QED BY <1>0, <2>1, <3>1, DespachadoTipo
  <2>3. corto' \in EstadoCorto /\ corto'.p = corto.p /\ corto'.c = corto.c
    BY <1>0, <1>4 DEF cortoEjecuta, EstadoCorto
  <2>4. TypeOK'
    BY <1>4, <2>2, <2>3 DEF cortoEjecuta, enMutex, enCPU, Bien, TypeOK, EstadoCorto
  <2> QED BY <1>4, <2>1, <2>3, <2>4 DEF cortoEjecuta, enCPU, Bien, Formas, FormaCorto,
             FormaManejador, FormaCPU, FormaDeCpu
<1>5. CASE cortoEnvia
  <2>1. corto.p \in Procesos /\ corto.c \in CPUs
    BY <1>5 DEF cortoEnvia, Bien, Formas, FormaCorto
  <2>2. corto' \in EstadoCorto /\ corto'.pc = "flag"
    BY <1>5 DEF cortoEnvia, CortoEnReposo, EstadoCorto
  <2>3. aCpu' \in Canales
    <3>1. PidEnviado(corto.p) \in MensajesAlCPU
      BY <2>1 DEF PidEnviado, Msj, MensajesAlCPU
    <3> QED BY <1>0, <1>5, <3>1, EnviadoTipo DEF cortoEnvia
  <2>4. timers' \in [Procesos -> [CPUs -> Relojes]]
    <3> DEFINE r == timers[corto.p][corto.c]
    <3>1. r \in Relojes /\ [r EXCEPT !.dormidos = @ + 1] \in Relojes
      BY <1>0, <2>1 DEF Relojes
    <3>2. \/ timers' = timers
          \/ timers' = [timers EXCEPT ![corto.p] =
                          [timers[corto.p] EXCEPT ![corto.c] = [r EXCEPT !.dormidos = @ + 1]]]
      BY <1>0, <1>5, <2>1 DEF cortoEnvia
    <3> QED BY <1>0, <2>1, <3>1, <3>2
  <2>5. TypeOK'
    BY <1>5, <2>2, <2>3, <2>4 DEF cortoEnvia, enKS, enMutex, enCPU, Bien, TypeOK, EstadoCorto, Canales, Relojes
  <2> QED BY <1>5, <2>2, <2>5 DEF cortoEnvia, enCPU, Bien, Formas, FormaCorto,
             FormaManejador, FormaCPU, FormaDeCpu
<1> QED BY <1>1, <1>2, <1>3, <1>4, <1>5 DEF Corto

\* Steps of the long-term scheduler.
LEMMA BienLargoPlazo ==
  ASSUME Bien, planificadorLargoPlazo
  PROVE  Bien'
<1> DEFINE s == t.listas["NEW"]
<1>1. s \in Seq(Procesos) /\ s # << >>
  BY DEF planificadorLargoPlazo, Bien, TypeOK, Tabla, ConLista
<1>2. Head(s) \in Procesos
  BY <1>1
<1>3. PasarAReady(aCpu, Head(s))
  BY DEF planificadorLargoPlazo
<1> HIDE DEF s
<1>4. t' \in Tabla /\ semReady' \in Nat /\ aCpu' \in Canales
  BY <1>2, <1>3, PasarAReadyTipo
<1>5. TypeOK'
  BY <1>4 DEF planificadorLargoPlazo, enMutex, enCPU, Bien, TypeOK, Canales
<1> QED BY <1>5 DEF planificadorLargoPlazo, enCPU, Bien, Formas, FormaCorto,
           FormaManejador, FormaCPU, FormaDeCpu

\* Steps of the quantum timers.
LEMMA BienTimer ==
  ASSUME Bien, NEW p \in Procesos, NEW c \in CPUs, Timer(p, c)
  PROVE  Bien'
<1> DEFINE r == timers[p][c]
<1>0. timers \in [Procesos -> [CPUs -> Relojes]] /\ r \in Relojes /\ aCpu \in Canales
  <2>1. TypeOK
    BY DEF Bien
  <2>2. timers \in [Procesos -> [CPUs -> Relojes]]
    BY <2>1 DEF TypeOK, Relojes
  <2>3. aCpu \in Canales
    BY <2>1 DEF TypeOK, Canales
  <2> QED BY <2>2, <2>3
<1>1. CASE venceQuantum(p, c)
  <2> DEFINE dormidos == r.dormidos - 1
             vencidos == IF buscable(t, p) /\ t.estado[p] = "EXEC" /\ t.fdCpu[p] = c
                         THEN r.vencidos + 1 ELSE r.vencidos
             nuevo == [r EXCEPT !.dormidos = dormidos, !.vencidos = vencidos]
  <2>1. timers' = [timers EXCEPT ![p] = [timers[p] EXCEPT ![c] = nuevo]]
    BY <1>0, <1>1 DEF venceQuantum
  <2>2. dormidos \in Nat /\ vencidos \in Nat
    BY <1>0, <1>1 DEF venceQuantum, Relojes
  <2> HIDE DEF dormidos, vencidos
  <2>3. nuevo \in Relojes
    BY <1>0, <2>2 DEF Relojes
  <2> HIDE DEF nuevo
  <2>4. timers' \in [Procesos -> [CPUs -> Relojes]]
    BY <1>0, <2>1, <2>3
  <2>5. TypeOK'
    BY <1>1, <2>4 DEF venceQuantum, enKS, enMutex, enCPU, Bien, TypeOK, Relojes
  <2> QED BY <1>1, <2>5 DEF venceQuantum, enCPU, Bien, Formas, FormaCorto,
             FormaManejador, FormaCPU, FormaDeCpu
<1>2. CASE interrumpeQuantum(p, c)
  <2> DEFINE vencidos == r.vencidos - 1
             nuevo == [r EXCEPT !.vencidos = vencidos]
  <2>1. timers' = [timers EXCEPT ![p] = [timers[p] EXCEPT ![c] = nuevo]]
    BY <1>0, <1>2 DEF interrumpeQuantum
  <2>2. vencidos \in Nat
    BY <1>0, <1>2 DEF interrumpeQuantum, Relojes
  <2> HIDE DEF vencidos
  <2>3. nuevo \in Relojes
    BY <1>0, <2>2 DEF Relojes
  <2> HIDE DEF nuevo
  <2>4. timers' \in [Procesos -> [CPUs -> Relojes]]
    BY <1>0, <2>1, <2>3
  <2>5. aCpu' \in Canales
    <3>1. Interrupcion(p, 0) \in MensajesAlCPU
      BY DEF Interrupcion, Msj, MensajesAlCPU, Motivos
    <3> QED BY <1>0, <1>2, <3>1, EnviadoTipo DEF interrumpeQuantum
  <2>6. TypeOK'
    BY <1>2, <2>4, <2>5 DEF interrumpeQuantum, enKS, enMutex, enCPU, Bien, TypeOK, Relojes, Canales
  <2> QED BY <1>2, <2>6 DEF interrumpeQuantum, enCPU, Bien, Formas, FormaCorto,
             FormaManejador, FormaCPU, FormaDeCpu
<1> QED BY <1>1, <1>2 DEF Timer

\* Steps of the IO threads.
LEMMA BienHiloIO ==
  ASSUME Bien, NEW p \in Procesos, HiloIO(p)
  PROVE  Bien'
<1>0. t \in Tabla /\ hiloIO \in [Procesos -> {"ninguno", "bloquear", "enIO"}]
  BY DEF Bien, TypeOK
<1>1. CASE hiloBloquea(p)
  <2>1. t' \in Tabla
    <3>1. "BLOCK" \in ConLista \cup {"READY"}
      BY DEF ConLista
    <3> QED BY <1>0, <1>1, <3>1, actualizarEstadoTipo DEF hiloBloquea
  <2>2. hiloIO' \in [Procesos -> {"ninguno", "bloquear", "enIO"}]
    BY <1>0, <1>1 DEF hiloBloquea
  <2>3. TypeOK'
    BY <1>1, <2>1, <2>2 DEF hiloBloquea, enMutex, enCPU, Bien, TypeOK
  <2> QED BY <1>1, <2>3 DEF hiloBloquea, enCPU, Bien, Formas, FormaCorto,
             FormaManejador, FormaCPU, FormaDeCpu
<1>2. CASE hiloDesbloquea(p)
  <2>1. t' \in Tabla /\ semReady' \in Nat /\ aCpu' \in Canales
    BY <1>2, PasarAReadyTipo DEF hiloDesbloquea
  <2>2. hiloIO' \in [Procesos -> {"ninguno", "bloquear", "enIO"}]
    BY <1>0, <1>2 DEF hiloDesbloquea
  <2>3. TypeOK'
    BY <1>2, <2>1, <2>2 DEF hiloDesbloquea, enMutex, enCPU, Bien, TypeOK, Canales
  <2> QED BY <1>2, <2>3 DEF hiloDesbloquea, enCPU, Bien, Formas, FormaCorto,
             FormaManejador, FormaCPU, FormaDeCpu
<1> QED BY <1>1, <1>2 DEF HiloIO

\* A state of a CPU that knows no call.
LEMMA CPUEnTipo ==
  ASSUME NEW modo \in {"desconectada", "espera", "ejecuta", "caida"}
  PROVE  /\ CPUEn(modo) \in EstadoCPU /\ CPUEn(modo).modo = modo
         /\ CPUEn(modo).pid = Nadie /\ CPUEn(modo).sys = Nadie /\ CPUEn(modo).pend = {}
BY DEF CPUEn, EstadoCPU, Args

\* The state of one CPU changes to a state that has its shape.
LEMMA UnaCPU ==
  ASSUME Bien, NEW c \in CPUs, NEW e \in EstadoCPU, cpu' = [cpu EXCEPT ![c] = e],
         e.modo \in {"ejecuta", "respuesta", "ack"} => e.pid \in Procesos,
         e.modo = "respuesta" => e.sys \in ConRespuesta /\ (e.sys \in DeMutex => e.arg \in Mutexes),
         \A m \in e.pend : m.tipo = "INTERRUPT"
  PROVE  /\ cpu' \in [CPUs -> EstadoCPU] /\ FormaCPU'
         /\ cpu'[c] = e /\ \A d \in CPUs \ {c} : cpu'[d] = cpu[d]
<1>1. cpu \in [CPUs -> EstadoCPU]
  BY DEF Bien, TypeOK, EstadoCPU
<1>2. cpu' \in [CPUs -> EstadoCPU] /\ cpu'[c] = e /\ \A d \in CPUs \ {c} : cpu'[d] = cpu[d]
  BY <1>1
<1>3. FormaCPU
  BY DEF Bien, Formas
<1>4. FormaCPU'
  <2> SUFFICES ASSUME NEW d \in CPUs
               PROVE  /\ cpu'[d].modo \in {"ejecuta", "respuesta", "ack"} => cpu'[d].pid \in Procesos
                      /\ cpu'[d].modo = "respuesta" =>
                           cpu'[d].sys \in ConRespuesta /\ (cpu'[d].sys \in DeMutex => cpu'[d].arg \in Mutexes)
                      /\ \A m \in cpu'[d].pend : m.tipo = "INTERRUPT"
    BY DEF FormaCPU
  <2>1. CASE d = c
    BY <1>2, <2>1
  <2>2. CASE d # c
    BY <1>2, <1>3, <2>2 DEF FormaCPU
  <2> QED BY <2>1, <2>2
<1> QED BY <1>2, <1>4

\* Connections that open, close or fall.
LEMMA BienConexion ==
  ASSUME Bien, NEW c \in CPUs, conectar(c) \/ desconectar(c) \/ caer(c)
  PROVE  Bien'
<1>0. t \in Tabla /\ aCpu \in Canales /\ cpusLibres \in Seq(CPUs)
  BY DEF Bien, TypeOK, Canales
<1>1. CASE conectar(c)
  <2>1. manejador' \in [CPUs -> EstadoManejador] /\ FormaManejador'
    <3>1. Termina(c)
      BY <1>1 DEF conectar, Termina
    <3> QED BY <3>1, TerminaTipo
  <2>2. cpu' \in [CPUs -> EstadoCPU] /\ FormaCPU'
    <3> DEFINE e == CPUEn("espera")
    <3>1. e \in EstadoCPU /\ e.modo = "espera" /\ e.pend = {}
      BY CPUEnTipo
    <3>2. cpu' = [cpu EXCEPT ![c] = e]
      BY <1>1 DEF conectar
    <3> HIDE DEF e
    <3> QED BY <3>1, <3>2, UnaCPU
  <2>3. cpusLibres' \in Seq(CPUs) /\ semCpu' \in Nat
    BY <1>1, LiberarTipo DEF conectar
  <2>4. TypeOK'
    BY <1>1, <2>1, <2>2, <2>3 DEF conectar, enMutex, Bien, TypeOK, EstadoManejador, EstadoCPU
  <2> QED BY <1>1, <2>1, <2>2, <2>4 DEF conectar, Bien, Formas, FormaCorto, FormaDeCpu
<1>2. CASE desconectar(c)
  <2>1. manejador \in [CPUs -> EstadoManejador]
    BY DEF Bien, TypeOK, EstadoManejador
  <2>2. manejador' \in [CPUs -> EstadoManejador] /\ FormaManejador'
    <3> DEFINE h == [manejador[c] EXCEPT !.pc = "terminado"]
    <3>1. h \in EstadoManejador /\ h.pc = "terminado"
      BY <2>1 DEF EstadoManejador
    <3>2. manejador' = [manejador EXCEPT ![c] = h]
      BY <1>2 DEF desconectar
    <3> HIDE DEF h
    <3>3. /\ manejador' \in [CPUs -> EstadoManejador] /\ manejador'[c] = h
          /\ \A d \in CPUs \ {c} : manejador'[d] = manejador[d]
      BY <2>1, <3>1, <3>2
    <3> QED BY <3>1, <3>3 DEF FormaManejador, Bien, Formas
  <2>3. cpusLibres' \in Seq(CPUs)
    BY <1>0, <1>2, QuitarPrimeroTipo DEF desconectar
  <2>4. t' \in Tabla
    BY <1>0, <1>2, recuperarTipo DEF desconectar
  <2>5. aCpu' \in Canales
    <3> DEFINE ps == UNION {desalojadosPor(t', p) : p \in enCpu(t, c)}
               u == t'
    <3>1. aCpu' = Interrumpidas(aCpu, u, ps, 1) /\ 1 \in Motivos
      BY <1>2 DEF desconectar, Motivos
    <3>2. u \in Tabla
      BY <2>4
    <3> HIDE DEF ps, u
    <3> QED BY <1>0, <3>1, <3>2, InterrumpidasTipo
  <2>6. TypeOK'
    BY <1>2, <2>2, <2>3, <2>4, <2>5 DEF desconectar, enMutex, enCPU, Bien, TypeOK, EstadoManejador, Canales
  <2> QED BY <1>2, <2>2, <2>6 DEF desconectar, enCPU, Bien, Formas, FormaCorto, FormaCPU, FormaDeCpu
<1>3. CASE caer(c)
  <2>1. cpu' \in [CPUs -> EstadoCPU] /\ FormaCPU'
    <3> DEFINE e == CPUEn("caida")
    <3>1. e \in EstadoCPU /\ e.modo = "caida" /\ e.pend = {}
      BY CPUEnTipo
    <3>2. cpu' = [cpu EXCEPT ![c] = e]
      BY <1>3 DEF caer
    <3> HIDE DEF e
    <3> QED BY <3>1, <3>2, UnaCPU
  <2>2. TypeOK'
    <3>1. TypeOK
      BY DEF Bien
    <3>2. /\ UNCHANGED <<enKS, semDesalojo, enCompactacion, corto, timers, hiloIO, manejador, enMutex,
                          aCpu, deCpu, posee, pasos>>
          /\ caidas' = caidas + 1
      BY <1>3 DEF caer
    <3> QED BY <2>1, <3>1, <3>2 DEF TypeOK, enKS, enMutex, EstadoCPU
  <2> QED BY <1>3, <2>1, <2>2 DEF caer, Bien, Formas, FormaCorto, FormaManejador, FormaDeCpu
<1> QED BY <1>1, <1>2, <1>3


\* The end of a process, the answer to an interrupt and what follows it.
LEMMA finalizarProcesoTipo ==
  ASSUME Bien, NEW p \in Procesos
  PROVE  LET u == finalizarProceso(p) IN
         /\ u \in Tabla /\ MismosPCB(t, u)
         /\ u.estado = t.estado \/ u.estado = [t.estado EXCEPT ![p] = "EXIT"]
<1>1. t \in Tabla /\ "EXIT" \in ConLista \cup {"READY"}
  BY DEF Bien, TypeOK, ConLista
<1> DEFINE nuevo == "EXIT"
           u == actualizarEstado(t, p, nuevo)
<1>2. nuevo \in ConLista \cup {"READY"}
  BY <1>1
<1> HIDE DEF nuevo
<1>3. /\ u \in Tabla /\ MismosPCB(t, u)
      /\ u.estado = [t.estado EXCEPT ![p] = IF @ = "EXIT" THEN @ ELSE nuevo]
  BY <1>1, <1>2, actualizarEstadoTipo
<1>4. t.estado \in [Procesos -> Estados]
  BY <1>1 DEF Tabla
<1> HIDE DEF u
<1>5. u.estado = [t.estado EXCEPT ![p] = "EXIT"]
  BY <1>3, <1>4 DEF nuevo
<1>6. finalizarProceso(p) = u \/ finalizarProceso(p) = t
  BY DEF finalizarProceso, u, nuevo
<1> DEFINE v == finalizarProceso(p)
<1> HIDE DEF v
<1>7. v = u \/ v = t
  BY <1>6 DEF v
<1>8. v \in Tabla /\ MismosPCB(t, v) /\ (v.estado = t.estado \/ v.estado = [t.estado EXCEPT ![p] = "EXIT"])
  BY <1>1, <1>3, <1>5, <1>7 DEF MismosPCB
<1> QED BY <1>8 DEF v

\* The messages that end the turn of a process.
LEMMA BienFin ==
  ASSUME Bien, NEW c \in CPUs, atenderDone(c) \/ atenderSegFault(c) \/ atenderInterrupcionAtendida(c)
  PROVE  Bien'
<1>1. CASE atenderDone(c)
  <2>1. Atiende(c, "DONE")
    BY <1>1 DEF atenderDone
  <2>2. Head(deCpu[c]).pid \in Procesos /\ deCpu' \in [CPUs -> Seq(MensajesDelCPU)] /\ FormaDeCpu'
    BY <2>1, AtiendeTipo
  <2>3. t' \in Tabla
    BY <1>1, <2>2, finalizarProcesoTipo DEF atenderDone
  <2>4. cpusLibres' \in Seq(CPUs) /\ semCpu' \in Nat
    BY <1>1, LiberarTipo DEF atenderDone
  <2>5. TypeOK'
    BY <1>1, <2>2, <2>3, <2>4 DEF atenderDone, enMutex, Bien, TypeOK
  <2> QED BY <1>1, <2>2, <2>5 DEF atenderDone, Bien, Formas, FormaCorto, FormaManejador, FormaCPU
<1>2. CASE atenderSegFault(c)
  <2>1. Atiende(c, "SEG_FAULT")
    BY <1>2 DEF atenderSegFault
  <2>2. Head(deCpu[c]).pid \in Procesos /\ deCpu' \in [CPUs -> Seq(MensajesDelCPU)] /\ FormaDeCpu'
    BY <2>1, AtiendeTipo
  <2>3. t' \in Tabla
    BY <1>2, <2>2, finalizarProcesoTipo DEF atenderSegFault
  <2>4. cpusLibres' \in Seq(CPUs) /\ semCpu' \in Nat
    BY <1>2, LiberarTipo DEF atenderSegFault
  <2>5. aCpu' \in Canales
    BY <1>2, RespondeTipo DEF atenderSegFault
  <2>6. TypeOK'
    BY <1>2, <2>2, <2>3, <2>4, <2>5 DEF atenderSegFault, enMutex, Bien, TypeOK, Canales
  <2> QED BY <1>2, <2>2, <2>6 DEF atenderSegFault, Bien, Formas, FormaCorto, FormaManejador, FormaCPU
<1>3. CASE atenderInterrupcionAtendida(c)
  <2> DEFINE m == Head(deCpu[c])
  <2>1. Atiende(c, "INTERRUPCION_ATENDIDA")
    BY <1>3 DEF atenderInterrupcionAtendida
  <2>2. /\ m.pid \in Procesos /\ m.arg \in Args
        /\ deCpu' \in [CPUs -> Seq(MensajesDelCPU)] /\ FormaDeCpu'
    BY <2>1, AtiendeTipo
  <2>3. \/ LiberarCPU(c) /\ Sigue(c, "desalojado", m.pid, m.arg)
        \/ UNCHANGED <<cpusLibres, semCpu, manejador>>
    BY <1>3 DEF atenderInterrupcionAtendida
  <2> HIDE DEF m
  <2>4. /\ cpusLibres' \in Seq(CPUs) /\ semCpu' \in Nat
        /\ manejador' \in [CPUs -> EstadoManejador] /\ FormaManejador'
    <3>1. CASE LiberarCPU(c) /\ Sigue(c, "desalojado", m.pid, m.arg)
      BY <2>2, <3>1, LiberarTipo, SigueTipo
    <3>2. CASE UNCHANGED <<cpusLibres, semCpu, manejador>>
      BY <3>2 DEF Bien, TypeOK, EstadoManejador, Formas, FormaManejador
    <3> QED BY <2>3, <3>1, <3>2
  <2>5. TypeOK'
    BY <1>3, <2>2, <2>4 DEF atenderInterrupcionAtendida, enMutex, Bien, TypeOK, EstadoManejador
  <2> QED BY <1>3, <2>2, <2>4, <2>5 DEF atenderInterrupcionAtendida, Bien, Formas, FormaCorto, FormaCPU
<1> QED BY <1>1, <1>2, <1>3

\* The later steps of a system call: back to READY, the answer to a CPU that has to wait,
\* to BLOCK, or the next owner of a mutex.
LEMMA BienVuelta ==
  ASSUME Bien, NEW c \in CPUs, volverAReady(c) \/ volverAlFrente(c) \/ despertarSiguiente(c)
                               \/ avisarBloqueado(c) \/ bloquearPorMutex(c)
  PROVE  Bien'
<1>0. t \in Tabla /\ FormaManejador
  BY DEF Bien, TypeOK, Formas
<1>1. CASE volverAReady(c)
  <2>1. manejador[c].pid \in Procesos
    BY <1>0, <1>1 DEF volverAReady, FormaManejador
  <2>2. t' \in Tabla /\ semReady' \in Nat /\ aCpu' \in Canales
    BY <1>1, <2>1, PasarAReadyTipo DEF volverAReady
  <2>3. manejador' \in [CPUs -> EstadoManejador] /\ FormaManejador'
    BY <1>1, TerminaTipo DEF volverAReady
  <2>4. TypeOK'
    BY <1>1, <2>2, <2>3 DEF volverAReady, enMutex, enCPU, Bien, TypeOK, EstadoManejador, Canales
  <2> QED BY <1>1, <2>3, <2>4 DEF volverAReady, enCPU, Bien, Formas, FormaCorto, FormaCPU, FormaDeCpu
<1>2. CASE volverAlFrente(c)
  <2>1. manejador[c].pid \in Procesos
    BY <1>0, <1>2 DEF volverAlFrente, FormaManejador
  <2>2. t' \in Tabla
    BY <1>0, <1>2, <2>1, alFrenteTipo DEF volverAlFrente
  <2>3. semReady' \in Nat /\ semDesalojo' \in Nat
    BY <1>2 DEF volverAlFrente, Bien, TypeOK
  <2>4. manejador' \in [CPUs -> EstadoManejador] /\ FormaManejador'
    BY <1>2, TerminaTipo DEF volverAlFrente
  <2>5. TypeOK'
    BY <1>2, <2>2, <2>3, <2>4 DEF volverAlFrente, enMutex, enCPU, Bien, TypeOK, EstadoManejador
  <2> QED BY <1>2, <2>4, <2>5 DEF volverAlFrente, enCPU, Bien, Formas, FormaCorto, FormaCPU, FormaDeCpu
<1>3. CASE despertarSiguiente(c)
  <2>1. manejador[c].pid \in Procesos
    BY <1>0, <1>3 DEF despertarSiguiente, FormaManejador
  <2>2. t' \in Tabla /\ semReady' \in Nat /\ aCpu' \in Canales
    BY <1>3, <2>1, PasarAReadyTipo DEF despertarSiguiente
  <2>3. manejador' \in [CPUs -> EstadoManejador] /\ FormaManejador'
    BY <1>3, TerminaTipo DEF despertarSiguiente
  <2>4. TypeOK'
    BY <1>3, <2>2, <2>3 DEF despertarSiguiente, enMutex, enCPU, Bien, TypeOK, EstadoManejador, Canales
  <2> QED BY <1>3, <2>3, <2>4 DEF despertarSiguiente, enCPU, Bien, Formas, FormaCorto, FormaCPU, FormaDeCpu
<1>4. CASE bloquearPorMutex(c)
  <2>1. manejador[c].pid \in Procesos
    BY <1>0, <1>4 DEF bloquearPorMutex, FormaManejador
  <2>2. t' \in Tabla
    <3>1. "BLOCK" \in ConLista \cup {"READY"}
      BY DEF ConLista
    <3> QED BY <1>0, <1>4, <2>1, <3>1, actualizarEstadoTipo DEF bloquearPorMutex
  <2>3. cpusLibres' \in Seq(CPUs) /\ semCpu' \in Nat
    BY <1>4, LiberarTipo DEF bloquearPorMutex
  <2>4. manejador' \in [CPUs -> EstadoManejador] /\ FormaManejador'
    BY <1>4, TerminaTipo DEF bloquearPorMutex
  <2>5. TypeOK'
    BY <1>4, <2>2, <2>3, <2>4 DEF bloquearPorMutex, enMutex, enCPU, Bien, TypeOK, EstadoManejador
  <2> QED BY <1>4, <2>4, <2>5 DEF bloquearPorMutex, enCPU, Bien, Formas, FormaCorto, FormaCPU, FormaDeCpu
<1>5. CASE avisarBloqueado(c)
  <2>1. manejador[c].pid \in Procesos /\ manejador[c].arg \in Nat \cup Args
    BY <1>0, <1>5 DEF avisarBloqueado, FormaManejador, Bien, TypeOK
  <2>2. aCpu' \in Canales
    BY <1>5, RespondeTipo DEF avisarBloqueado
  <2>3. Sigue(c, "bloquear", manejador[c].pid, manejador[c].arg)
    BY <1>5 DEF avisarBloqueado
  <2>4. manejador' \in [CPUs -> EstadoManejador] /\ FormaManejador'
    BY <2>1, <2>3, SigueTipo
  <2>5. TypeOK'
    BY <1>5, <2>2, <2>4 DEF avisarBloqueado, enKS, enMutex, enCPU, Bien, TypeOK, EstadoManejador, Canales
  <2> QED BY <1>5, <2>4, <2>5 DEF avisarBloqueado, enCPU, Bien, Formas, FormaCorto, FormaCPU, FormaDeCpu
<1> QED BY <1>1, <1>2, <1>3, <1>4, <1>5

\* What a call to mutex_lock or mutex_unlock finds.
LEMMA AtiendeMutex ==
  ASSUME Bien, NEW c \in CPUs, NEW tipo \in DeMutex, Atiende(c, tipo)
  PROVE  LET m == Head(deCpu[c]) IN
         /\ m.pid \in Procesos /\ m.arg \in Mutexes
         /\ deCpu' \in [CPUs -> Seq(MensajesDelCPU)] /\ FormaDeCpu'
         /\ tomador[m.arg] \in Procesos \cup {Nadie} /\ cola[m.arg] \in Seq(Procesos)
         /\ t.fdCpu[m.pid] \in CPUs \cup {Nadie} /\ t.prioridad[m.pid] \in Int
<1> DEFINE m == Head(deCpu[c])
<1>1. /\ m.tipo = tipo /\ m.pid \in Procesos /\ (m.tipo \in DeMutex => m.arg \in Mutexes)
      /\ deCpu' \in [CPUs -> Seq(MensajesDelCPU)] /\ FormaDeCpu'
  BY AtiendeTipo
<1> HIDE DEF m
<1>2. /\ m.pid \in Procesos /\ m.arg \in Mutexes
      /\ tomador[m.arg] \in Procesos \cup {Nadie} /\ cola[m.arg] \in Seq(Procesos)
      /\ t.fdCpu[m.pid] \in CPUs \cup {Nadie} /\ t.prioridad[m.pid] \in Int
  BY <1>1 DEF Bien, TypeOK, Tabla
<1> QED BY <1>1, <1>2 DEF m


\* MUTEX_LOCK of a mutex that is taken: the caller waits in its queue, and the owner may
\* take the priority of the caller, if it is more urgent.
LEMMA LockOcupadoEfecto ==
  ASSUME Bien, NEW c \in CPUs, mutex_lock_ocupado(c)
  PROVE  LET m == Head(deCpu[c])
             duenio == tomador[m.arg]
         IN
         /\ m.pid \in Procesos /\ m.arg \in Mutexes
         /\ t' \in Tabla /\ t'.estado = t.estado /\ t'.fdCpu = t.fdCpu
         /\ \/ t' = t
            \/ /\ duenio \in Procesos /\ t.prioridad[m.pid] < t.prioridad[duenio]
               /\ t'.prioridad = [t.prioridad EXCEPT ![duenio] = t.prioridad[m.pid]]
               /\ t' = cambiarPrioridad(t, duenio, t.prioridad[m.pid])
         /\ cola' \in [Mutexes -> Seq(Procesos)]
         /\ cola' = [cola EXCEPT ![m.arg] = Append(cola[m.arg], m.pid)]
         /\ duenio # Nadie
         /\ aCpu' \in Canales
         /\ manejador' \in [CPUs -> EstadoManejador] /\ FormaManejador'
         /\ deCpu' \in [CPUs -> Seq(MensajesDelCPU)] /\ FormaDeCpu'
<1> DEFINE m == Head(deCpu[c])
           duenio == tomador[m.arg]
           nueva == t.prioridad[m.pid]
           u == cambiarPrioridad(t, duenio, nueva)
           ps == desalojadosPorPrioridad(t, duenio, nueva)
           con == Interrumpidas(aCpu, u, ps, 1)
<1>0. t \in Tabla /\ aCpu \in Canales /\ cola \in [Mutexes -> Seq(Procesos)] /\ 1 \in Motivos
  BY DEF Bien, TypeOK, Canales, Motivos
<1>1. /\ m.pid \in Procesos /\ m.arg \in Mutexes
      /\ deCpu' \in [CPUs -> Seq(MensajesDelCPU)] /\ FormaDeCpu'
      /\ duenio \in Procesos \cup {Nadie} /\ cola[m.arg] \in Seq(Procesos) /\ nueva \in Int
  <2>1. Atiende(c, "MUTEX_LOCK") /\ "MUTEX_LOCK" \in DeMutex
    BY DEF mutex_lock_ocupado, DeMutex
  <2> QED BY <2>1, AtiendeMutex
<1>2. /\ duenio # Nadie
      /\ EncolaEn(m.arg, m.pid)
      /\ t' = IF Hereda(m.pid, duenio) THEN u ELSE t
      /\ aCpu' = IF Hereda(m.pid, duenio) THEN con ELSE aCpu
      /\ Sigue(c, "avisar", m.pid, m.arg)
  BY DEF mutex_lock_ocupado
<1>3. duenio \in Procesos
  BY <1>1, <1>2
<1>4. /\ u \in Tabla /\ u.estado = t.estado /\ u.fdCpu = t.fdCpu
      /\ u.prioridad = [t.prioridad EXCEPT ![duenio] = nueva]
  <2> HIDE DEF duenio, nueva
  <2> QED BY <1>0, <1>1, <1>3, cambiarPrioridadTipo
<1>5. con \in Canales
  <2> HIDE DEF u, ps, duenio, m
  <2> QED BY <1>0, <1>4, InterrumpidasTipo
<1>7. aCpu' \in Canales
  <2> HIDE DEF con
  <2> QED BY <1>0, <1>2, <1>5
<1>8. manejador' \in [CPUs -> EstadoManejador] /\ FormaManejador'
  <2>1. m.arg \in Nat \cup Args
    BY <1>1 DEF Args
  <2> HIDE DEF m
  <2> QED BY <1>1, <1>2, <2>1, SigueTipo
<1>9. cola' = [cola EXCEPT ![m.arg] = Append(cola[m.arg], m.pid)]
  BY <1>2 DEF EncolaEn
<1>10. cola' \in [Mutexes -> Seq(Procesos)]
  <2> DEFINE s == Append(cola[m.arg], m.pid)
  <2>1. s \in Seq(Procesos)
    BY <1>1
  <2> HIDE DEF s
  <2> QED BY <1>0, <1>9, <2>1 DEF s
<1>11. Hereda(m.pid, duenio) => nueva < t.prioridad[duenio]
  BY DEF Hereda
<1> HIDE DEF u, con, ps
<1>12. /\ t' \in Tabla /\ t'.estado = t.estado /\ t'.fdCpu = t.fdCpu
       /\ \/ t' = t
          \/ nueva < t.prioridad[duenio] /\ t'.prioridad = [t.prioridad EXCEPT ![duenio] = nueva] /\ t' = u
  BY <1>0, <1>2, <1>4, <1>11
<1> QED BY <1>1, <1>2, <1>3, <1>7, <1>8, <1>9, <1>10, <1>12 DEF u

\* MUTEX_UNLOCK by the owner: it gets its own priority back, and the mutex goes to the
\* first one that waits, or is free.
LEMMA UnlockEfecto ==
  ASSUME Bien, NEW c \in CPUs, mutex_unlock(c)
  PROVE  LET m == Head(deCpu[c]) IN
         /\ m.pid \in Procesos /\ m.arg \in Mutexes /\ tomador[m.arg] = m.pid
         /\ t' \in Tabla /\ t'.estado = t.estado /\ t'.fdCpu = t.fdCpu
         /\ t'.prioridad = [t.prioridad EXCEPT ![m.pid] = PrioridadOriginal[m.pid]]
         /\ t' = cambiarPrioridad(t, m.pid, PrioridadOriginal[m.pid])
         /\ \/ /\ cola[m.arg] = << >> /\ tomador' = [tomador EXCEPT ![m.arg] = Nadie]
               /\ cola' = cola /\ manejador' = manejador
            \/ /\ cola[m.arg] # << >> /\ Head(cola[m.arg]) \in Procesos
               /\ tomador' = [tomador EXCEPT ![m.arg] = Head(cola[m.arg])]
               /\ cola' = [cola EXCEPT ![m.arg] = Tail(cola[m.arg])]
               /\ Sigue(c, "despertar", Head(cola[m.arg]), m.arg)
         /\ cola' \in [Mutexes -> Seq(Procesos)]
         /\ tomador' \in [Mutexes -> Procesos \cup {Nadie}]
         /\ aCpu' \in Canales
         /\ manejador' \in [CPUs -> EstadoManejador] /\ FormaManejador'
         /\ deCpu' \in [CPUs -> Seq(MensajesDelCPU)] /\ FormaDeCpu'
<1> DEFINE m == Head(deCpu[c])
           original == PrioridadOriginal[m.pid]
           u == cambiarPrioridad(t, m.pid, original)
           con == Enviado(aCpu, c, Respuesta("OK"))
           ps == desalojadosPorPrioridad(t, m.pid, original)
           s == cola[m.arg]
<1>0. /\ t \in Tabla /\ aCpu \in Canales /\ cola \in [Mutexes -> Seq(Procesos)] /\ 1 \in Motivos
      /\ tomador \in [Mutexes -> Procesos \cup {Nadie}]
  BY DEF Bien, TypeOK, Canales, Motivos
<1>1. /\ m.pid \in Procesos /\ m.arg \in Mutexes
      /\ deCpu' \in [CPUs -> Seq(MensajesDelCPU)] /\ FormaDeCpu'
      /\ s \in Seq(Procesos)
  <2>1. Atiende(c, "MUTEX_UNLOCK") /\ "MUTEX_UNLOCK" \in DeMutex
    BY DEF mutex_unlock, DeMutex
  <2> QED BY <2>1, AtiendeMutex
<1>2. /\ tomador[m.arg] = m.pid
      /\ t' = u
      /\ aCpu' = Interrumpidas(con, t', ps, 1)
      /\ \/ /\ s = <<>>
            /\ tomador' = [tomador EXCEPT ![m.arg] = Nadie]
            /\ UNCHANGED <<cola, manejador>>
         \/ /\ s # <<>>
            /\ EntregaAlPrimero(m.arg)
            /\ Sigue(c, "despertar", Head(s), m.arg)
  BY DEF mutex_unlock, PrioridadAlSoltar
<1>3. original \in Int
  BY <1>1, TablasAssumption
<1>4. /\ u \in Tabla /\ u.estado = t.estado /\ u.fdCpu = t.fdCpu
      /\ u.prioridad = [t.prioridad EXCEPT ![m.pid] = original]
  <2> HIDE DEF m, original
  <2> QED BY <1>0, <1>1, <1>3, cambiarPrioridadTipo
<1>5. con \in Canales
  <2>1. Respuesta("OK") \in MensajesAlCPU
    BY DEF Respuesta, Msj, MensajesAlCPU
  <2> QED BY <1>0, <2>1, EnviadoTipo
<1>6. aCpu' \in Canales
  <2> HIDE DEF u, con, ps
  <2>1. aCpu' = Interrumpidas(con, u, ps, 1)
    BY <1>2
  <2> QED BY <1>0, <1>4, <1>5, <2>1, InterrumpidasTipo
<1>7. s # << >> => Head(s) \in Procesos /\ Tail(s) \in Seq(Procesos)
  BY <1>1
<1>8. m.arg \in Nat \cup Args
  BY <1>1 DEF Args
<1>9. \/ /\ s = << >> /\ tomador' = [tomador EXCEPT ![m.arg] = Nadie]
         /\ cola' = cola /\ manejador' = manejador
      \/ /\ s # << >> /\ Head(s) \in Procesos
         /\ tomador' = [tomador EXCEPT ![m.arg] = Head(s)]
         /\ cola' = [cola EXCEPT ![m.arg] = Tail(s)]
         /\ Sigue(c, "despertar", Head(s), m.arg)
  BY <1>2, <1>7 DEF EntregaAlPrimero
<1> DEFINE h == Head(s)
           r == Tail(s)
<1> HIDE DEF u, con, ps, s, m, h, r
<1>10. /\ cola' \in [Mutexes -> Seq(Procesos)]
       /\ tomador' \in [Mutexes -> Procesos \cup {Nadie}]
       /\ manejador' \in [CPUs -> EstadoManejador] /\ FormaManejador'
  <2>1. CASE /\ s = << >> /\ tomador' = [tomador EXCEPT ![m.arg] = Nadie]
             /\ cola' = cola /\ manejador' = manejador
    BY <1>0, <2>1 DEF Bien, TypeOK, EstadoManejador, Formas, FormaManejador
  <2>2. CASE /\ s # << >> /\ h \in Procesos
             /\ tomador' = [tomador EXCEPT ![m.arg] = h]
             /\ cola' = [cola EXCEPT ![m.arg] = r]
             /\ Sigue(c, "despertar", h, m.arg)
    <3>1. r \in Seq(Procesos)
      BY <1>7, <2>2 DEF r
    <3>2. cola' \in [Mutexes -> Seq(Procesos)]
      BY <1>0, <2>2, <3>1
    <3>3. tomador' \in [Mutexes -> Procesos \cup {Nadie}]
      BY <1>0, <2>2
    <3> QED BY <1>8, <2>2, <3>2, <3>3, SigueTipo
  <2> QED BY <1>9, <2>1, <2>2 DEF h, r
<1> QED BY <1>1, <1>2, <1>4, <1>6, <1>9, <1>10 DEF s, m, u

\* The calls to a mutex.
LEMMA BienMutex ==
  ASSUME Bien, NEW c \in CPUs,
         \/ mutex_create(c) \/ mutex_lock_no_existe(c) \/ mutex_lock_libre(c)
         \/ mutex_lock_ocupado(c) \/ mutex_unlock_ajeno(c) \/ mutex_unlock(c)
  PROVE  Bien'
<1> DEFINE m == Head(deCpu[c])
<1>0. "MUTEX_CREATE" \in DeMutex /\ "MUTEX_LOCK" \in DeMutex /\ "MUTEX_UNLOCK" \in DeMutex
  BY DEF DeMutex
<1>1. CASE mutex_create(c)
  <2>1. m.arg \in Mutexes /\ deCpu' \in [CPUs -> Seq(MensajesDelCPU)] /\ FormaDeCpu'
    BY <1>0, <1>1, AtiendeMutex DEF mutex_create
  <2>2. aCpu' \in Canales
    BY <1>1, RespondeTipo DEF mutex_create
  <2>3. creados' \in SUBSET Mutexes
    BY <1>1, <2>1 DEF mutex_create, Bien, TypeOK
  <2>4. TypeOK'
    BY <1>1, <2>1, <2>2, <2>3 DEF mutex_create, enKS, Bien, TypeOK, Canales
  <2> QED BY <1>1, <2>1, <2>4 DEF mutex_create, Bien, Formas, FormaCorto, FormaManejador, FormaCPU
<1>2. CASE mutex_lock_no_existe(c)
  <2>1. deCpu' \in [CPUs -> Seq(MensajesDelCPU)] /\ FormaDeCpu'
    BY <1>0, <1>2, AtiendeMutex DEF mutex_lock_no_existe
  <2>2. aCpu' \in Canales
    BY <1>2, RespondeTipo DEF mutex_lock_no_existe
  <2>3. TypeOK'
    BY <1>2, <2>1, <2>2 DEF mutex_lock_no_existe, enKS, enMutex, Bien, TypeOK, Canales
  <2> QED BY <1>2, <2>1, <2>3 DEF mutex_lock_no_existe, Bien, Formas, FormaCorto, FormaManejador, FormaCPU
<1>3. CASE mutex_lock_libre(c)
  <2>1. /\ m.pid \in Procesos /\ m.arg \in Mutexes
        /\ deCpu' \in [CPUs -> Seq(MensajesDelCPU)] /\ FormaDeCpu'
    BY <1>0, <1>3, AtiendeMutex DEF mutex_lock_libre
  <2>2. aCpu' \in Canales
    BY <1>3, RespondeTipo DEF mutex_lock_libre
  <2>3. tomador' = [tomador EXCEPT ![m.arg] = m.pid]
    BY <1>3 DEF mutex_lock_libre
  <2> HIDE DEF m
  <2>4. tomador' \in [Mutexes -> Procesos \cup {Nadie}]
    BY <2>1, <2>3 DEF Bien, TypeOK
  <2>5. TypeOK'
    BY <1>3, <2>1, <2>2, <2>4 DEF mutex_lock_libre, enKS, Bien, TypeOK, Canales
  <2> QED BY <1>3, <2>1, <2>5 DEF mutex_lock_libre, Bien, Formas, FormaCorto, FormaManejador, FormaCPU
<1>4. CASE mutex_lock_ocupado(c)
  <2>1. /\ t' \in Tabla /\ cola' \in [Mutexes -> Seq(Procesos)] /\ aCpu' \in Canales
        /\ manejador' \in [CPUs -> EstadoManejador] /\ FormaManejador'
        /\ deCpu' \in [CPUs -> Seq(MensajesDelCPU)] /\ FormaDeCpu'
    BY <1>4, LockOcupadoEfecto
  <2>2. UNCHANGED <<cpusLibres, semReady, semCpu, semDesalojo, enCompactacion, corto, timers,
                    hiloIO, tomador, creados, adelantado, cpu, posee, pasos, caidas>>
    BY <1>4 DEF mutex_lock_ocupado
  <2>3. TypeOK'
    BY <2>1, <2>2 DEF Bien, TypeOK, Canales, EstadoManejador
  <2> QED BY <2>1, <2>2, <2>3 DEF Bien, Formas, FormaCorto, FormaCPU
<1>5. CASE mutex_unlock_ajeno(c)
  <2>1. deCpu' \in [CPUs -> Seq(MensajesDelCPU)] /\ FormaDeCpu'
    BY <1>0, <1>5, AtiendeMutex DEF mutex_unlock_ajeno
  <2>2. aCpu' \in Canales
    BY <1>5, RespondeTipo DEF mutex_unlock_ajeno
  <2>3. TypeOK'
    BY <1>5, <2>1, <2>2 DEF mutex_unlock_ajeno, enKS, enMutex, Bien, TypeOK, Canales
  <2> QED BY <1>5, <2>1, <2>3 DEF mutex_unlock_ajeno, Bien, Formas, FormaCorto, FormaManejador, FormaCPU
<1>6. CASE mutex_unlock(c)
  <2>1. /\ t' \in Tabla /\ cola' \in [Mutexes -> Seq(Procesos)] /\ aCpu' \in Canales
        /\ tomador' \in [Mutexes -> Procesos \cup {Nadie}]
        /\ manejador' \in [CPUs -> EstadoManejador] /\ FormaManejador'
        /\ deCpu' \in [CPUs -> Seq(MensajesDelCPU)] /\ FormaDeCpu'
    BY <1>6, UnlockEfecto
  <2>2. UNCHANGED <<cpusLibres, semReady, semCpu, semDesalojo, enCompactacion, corto, timers,
                    hiloIO, creados, cpu, posee, pasos, caidas>>
    BY <1>6 DEF mutex_unlock
  <2>4. adelantado' \in BOOLEAN
    BY <1>6 DEF mutex_unlock, Bien, TypeOK
  <2>3. TypeOK'
    BY <2>1, <2>2, <2>4 DEF Bien, TypeOK, Canales, EstadoManejador
  <2> QED BY <2>1, <2>2, <2>3 DEF Bien, Formas, FormaCorto, FormaCPU
<1> QED BY <1>1, <1>2, <1>3, <1>4, <1>5, <1>6


\* A process is created in NEW, at the end of its list.
LEMMA CrearEfecto ==
  ASSUME Bien, NEW c \in CPUs, crear_proceso(c)
  PROVE  \E p \in Procesos :
           /\ t.estado[p] = "INEXISTENTE"
           /\ t' = [t EXCEPT !.estado[p] = "NEW", !.listas["NEW"] = Append(t.listas["NEW"], p)]
           /\ t' \in Tabla /\ MismosPCB(t, t') /\ t'.ready = t.ready
           /\ t'.estado = [t.estado EXCEPT ![p] = "NEW"]
           /\ t'.listas = [t.listas EXCEPT !["NEW"] = Append(t.listas["NEW"], p)]
<1> DEFINE nuevos == {q \in Procesos : t.estado[q] = "INEXISTENTE"}
           p == Min(nuevos)
           s == Append(t.listas["NEW"], p)
<1>1. nuevos # {} /\ t' = [t EXCEPT !.estado[p] = "NEW", !.listas["NEW"] = s]
  BY DEF crear_proceso
<1>2. p \in Procesos /\ t.estado[p] = "INEXISTENTE"
  <2>1. nuevos \in SUBSET Nat
    BY PlanificadorAssumption
  <2>2. p \in nuevos
    BY <1>1, <2>1, MinimoDeNaturales
  <2> QED BY <2>2
<1> HIDE DEF p
<1>3. t \in Tabla /\ s \in Seq(Procesos) /\ "NEW" \in Estados /\ "NEW" \in ConLista
  <2>1. t \in Tabla /\ "NEW" \in ConLista /\ "NEW" \in Estados
    BY DEF Bien, TypeOK, ConLista, Estados
  <2>2. t.listas["NEW"] \in Seq(Procesos)
    BY <2>1 DEF Tabla
  <2> QED BY <1>2, <2>1, <2>2
<1> HIDE DEF s
<1>4. /\ t' \in Tabla /\ MismosPCB(t, t') /\ t'.ready = t.ready
      /\ t'.estado = [t.estado EXCEPT ![p] = "NEW"]
      /\ t'.listas = [t.listas EXCEPT !["NEW"] = s]
  BY <1>1, <1>2, <1>3 DEF Tabla, MismosPCB
<1> QED BY <1>1, <1>2, <1>4 DEF s

\* SLEEP, INIT_PROC, MEM_ALLOC and the eviction before a compaction.
LEMMA BienServicios ==
  ASSUME Bien, NEW c \in CPUs,
         \/ atenderSleep(c) \/ crear_proceso(c) \/ km_mem_alloc(c)
         \/ manejar_solicitud_desalojo(c) \/ esperarConfirmaciones(c) \/ finCompactacion(c)
  PROVE  Bien'
<1> DEFINE m == Head(deCpu[c])
<1>1. CASE atenderSleep(c)
  <2>1. m.pid \in Procesos /\ deCpu' \in [CPUs -> Seq(MensajesDelCPU)] /\ FormaDeCpu'
    BY <1>1, AtiendeTipo DEF atenderSleep
  <2>2. cpusLibres' \in Seq(CPUs) /\ semCpu' \in Nat
    BY <1>1, LiberarTipo DEF atenderSleep
  <2>3. hiloIO' \in [Procesos -> {"ninguno", "bloquear", "enIO"}]
    BY <1>1, <2>1 DEF atenderSleep, Bien, TypeOK
  <2>4. TypeOK'
    BY <1>1, <2>1, <2>2, <2>3 DEF atenderSleep, enMutex, Bien, TypeOK
  <2> QED BY <1>1, <2>1, <2>4 DEF atenderSleep, Bien, Formas, FormaCorto, FormaManejador, FormaCPU
<1>2. CASE crear_proceso(c)
  <2>1. deCpu' \in [CPUs -> Seq(MensajesDelCPU)] /\ FormaDeCpu'
    BY <1>2, AtiendeTipo DEF crear_proceso
  <2>2. t' \in Tabla
    BY <1>2, CrearEfecto
  <2>3. aCpu' \in Canales
    BY <1>2, RespondeTipo DEF crear_proceso
  <2>4. TypeOK'
    BY <1>2, <2>1, <2>2, <2>3 DEF crear_proceso, enMutex, Bien, TypeOK, Canales
  <2> QED BY <1>2, <2>1, <2>4 DEF crear_proceso, Bien, Formas, FormaCorto, FormaManejador, FormaCPU
<1>3. CASE km_mem_alloc(c)
  <2>1. deCpu' \in [CPUs -> Seq(MensajesDelCPU)] /\ FormaDeCpu'
    BY <1>3, AtiendeTipo DEF km_mem_alloc
  <2>2. aCpu' \in Canales
    BY <1>3, RespondeTipo DEF km_mem_alloc
  <2>3. TypeOK'
    BY <1>3, <2>1, <2>2 DEF km_mem_alloc, enKS, enMutex, Bien, TypeOK, Canales
  <2> QED BY <1>3, <2>1, <2>3 DEF km_mem_alloc, Bien, Formas, FormaCorto, FormaManejador, FormaCPU
<1>4. CASE manejar_solicitud_desalojo(c)
  <2> DEFINE p == m.pid
             ps == {q \in Procesos \ {p} : t.fdCpu[q] # Nadie}
             exec == t.listas["EXEC"]
             victimas == {i \in DOMAIN exec : exec[i] \in ps}
             n == Cardinality(victimas)
  <2>0. t \in Tabla /\ aCpu \in Canales /\ 2 \in Motivos
    BY DEF Bien, TypeOK, Canales, Motivos
  <2>1. p \in Procesos /\ deCpu' \in [CPUs -> Seq(MensajesDelCPU)] /\ FormaDeCpu'
    BY <1>4, AtiendeTipo DEF manejar_solicitud_desalojo
  <2>2. /\ enCompactacion' = TRUE /\ aCpu' = Interrumpidas(aCpu, t, ps, 2)
        /\ Sigue(c, "confirmaciones", p, n)
    BY <1>4 DEF manejar_solicitud_desalojo
  <2>3. n \in Nat
    <3>1. exec \in Seq(Procesos) /\ Len(exec) \in Nat /\ DOMAIN exec = 1..Len(exec)
      BY <2>0 DEF Tabla, ConLista
    <3>2. IsFiniteSet(1..Len(exec))
      BY <3>1, FS_Interval
    <3>3. victimas \subseteq 1..Len(exec)
      BY <3>1
    <3> HIDE DEF exec, victimas
    <3> QED BY <3>2, <3>3, FS_Subset, FS_CardinalityType
  <2> HIDE DEF n, p
  <2>4. aCpu' \in Canales
    BY <2>0, <2>2, InterrumpidasTipo
  <2>5. manejador' \in [CPUs -> EstadoManejador] /\ FormaManejador'
    BY <2>1, <2>2, <2>3, SigueTipo
  <2>6. TypeOK'
    BY <1>4, <2>1, <2>2, <2>4, <2>5 DEF manejar_solicitud_desalojo, enKS, enMutex, Bien, TypeOK,
       Canales, EstadoManejador
  <2> QED BY <1>4, <2>1, <2>5, <2>6 DEF manejar_solicitud_desalojo, Bien, Formas, FormaCorto, FormaCPU
<1>5. CASE esperarConfirmaciones(c)
  <2> DEFINE h == manejador[c]
  <2>1. h.pid \in Procesos /\ h.arg \in Nat /\ semDesalojo \in Nat
    BY <1>5 DEF esperarConfirmaciones, Bien, TypeOK, Formas, FormaManejador
  <2>2. semDesalojo' \in Nat
    BY <1>5, <2>1 DEF esperarConfirmaciones
  <2>3. manejador' \in [CPUs -> EstadoManejador] /\ FormaManejador'
    BY <1>5, <2>1, SigueTipo DEF esperarConfirmaciones
  <2>4. TypeOK'
    BY <1>5, <2>2, <2>3 DEF esperarConfirmaciones, enKS, enMutex, enCPU, Bien, TypeOK, EstadoManejador
  <2> QED BY <1>5, <2>3, <2>4 DEF esperarConfirmaciones, enCPU, Bien, Formas, FormaCorto, FormaCPU, FormaDeCpu
<1>6. CASE finCompactacion(c)
  <2>1. aCpu' \in Canales
    BY <1>6, RespondeTipo DEF finCompactacion
  <2>2. manejador' \in [CPUs -> EstadoManejador] /\ FormaManejador'
    BY <1>6, TerminaTipo DEF finCompactacion
  <2>3. TypeOK'
    BY <1>6, <2>1, <2>2 DEF finCompactacion, enKS, enMutex, enCPU, Bien, TypeOK, EstadoManejador, Canales
  <2> QED BY <1>6, <2>2, <2>3 DEF finCompactacion, enCPU, Bien, Formas, FormaCorto, FormaCPU, FormaDeCpu
<1> QED BY <1>1, <1>2, <1>3, <1>4, <1>5, <1>6


\* A message from the CPU and a new state of it.
LEMMA BienModulo ==
  ASSUME Bien, NEW c \in CPUs, ModuloCPU(c)
  PROVE  Bien'
<1> DEFINE e == cpu[c]
           m == Head(aCpu[c])
<1>0. /\ cpu \in [CPUs -> EstadoCPU] /\ aCpu \in Canales /\ e \in EstadoCPU /\ FormaCPU
      /\ posee \in [Procesos -> SUBSET Mutexes] /\ pasos \in [Procesos -> Nat]
      /\ e.arg \in Args /\ Nadie \in Args
      /\ e.modo \in {"ejecuta", "respuesta", "ack"} => e.pid \in Procesos
  BY DEF Bien, TypeOK, EstadoCPU, Canales, Formas, FormaCPU, Args
\* What the actions leave alone keeps its type and its shape.
<1> DEFINE Ajenas == <<enKS, semDesalojo, enCompactacion, corto, timers, hiloIO, manejador, enMutex>>
<1>1. ASSUME UNCHANGED Ajenas,
             aCpu' \in Canales, deCpu' \in [CPUs -> Seq(MensajesDelCPU)], FormaDeCpu',
             cpu' \in [CPUs -> EstadoCPU], FormaCPU',
             posee' \in [Procesos -> SUBSET Mutexes], pasos' \in [Procesos -> Nat], caidas' = caidas
      PROVE  Bien'
  BY <1>1 DEF enKS, enMutex, Bien, TypeOK, Canales, EstadoCPU, Formas, FormaCorto, FormaManejador
<1>2. /\ deCpu \in [CPUs -> Seq(MensajesDelCPU)] /\ FormaDeCpu
      /\ deCpu' = deCpu => FormaDeCpu'
      /\ cpu' = cpu => FormaCPU'
  BY DEF Bien, TypeOK, Formas, FormaDeCpu, FormaCPU
\* The states that a CPU may change to.
<1>3. ASSUME NEW modo \in {"espera", "caida"}, cpu' = [cpu EXCEPT ![c] = CPUEn(modo)]
      PROVE  cpu' \in [CPUs -> EstadoCPU] /\ FormaCPU'
  <2> DEFINE f == CPUEn(modo)
  <2>1. f \in EstadoCPU /\ f.modo = modo /\ f.pend = {}
    BY CPUEnTipo
  <2> HIDE DEF f
  <2>2. cpu' = [cpu EXCEPT ![c] = f]
    BY <1>3 DEF f
  <2> QED BY <2>1, <2>2, UnaCPU
<1>4. ASSUME NEW p \in Procesos, cpu' = [cpu EXCEPT ![c] = [CPUEn("ejecuta") EXCEPT !.pid = p]]
      PROVE  cpu' \in [CPUs -> EstadoCPU] /\ FormaCPU'
  <2> DEFINE f == [CPUEn("ejecuta") EXCEPT !.pid = p]
  <2>1. f \in EstadoCPU /\ f.modo = "ejecuta" /\ f.pend = {} /\ f.pid = p
    BY CPUEnTipo DEF EstadoCPU
  <2> HIDE DEF f
  <2>2. cpu' = [cpu EXCEPT ![c] = f]
    BY <1>4 DEF f
  <2> QED BY <2>1, <2>2, UnaCPU
<1>5. CASE esperarPid(c)
  <2>1. aCpu' \in Canales /\ m \in MensajesAlCPU
    BY <1>5, RecibeTipo DEF esperarPid
  <2>2. cpu' \in [CPUs -> EstadoCPU] /\ FormaCPU'
    <3>1. CASE m.tipo = "PID"
      <4>1. m.pid \in Procesos
        BY <2>1, <3>1 DEF MensajesAlCPU
      <4>2. cpu' = [cpu EXCEPT ![c] = [CPUEn("ejecuta") EXCEPT !.pid = m.pid]]
        BY <1>5, <3>1 DEF esperarPid
      <4> QED BY <1>4, <4>1, <4>2
    <3>2. CASE m.tipo # "PID"
      <4>1. cpu' = cpu
        BY <1>5, <3>2 DEF esperarPid
      <4> QED BY <1>0, <1>2, <4>1
    <3> QED BY <3>1, <3>2
  <2> QED BY <1>0, <1>1, <1>2, <1>5, <2>1, <2>2 DEF esperarPid
<1>6. CASE syscallConRespuesta(c)
  <2>1. e.modo = "ejecuta" /\ e.pid \in Procesos
    BY <1>0, <1>6 DEF syscallConRespuesta
  <2>0. PICK s \in ConRespuesta :
          \E arg \in ArgsDe(s) :
            /\ deCpu' = Pedido(c, s, arg)
            /\ cpu' = [cpu EXCEPT ![c].modo = "respuesta", ![c].sys = s, ![c].arg = arg]
    BY <1>6 DEF syscallConRespuesta
  <2>2. PICK arg \in ArgsDe(s) :
          /\ deCpu' = Pedido(c, s, arg)
          /\ cpu' = [cpu EXCEPT ![c].modo = "respuesta", ![c].sys = s, ![c].arg = arg]
    BY <2>0
  <2>3. arg \in Args /\ (s \in DeMutex => arg \in Mutexes)
    BY <2>2 DEF ArgsDe, Args, DeMutex
  <2>4. deCpu' \in [CPUs -> Seq(MensajesDelCPU)] /\ FormaDeCpu'
    BY <2>1, <2>2, <2>3, PedidoTipo
  <2>5. cpu' \in [CPUs -> EstadoCPU] /\ FormaCPU'
    <3> DEFINE f == [e EXCEPT !.modo = "respuesta", !.sys = s, !.arg = arg]
    <3>1. /\ f \in EstadoCPU /\ f.modo = "respuesta" /\ f.pid = e.pid /\ f.sys = s /\ f.arg = arg
          /\ f.pend = e.pend
      BY <1>0, <2>2, <2>3 DEF EstadoCPU
    <3>2. cpu' = [cpu EXCEPT ![c] = f]
      BY <1>0, <2>2
    <3>3. \A x \in e.pend : x.tipo = "INTERRUPT"
      BY <1>0 DEF FormaCPU
    <3> HIDE DEF f
    <3>4. /\ f.pid \in Procesos /\ f.sys \in ConRespuesta /\ (f.sys \in DeMutex => f.arg \in Mutexes)
          /\ \A x \in f.pend : x.tipo = "INTERRUPT"
      BY <2>1, <2>3, <3>1, <3>3
    <3> QED BY <3>1, <3>2, <3>4, UnaCPU
  <2>6. pasos' \in [Procesos -> Nat]
    BY <1>0, <1>6 DEF syscallConRespuesta
  <2> QED BY <1>0, <1>1, <1>6, <2>4, <2>5, <2>6 DEF syscallConRespuesta
<1>7. CASE syscallBloqueante(c)
  <2>1. e.pid \in Procesos
    BY <1>0, <1>7 DEF syscallBloqueante
  <2>2. PICK s \in Bloqueantes : deCpu' = Pedido(c, s, Nadie)
    BY <1>7 DEF syscallBloqueante
  <2>3. deCpu' \in [CPUs -> Seq(MensajesDelCPU)] /\ FormaDeCpu'
    <3>1. s \notin DeMutex
      BY DEF Bloqueantes, DeMutex
    <3> QED BY <1>0, <2>1, <2>2, <3>1, PedidoTipo
  <2>4. cpu' \in [CPUs -> EstadoCPU] /\ FormaCPU'
    BY <1>3, <1>7 DEF syscallBloqueante
  <2>5. pasos' \in [Procesos -> Nat]
    BY <1>0, <1>7 DEF syscallBloqueante
  <2> QED BY <1>0, <1>1, <1>7, <2>3, <2>4, <2>5 DEF syscallBloqueante
<1>8. CASE syscallExit(c)
  <2>1. e.pid \in Procesos
    BY <1>0, <1>8 DEF syscallExit
  <2>2. deCpu' \in [CPUs -> Seq(MensajesDelCPU)] /\ FormaDeCpu'
    <3>1. "DONE" \notin DeMutex
      BY DEF DeMutex
    <3> QED BY <1>0, <1>8, <2>1, <3>1, PedidoTipo DEF syscallExit
  <2>3. cpu' \in [CPUs -> EstadoCPU] /\ FormaCPU'
    BY <1>3, <1>8 DEF syscallExit
  <2> QED BY <1>0, <1>1, <1>8, <2>2, <2>3 DEF syscallExit
<1>9. CASE manejarSegFault(c)
  <2>1. e.modo = "ejecuta" /\ e.pid \in Procesos
    BY <1>0, <1>9 DEF manejarSegFault
  <2>2. deCpu' \in [CPUs -> Seq(MensajesDelCPU)] /\ FormaDeCpu'
    <3>1. "SEG_FAULT" \notin DeMutex
      BY DEF DeMutex
    <3> QED BY <1>0, <1>9, <2>1, <3>1, PedidoTipo DEF manejarSegFault
  <2>3. cpu' \in [CPUs -> EstadoCPU] /\ FormaCPU'
    <3> DEFINE f == [e EXCEPT !.modo = "ack"]
    <3>1. f \in EstadoCPU /\ f.modo = "ack" /\ f.pid = e.pid /\ f.pend = e.pend
      BY <1>0 DEF EstadoCPU
    <3>2. cpu' = [cpu EXCEPT ![c] = f]
      BY <1>0, <1>9 DEF manejarSegFault
    <3>3. \A x \in e.pend : x.tipo = "INTERRUPT"
      BY <1>0 DEF FormaCPU
    <3> HIDE DEF f
    <3> QED BY <2>1, <3>1, <3>2, <3>3, UnaCPU
  <2> QED BY <1>0, <1>1, <1>9, <2>2, <2>3 DEF manejarSegFault
<1>10. CASE confirmarSegFault(c)
  <2>1. aCpu' \in Canales
    BY <1>10, RecibeTipo DEF confirmarSegFault
  <2>2. cpu' \in [CPUs -> EstadoCPU] /\ FormaCPU'
    BY <1>3, <1>10 DEF confirmarSegFault
  <2> QED BY <1>0, <1>1, <1>2, <1>10, <2>1, <2>2 DEF confirmarSegFault
<1>11. CASE atenderInterrupcion(c)
  <2>1. aCpu' \in Canales /\ m \in MensajesAlCPU /\ e.pid \in Procesos
    BY <1>0, <1>11, RecibeTipo DEF atenderInterrupcion
  <2>2. /\ cpu' \in [CPUs -> EstadoCPU] /\ FormaCPU'
        /\ deCpu' \in [CPUs -> Seq(MensajesDelCPU)] /\ FormaDeCpu'
    <3>1. CASE /\ m.tipo = "INTERRUPT" /\ m.pid = e.pid
               /\ deCpu' = Pedido(c, "INTERRUPCION_ATENDIDA", m.arg)
               /\ cpu' = [cpu EXCEPT ![c] = CPUEn("espera")]
      <4>1. m.arg \in Args /\ "INTERRUPCION_ATENDIDA" \notin DeMutex
        BY <2>1, <3>1 DEF MensajesAlCPU, Args, DeMutex
      <4>2. deCpu' \in [CPUs -> Seq(MensajesDelCPU)] /\ FormaDeCpu'
        BY <2>1, <3>1, <4>1, PedidoTipo
      <4> QED BY <1>3, <3>1, <4>2
    <3>2. CASE UNCHANGED <<deCpu, cpu>>
      BY <1>0, <1>2, <3>2
    <3>3. CASE cpu' = [cpu EXCEPT ![c] = CPUEn("caida")] /\ UNCHANGED deCpu
      BY <1>2, <1>3, <3>3
    <3> QED BY <1>11, <3>1, <3>2, <3>3 DEF atenderInterrupcion
  <2> QED BY <1>0, <1>1, <1>11, <2>1, <2>2 DEF atenderInterrupcion
<1>12. CASE guardarInterrupcion(c)
  <2>1. aCpu' \in Canales /\ m \in MensajesAlCPU
    BY <1>12, RecibeTipo DEF guardarInterrupcion
  <2>2. cpu' \in [CPUs -> EstadoCPU] /\ FormaCPU'
    <3> DEFINE f == [e EXCEPT !.pend = {m}]
    <3>1. e.modo = "respuesta" /\ m.tipo = "INTERRUPT"
      BY <1>12 DEF guardarInterrupcion
    <3>2. /\ f \in EstadoCPU /\ f.modo = "respuesta" /\ f.pid = e.pid /\ f.sys = e.sys
          /\ f.arg = e.arg /\ f.pend = {m}
      BY <1>0, <2>1, <3>1 DEF EstadoCPU
    <3>3. cpu' = [cpu EXCEPT ![c] = f]
      BY <1>0, <1>12 DEF guardarInterrupcion
    <3>4. e.pid \in Procesos /\ e.sys \in ConRespuesta /\ (e.sys \in DeMutex => e.arg \in Mutexes)
      BY <1>0, <3>1 DEF FormaCPU
    <3> HIDE DEF f
    <3> QED BY <3>1, <3>2, <3>3, <3>4, UnaCPU
  <2> QED BY <1>0, <1>1, <1>2, <1>12, <2>1, <2>2 DEF guardarInterrupcion
<1>13. CASE recibirRespuesta(c)
  <2>1. aCpu' \in Canales /\ e.modo = "respuesta"
    BY <1>13, RecibeTipo DEF recibirRespuesta
  <2>2. e.pid \in Procesos /\ e.sys \in ConRespuesta /\ (e.sys \in DeMutex => e.arg \in Mutexes)
    BY <1>0, <2>1 DEF FormaCPU
  <2>3. DejaSyscall(c)
    BY <1>13 DEF recibirRespuesta
  <2>4. cpu' \in [CPUs -> EstadoCPU] /\ FormaCPU'
    <3>1. \/ cpu' = [cpu EXCEPT ![c] = [CPUEn("ejecuta") EXCEPT !.pid = e.pid]]
          \/ cpu' = [cpu EXCEPT ![c] = CPUEn("espera")]
      BY <2>3 DEF DejaSyscall
    <3> QED BY <1>3, <1>4, <2>2, <3>1
  <2>5. deCpu' \in [CPUs -> Seq(MensajesDelCPU)] /\ FormaDeCpu'
    <3>1. \/ deCpu' = deCpu
          \/ \E i \in e.pend : deCpu' = Pedido(c, "INTERRUPCION_ATENDIDA", i.arg)
      BY <2>3 DEF DejaSyscall
    <3>2. ASSUME NEW i \in e.pend, deCpu' = Pedido(c, "INTERRUPCION_ATENDIDA", i.arg)
          PROVE  deCpu' \in [CPUs -> Seq(MensajesDelCPU)] /\ FormaDeCpu'
      <4>1. i \in MensajesAlCPU /\ i.tipo = "INTERRUPT"
        BY <1>0, <3>2 DEF EstadoCPU, FormaCPU
      <4>2. i.arg \in Args /\ "INTERRUPCION_ATENDIDA" \notin DeMutex
        BY <4>1 DEF MensajesAlCPU, Args, DeMutex
      <4> QED BY <2>2, <3>2, <4>2, PedidoTipo
    <3> QED BY <1>2, <3>1, <3>2
  <2>6. posee' \in [Procesos -> SUBSET Mutexes]
    <3> DEFINE M == CASE e.sys = "MUTEX_LOCK" -> posee[e.pid] \cup {e.arg}
                      [] e.sys = "MUTEX_UNLOCK" -> posee[e.pid] \ {e.arg}
                      [] OTHER -> posee[e.pid]
    <3>1. M \in SUBSET Mutexes
      BY <1>0, <2>2 DEF DeMutex
    <3>2. posee' = [posee EXCEPT ![e.pid] = M]
      BY <1>0, <1>13, <2>2 DEF recibirRespuesta
    <3> HIDE DEF M
    <3> QED BY <1>0, <3>1, <3>2
  <2> QED BY <1>0, <1>1, <1>13, <2>1, <2>4, <2>5, <2>6 DEF recibirRespuesta
<1>14. CASE recibirBloqueado(c)
  <2>1. aCpu' \in Canales /\ e.modo = "respuesta" /\ e.sys = "MUTEX_LOCK"
    BY <1>14, RecibeTipo DEF recibirBloqueado
  <2>2. e.pid \in Procesos /\ e.arg \in Mutexes
    BY <1>0, <2>1 DEF FormaCPU, DeMutex
  <2>3. cpu' \in [CPUs -> EstadoCPU] /\ FormaCPU'
    BY <1>3, <1>14 DEF recibirBloqueado
  <2>4. posee' \in [Procesos -> SUBSET Mutexes]
    BY <1>0, <1>14, <2>2 DEF recibirBloqueado
  <2> QED BY <1>0, <1>1, <1>2, <1>14, <2>1, <2>3, <2>4 DEF recibirBloqueado
<1>15. CASE respuestaInesperada(c)
  <2>1. aCpu' \in Canales
    BY <1>15, RecibeTipo DEF respuestaInesperada
  <2>2. cpu' \in [CPUs -> EstadoCPU] /\ FormaCPU'
    BY <1>3, <1>15 DEF respuestaInesperada
  <2> QED BY <1>0, <1>1, <1>2, <1>15, <2>1, <2>2 DEF respuestaInesperada
<1> QED BY <1>5, <1>6, <1>7, <1>8, <1>9, <1>10, <1>11, <1>12, <1>13, <1>14, <1>15 DEF ModuloCPU


\* The types and the forms hold initially.
LEMMA InitBien ==
  ASSUME Init
  PROVE  Bien
<1>1. t \in Tabla
  <2>1. /\ PrioridadOriginal \in [Procesos -> Int] /\ Inicial \in Procesos
        /\ \A k \in Colas : << >> \in Seq(Procesos)
        /\ "NEW" \in Estados /\ "INEXISTENTE" \in Estados
    BY TablasAssumption, PlanificadorAssumption DEF Estados, ConLista
  <2>2. \A l \in ConLista : (IF l = "NEW" THEN <<Inicial>> ELSE <<>>) \in Seq(Procesos)
    BY <2>1
  <2> QED BY <2>1, <2>2 DEF Init, Tabla
<1>2. corto \in EstadoCorto /\ corto.pc = "flag"
  BY DEF Init, CortoEnReposo, EstadoCorto
<1>3. /\ manejador \in [CPUs -> EstadoManejador]
      /\ \A c \in CPUs : manejador[c].pc = "desconectado"
  BY DEF Init, ManejadorLibre, EstadoManejador, Args
<1>4. /\ cpu \in [CPUs -> EstadoCPU]
      /\ \A c \in CPUs : cpu[c].modo = "desconectada" /\ cpu[c].pend = {}
  BY CPUEnTipo DEF Init
<1>5. timers \in [Procesos -> [CPUs -> Relojes]]
  BY DEF Init, Relojes
<1>6. \A c \in CPUs : aCpu[c] = << >> /\ deCpu[c] = << >> /\ Len(deCpu[c]) = 0
  BY DEF Init
<1>7. TypeOK
  <2>1. /\ cpusLibres \in Seq(CPUs)
        /\ semReady \in Nat /\ semCpu \in Nat /\ semDesalojo \in Nat /\ caidas \in Nat
        /\ enCompactacion \in BOOLEAN /\ creados \in SUBSET Mutexes /\ adelantado \in BOOLEAN
    <3>1. cpusLibres = << >> /\ creados = {} /\ enCompactacion = FALSE /\ adelantado = FALSE
      BY DEF Init
    <3>2. semReady = 0 /\ semCpu = 0 /\ semDesalojo = 0 /\ caidas = 0
      BY DEF Init
    <3>3. cpusLibres \in Seq(CPUs)
      BY <3>1
    <3>4. creados \in SUBSET Mutexes
      BY <3>1
    <3>5. enCompactacion \in BOOLEAN /\ adelantado \in BOOLEAN
      BY <3>1
    <3>6. semReady \in Nat /\ semCpu \in Nat /\ semDesalojo \in Nat /\ caidas \in Nat
      BY <3>2
    <3> QED BY <3>3, <3>4, <3>5, <3>6
  <2>2. /\ hiloIO \in [Procesos -> {"ninguno", "bloquear", "enIO"}]
        /\ tomador \in [Mutexes -> Procesos \cup {Nadie}]
        /\ posee \in [Procesos -> SUBSET Mutexes] /\ pasos \in [Procesos -> Nat]
    BY DEF Init
  <2>3. cola \in [Mutexes -> Seq(Procesos)]
    BY DEF Init
  <2>4. aCpu \in [CPUs -> Seq(MensajesAlCPU)] /\ deCpu \in [CPUs -> Seq(MensajesDelCPU)]
    BY DEF Init
  <2> QED BY <1>1, <1>2, <1>3, <1>4, <1>5, <2>1, <2>2, <2>3, <2>4
          DEF TypeOK, EstadoCorto, EstadoManejador, EstadoCPU, Relojes
<1>8. FormaDeCpu
  BY <1>6 DEF FormaDeCpu
<1> QED BY <1>2, <1>3, <1>4, <1>7, <1>8 DEF Bien, Formas, FormaCorto, FormaManejador, FormaCPU

\* A stuttering step keeps them.
LEMMA QuietoBien ==
  ASSUME Bien, UNCHANGED vars
  PROVE  Bien'
BY DEF vars, enKS, enMutex, enCPU, Bien, TypeOK, Formas, FormaCorto, FormaManejador, FormaCPU, FormaDeCpu

\* And so does every step of the system.
LEMMA PasoBien ==
  ASSUME Bien, [Next]_vars
  PROVE  Bien'
<1>1. ASSUME NEW c \in CPUs, Manejador(c)
      PROVE  Bien'
  BY <1>1, BienConexion, BienFin, BienVuelta, BienMutex, BienServicios DEF Manejador
<1>2. ASSUME NEW c \in CPUs, ModuloCPU(c) \/ caer(c)
      PROVE  Bien'
  BY <1>2, BienConexion, BienModulo
<1> QED BY <1>1, <1>2, QuietoBien, BienLargoPlazo, BienCorto, BienTimer, BienHiloIO DEF Next

\* Every variable keeps its type, and each thread, CPU and message in the sockets has the
\* fields that its next step reads: whatever the threads, the programs and the CPUs do.
THEOREM TiposSiempre == Spec => []TypeOK
<1>1. Init => Bien
  BY InitBien
<1>2. Bien /\ [Next]_vars => Bien'
  BY PasoBien
<1>3. Bien => TypeOK
  BY DEF Bien
<1> QED BY <1>1, <1>2, <1>3, PTL DEF Spec


-----------------------------------------------------------------------------
(* The mutexes and the priorities.                                          *)

\* Only the calls to a mutex change priorities, owners and waiting queues.
LEMMA MarcoPrioridad ==
  ASSUME Bien, [Next]_vars,
         ~\E c \in CPUs : mutex_lock_libre(c) \/ mutex_lock_ocupado(c) \/ mutex_unlock(c)
  PROVE  t'.prioridad = t.prioridad /\ tomador' = tomador /\ cola' = cola
<1>0. t \in Tabla /\ corto \in EstadoCorto /\ "BLOCK" \in ConLista /\ FormaCorto /\ FormaManejador
  BY DEF Bien, TypeOK, EstadoCorto, ConLista, Formas
<1>1. ASSUME NEW p \in Procesos, PasarAReady(aCpu, p)
      PROVE  t'.prioridad = t.prioridad
  BY <1>1, PasarAReadyTipo DEF MismosPCB
<1>2. CASE UNCHANGED vars
  BY <1>2 DEF vars, enKS, enMutex
<1>3. CASE planificadorLargoPlazo
  <2> DEFINE s == t.listas["NEW"]
  <2>1. s \in Seq(Procesos) /\ s # << >>
    BY <1>3 DEF planificadorLargoPlazo, Bien, TypeOK, Tabla, ConLista
  <2>2. Head(s) \in Procesos
    BY <2>1
  <2> QED BY <1>1, <1>3, <2>2 DEF planificadorLargoPlazo, enMutex
<1>4. CASE Corto
  <2>1. CASE cortoEjecuta
    <3>1. corto.p \in Procesos /\ corto.c \in CPUs
      BY <1>0, <2>1 DEF cortoEjecuta, FormaCorto
    <3>2. t' = EnExec(t, corto.p, corto.c) /\ tomador' = tomador /\ cola' = cola
      BY <2>1 DEF cortoEjecuta, Despachado, EnExec, enMutex
    <3> QED BY <1>0, <3>1, <3>2, DespachadoTipo
  <2>2. CASE cortoEsperaCompactacion \/ cortoSelecciona \/ cortoDevuelve \/ cortoEnvia
    BY <2>2 DEF cortoEsperaCompactacion, cortoSelecciona, cortoDevuelve, cortoEnvia, enKS, enMutex
  <2> QED BY <1>4, <2>1, <2>2 DEF Corto
<1>5. CASE \E p \in Procesos, c \in CPUs : Timer(p, c)
  BY <1>5 DEF Timer, venceQuantum, interrumpeQuantum, enKS, enMutex
<1>6. ASSUME NEW p \in Procesos, HiloIO(p)
      PROVE  t'.prioridad = t.prioridad /\ tomador' = tomador /\ cola' = cola
  <2>1. CASE hiloBloquea(p)
    BY <1>0, <2>1, actualizarEstadoTipo DEF hiloBloquea, enMutex, MismosPCB
  <2>2. CASE hiloDesbloquea(p)
    BY <1>1, <2>2 DEF hiloDesbloquea, enMutex
  <2> QED BY <1>6, <2>1, <2>2 DEF HiloIO
<1>7. ASSUME NEW c \in CPUs, ModuloCPU(c) \/ caer(c)
      PROVE  t'.prioridad = t.prioridad /\ tomador' = tomador /\ cola' = cola
  BY <1>7 DEF ModuloCPU, caer, enKS, enMutex, esperarPid, syscallConRespuesta, syscallBloqueante,
     syscallExit, manejarSegFault, confirmarSegFault, atenderInterrupcion, guardarInterrupcion,
     recibirRespuesta, recibirBloqueado, respuestaInesperada
<1>8. ASSUME NEW c \in CPUs, Manejador(c)
      PROVE  t'.prioridad = t.prioridad /\ tomador' = tomador /\ cola' = cola
  <2>1. CASE desconectar(c)
    BY <1>0, <2>1, recuperarTipo DEF desconectar, enMutex
  <2>2. CASE atenderDone(c) \/ atenderSegFault(c)
    <3>1. Head(deCpu[c]).pid \in Procesos
      BY <2>2, AtiendeTipo DEF atenderDone, atenderSegFault
    <3> QED BY <2>2, <3>1, finalizarProcesoTipo DEF atenderDone, atenderSegFault, enMutex, MismosPCB
  <2>3. CASE volverAReady(c)
    <3>1. manejador[c].pid \in Procesos
      BY <1>0, <2>3 DEF volverAReady, FormaManejador
    <3> QED BY <1>1, <2>3, <3>1 DEF volverAReady, enMutex
  <2>4. CASE volverAlFrente(c)
    <3>1. manejador[c].pid \in Procesos
      BY <1>0, <2>4 DEF volverAlFrente, FormaManejador
    <3> QED BY <1>0, <2>4, <3>1, alFrenteTipo DEF volverAlFrente, enMutex
  <2>5. CASE despertarSiguiente(c)
    <3>1. manejador[c].pid \in Procesos
      BY <1>0, <2>5 DEF despertarSiguiente, FormaManejador
    <3> QED BY <1>1, <2>5, <3>1 DEF despertarSiguiente, enMutex
  <2>6. CASE bloquearPorMutex(c)
    <3>1. manejador[c].pid \in Procesos
      BY <1>0, <2>6 DEF bloquearPorMutex, FormaManejador
    <3> QED BY <1>0, <2>6, <3>1, actualizarEstadoTipo DEF bloquearPorMutex, enMutex, MismosPCB
  <2>7. CASE crear_proceso(c)
    BY <2>7, CrearEfecto DEF crear_proceso, enMutex, MismosPCB
  <2>8. CASE \/ conectar(c) \/ atenderInterrupcionAtendida(c) \/ mutex_create(c)
             \/ mutex_lock_no_existe(c) \/ mutex_unlock_ajeno(c) \/ atenderSleep(c)
             \/ km_mem_alloc(c) \/ manejar_solicitud_desalojo(c) \/ esperarConfirmaciones(c)
             \/ finCompactacion(c) \/ avisarBloqueado(c)
    BY <2>8 DEF conectar, atenderInterrupcionAtendida, mutex_create, mutex_lock_no_existe,
       mutex_unlock_ajeno, atenderSleep, km_mem_alloc, manejar_solicitud_desalojo,
       esperarConfirmaciones, finCompactacion, avisarBloqueado, enKS, enMutex
  <2> QED BY <1>8, <2>1, <2>2, <2>3, <2>4, <2>5, <2>6, <2>7, <2>8 DEF Manejador
<1> QED BY <1>2, <1>3, <1>4, <1>5, <1>6, <1>7, <1>8 DEF Next

\* A mutex that is free is waited for by nobody (the first part of EsperasCoherentes).
LibreSinEsperas == \A m \in Mutexes : tomador[m] = Nadie => cola[m] = << >>

\* Every step keeps inherited priorities with a mutex owned, and free mutexes with no queue.
LEMMA PasoMutexes ==
  ASSUME Bien, PrioridadHeredadaConMutex, LibreSinEsperas, [Next]_vars
  PROVE  PrioridadHeredadaConMutex' /\ LibreSinEsperas'
<1>0. /\ tomador \in [Mutexes -> Procesos \cup {Nadie}] /\ cola \in [Mutexes -> Seq(Procesos)]
      /\ t.prioridad \in [Procesos -> Int] /\ Nadie \notin Procesos
      /\ PrioridadOriginal \in [Procesos -> Int]
  BY TablasAssumption DEF Bien, TypeOK, Tabla
<1>1. CASE ~\E c \in CPUs : mutex_lock_libre(c) \/ mutex_lock_ocupado(c) \/ mutex_unlock(c)
  <2>1. t'.prioridad = t.prioridad /\ tomador' = tomador /\ cola' = cola
    BY <1>1, MarcoPrioridad
  <2> QED BY <2>1 DEF PrioridadHeredadaConMutex, LibreSinEsperas
<1>2. ASSUME NEW c \in CPUs, mutex_lock_libre(c)
      PROVE  PrioridadHeredadaConMutex' /\ LibreSinEsperas'
  <2> DEFINE m == Head(deCpu[c])
  <2>1. m.pid \in Procesos /\ m.arg \in Mutexes
    <3>1. Atiende(c, "MUTEX_LOCK") /\ "MUTEX_LOCK" \in DeMutex
      BY <1>2 DEF mutex_lock_libre, DeMutex
    <3> QED BY <3>1, AtiendeMutex
  <2>2. /\ tomador[m.arg] = Nadie /\ tomador' = [tomador EXCEPT ![m.arg] = m.pid]
        /\ t' = t /\ cola' = cola
    BY <1>2 DEF mutex_lock_libre, enKS
  <2> HIDE DEF m
  <2>3. \A n \in Mutexes : tomador'[n] = IF n = m.arg THEN m.pid ELSE tomador[n]
    BY <1>0, <2>1, <2>2
  <2>4. LibreSinEsperas'
    BY <1>0, <2>1, <2>2, <2>3 DEF LibreSinEsperas
  <2>5. PrioridadHeredadaConMutex'
    BY <1>0, <2>1, <2>2, <2>3 DEF PrioridadHeredadaConMutex
  <2> QED BY <2>4, <2>5
<1>3. ASSUME NEW c \in CPUs, mutex_lock_ocupado(c)
      PROVE  PrioridadHeredadaConMutex' /\ LibreSinEsperas'
  <2> DEFINE m == Head(deCpu[c])
             duenio == tomador[m.arg]
             s == Append(cola[m.arg], m.pid)
             nueva == t.prioridad[m.pid]
  <2>1. /\ m.pid \in Procesos /\ m.arg \in Mutexes /\ duenio # Nadie
        /\ \/ t' = t
           \/ /\ duenio \in Procesos /\ nueva < t.prioridad[duenio]
              /\ t'.prioridad = [t.prioridad EXCEPT ![duenio] = nueva]
        /\ cola' = [cola EXCEPT ![m.arg] = s]
    BY <1>3, LockOcupadoEfecto
  <2>2. tomador' = tomador
    BY <1>3 DEF mutex_lock_ocupado
  <2>3. nueva \in Int
    BY <1>0, <2>1
  <2> HIDE DEF s, m
  <2>4. LibreSinEsperas'
    BY <1>0, <2>1, <2>2 DEF LibreSinEsperas
  <2>5. PrioridadHeredadaConMutex'
    <3>1. CASE t' = t
      BY <2>2, <3>1 DEF PrioridadHeredadaConMutex
    <3>2. CASE /\ duenio \in Procesos /\ nueva < t.prioridad[duenio]
               /\ t'.prioridad = [t.prioridad EXCEPT ![duenio] = nueva]
      <4> SUFFICES ASSUME NEW q \in Procesos
                   PROVE  /\ t'.prioridad[q] <= PrioridadOriginal[q]
                          /\ t'.prioridad[q] # PrioridadOriginal[q] => \E n \in Mutexes : tomador'[n] = q
        BY DEF PrioridadHeredadaConMutex
      <4>1. CASE q = duenio
        <5>1. t'.prioridad[q] = nueva /\ tomador'[m.arg] = q
          BY <1>0, <2>2, <3>2, <4>1
        <5>2. t.prioridad[q] <= PrioridadOriginal[q] /\ t.prioridad[q] \in Int /\ PrioridadOriginal[q] \in Int
          BY <1>0 DEF PrioridadHeredadaConMutex
        <5>3. nueva < t.prioridad[q]
          BY <3>2, <4>1
        <5> HIDE DEF nueva
        <5> QED BY <2>1, <2>3, <5>1, <5>2, <5>3
      <4>2. CASE q # duenio
        <5>1. t'.prioridad[q] = t.prioridad[q]
          BY <1>0, <3>2, <4>2
        <5> QED BY <2>2, <5>1 DEF PrioridadHeredadaConMutex
      <4> QED BY <4>1, <4>2
    <3> QED BY <2>1, <3>1, <3>2
  <2> QED BY <2>4, <2>5
<1>4. ASSUME NEW c \in CPUs, mutex_unlock(c)
      PROVE  PrioridadHeredadaConMutex' /\ LibreSinEsperas'
  <2> DEFINE m == Head(deCpu[c])
             s == cola[m.arg]
             h == Head(s)
             r == Tail(s)
  <2>1. /\ m.pid \in Procesos /\ m.arg \in Mutexes /\ tomador[m.arg] = m.pid
        /\ t'.prioridad = [t.prioridad EXCEPT ![m.pid] = PrioridadOriginal[m.pid]]
        /\ \/ s = << >> /\ tomador' = [tomador EXCEPT ![m.arg] = Nadie] /\ cola' = cola
           \/ /\ h \in Procesos /\ tomador' = [tomador EXCEPT ![m.arg] = h]
              /\ cola' = [cola EXCEPT ![m.arg] = r]
    BY <1>4, UnlockEfecto
  <2> HIDE DEF m, h, r, s
  <2>2. \A n \in Mutexes \ {m.arg} : tomador'[n] = tomador[n] /\ cola'[n] = cola[n]
    BY <1>0, <2>1
  <2>3. tomador'[m.arg] = Nadie => cola'[m.arg] = << >>
    <3>1. CASE s = << >> /\ tomador' = [tomador EXCEPT ![m.arg] = Nadie] /\ cola' = cola
      BY <3>1 DEF s
    <3>2. CASE h \in Procesos /\ tomador' = [tomador EXCEPT ![m.arg] = h]
      BY <1>0, <2>1, <3>2
    <3> QED BY <2>1, <3>1, <3>2
  <2>4. LibreSinEsperas'
    BY <2>2, <2>3 DEF LibreSinEsperas
  <2>5. PrioridadHeredadaConMutex'
    <3> SUFFICES ASSUME NEW q \in Procesos
                 PROVE  /\ t'.prioridad[q] <= PrioridadOriginal[q]
                        /\ t'.prioridad[q] # PrioridadOriginal[q] => \E n \in Mutexes : tomador'[n] = q
      BY DEF PrioridadHeredadaConMutex
    <3>1. CASE q = m.pid
      <4>1. t'.prioridad[q] = PrioridadOriginal[q] /\ PrioridadOriginal[q] \in Int
        BY <1>0, <2>1, <3>1
      <4> QED BY <4>1
    <3>2. CASE q # m.pid
      <4>1. t'.prioridad[q] = t.prioridad[q]
        BY <1>0, <2>1, <3>2
      <4>2. ASSUME NEW n \in Mutexes, tomador[n] = q
            PROVE  tomador'[n] = q
        BY <2>1, <2>2, <3>2, <4>2
      <4> QED BY <4>1, <4>2 DEF PrioridadHeredadaConMutex
    <3> QED BY <3>1, <3>2
  <2> QED BY <2>4, <2>5
<1> QED BY <1>1, <1>2, <1>3, <1>4

\* An inherited priority ends with the last mutex, whatever the programs do with their
\* mutexes: a process is never less urgent than it was created, and more urgent only while
\* it owns one.
THEOREM PrioridadHeredadaSiempre == Spec => []PrioridadHeredadaConMutex
<1>1. Init => Bien /\ PrioridadHeredadaConMutex /\ LibreSinEsperas
  <2> SUFFICES ASSUME Init
               PROVE  Bien /\ PrioridadHeredadaConMutex /\ LibreSinEsperas
    OBVIOUS
  <2>1. t.prioridad = PrioridadOriginal /\ PrioridadOriginal \in [Procesos -> Int]
    BY TablasAssumption DEF Init
  <2>2. \A m \in Mutexes : cola[m] = << >>
    BY DEF Init
  <2> QED BY <2>1, <2>2, InitBien DEF PrioridadHeredadaConMutex, LibreSinEsperas
<1>2. /\ Bien /\ PrioridadHeredadaConMutex /\ LibreSinEsperas /\ [Next]_vars
      => (Bien /\ PrioridadHeredadaConMutex /\ LibreSinEsperas)'
  BY PasoBien, PasoMutexes
<1> QED BY <1>1, <1>2, PTL DEF Spec

\* A mutex that is free is waited for by nobody: mutex_unlock never frees one that somebody
\* waits for, and mutex_lock only queues behind an owner.
THEOREM LibreSinEsperasSiempre == Spec => []LibreSinEsperas
<1>1. Init => Bien /\ PrioridadHeredadaConMutex /\ LibreSinEsperas
  <2> SUFFICES ASSUME Init
               PROVE  Bien /\ PrioridadHeredadaConMutex /\ LibreSinEsperas
    OBVIOUS
  <2>1. t.prioridad = PrioridadOriginal /\ PrioridadOriginal \in [Procesos -> Int]
    BY TablasAssumption DEF Init
  <2>2. \A m \in Mutexes : cola[m] = << >>
    BY DEF Init
  <2> QED BY <2>1, <2>2, InitBien DEF PrioridadHeredadaConMutex, LibreSinEsperas
<1>2. /\ Bien /\ PrioridadHeredadaConMutex /\ LibreSinEsperas /\ [Next]_vars
      => (Bien /\ PrioridadHeredadaConMutex /\ LibreSinEsperas)'
  BY PasoBien, PasoMutexes
<1> QED BY <1>1, <1>2, PTL DEF Spec

-----------------------------------------------------------------------------
(* What a step does to the tables.                                          *)

\* The process the short-term scheduler has chosen and not moved to EXEC yet.
Elegido == IF corto.pc = "ejecutar" THEN {corto.p} ELSE {}

EstadosNuevos == ConLista \cup {"READY"}

\* The ways in which a critical section changes the tables and sem_hay_proceso_ready.
Nada == t' = t /\ semReady' = semReady /\ Elegido' = Elegido
Mueve(p, nuevo) ==
  /\ t' = actualizarEstado(t, p, nuevo) /\ Elegido' = Elegido
  /\ semReady' = IF nuevo = "READY" THEN semReady + 1 ELSE semReady
CambiaPrioridad(p, nueva) ==
  t' = cambiarPrioridad(t, p, nueva) /\ semReady' = semReady /\ Elegido' = Elegido
Crea(p) ==
  /\ t.estado[p] = "INEXISTENTE" /\ semReady' = semReady /\ Elegido' = Elegido
  /\ t' = [t EXCEPT !.estado[p] = "NEW", !.listas["NEW"] = Append(t.listas["NEW"], p)]

CambiaLaTabla ==
  \/ Nada \/ cortoSelecciona \/ cortoEjecuta
  \/ \E p \in Procesos, nuevo \in EstadosNuevos : Mueve(p, nuevo)
  \/ \E p \in Procesos, nueva \in Int : CambiaPrioridad(p, nueva)
  \/ \E p \in Procesos : Crea(p)
  \/ \E c \in CPUs : volverAlFrente(c) \/ desconectar(c)

\* Every step of the system changes the tables in one of these ways.
LEMMA CambioDeTabla ==
  ASSUME Bien, [Next]_vars
  PROVE  CambiaLaTabla
<1>0. /\ "READY" \in EstadosNuevos /\ "BLOCK" \in EstadosNuevos /\ "EXIT" \in EstadosNuevos
      /\ "BLOCK" # "READY" /\ "EXIT" # "READY" /\ FormaManejador
  BY DEF EstadosNuevos, ConLista, Bien, Formas
<1>1. ASSUME NEW p \in Procesos, PasarAReady(aCpu, p), corto' = corto
      PROVE  CambiaLaTabla
  <2>1. Mueve(p, "READY")
    BY <1>1 DEF PasarAReady, Mueve, Elegido
  <2> QED BY <1>0, <2>1 DEF CambiaLaTabla
<1>2. ASSUME NEW p \in Procesos, NEW nuevo \in {"BLOCK", "EXIT"},
             t' = actualizarEstado(t, p, nuevo), semReady' = semReady, corto' = corto
      PROVE  CambiaLaTabla
  <2>1. Mueve(p, nuevo)
    BY <1>2 DEF Mueve, Elegido
  <2> QED BY <1>0, <2>1 DEF CambiaLaTabla
<1>3. ASSUME t' = t, semReady' = semReady, corto' = corto
      PROVE  CambiaLaTabla
  BY <1>3 DEF Nada, Elegido, CambiaLaTabla
<1>4. CASE UNCHANGED vars
  BY <1>3, <1>4 DEF vars, enKS
<1>5. CASE planificadorLargoPlazo
  <2> DEFINE s == t.listas["NEW"]
  <2>1. s \in Seq(Procesos) /\ s # << >>
    BY <1>5 DEF planificadorLargoPlazo, Bien, TypeOK, Tabla, ConLista
  <2>2. Head(s) \in Procesos
    BY <2>1
  <2> QED BY <1>1, <1>5, <2>2 DEF planificadorLargoPlazo
<1>6. CASE Corto
  <2>1. CASE cortoEsperaCompactacion \/ cortoDevuelve \/ cortoEnvia
    <3>1. t' = t /\ semReady' = semReady
      BY <2>1 DEF cortoEsperaCompactacion, cortoDevuelve, cortoEnvia, enKS
    <3>2. corto \in EstadoCorto
      BY DEF Bien, TypeOK, EstadoCorto
    <3>3. corto.pc # "ejecutar" /\ corto'.pc # "ejecutar"
      BY <2>1, <3>2 DEF cortoEsperaCompactacion, cortoDevuelve, cortoEnvia, CortoEnReposo, EstadoCorto
    <3> QED BY <3>1, <3>3 DEF Nada, Elegido, CambiaLaTabla
  <2> QED BY <1>6, <2>1 DEF Corto, CambiaLaTabla
<1>7. CASE \E p \in Procesos, c \in CPUs : Timer(p, c)
  <2>1. t' = t /\ semReady' = semReady /\ corto' = corto
    BY <1>7 DEF Timer, venceQuantum, interrumpeQuantum, enKS
  <2> QED BY <1>3, <2>1
<1>8. ASSUME NEW p \in Procesos, HiloIO(p)
      PROVE  CambiaLaTabla
  <2>1. CASE hiloBloquea(p)
    BY <1>2, <1>3, <2>1 DEF hiloBloquea
  <2>2. CASE hiloDesbloquea(p)
    BY <1>1, <2>2 DEF hiloDesbloquea
  <2> QED BY <1>8, <2>1, <2>2 DEF HiloIO
<1>9. ASSUME NEW c \in CPUs, ModuloCPU(c) \/ caer(c)
      PROVE  CambiaLaTabla
  <2>1. t' = t /\ semReady' = semReady /\ corto' = corto
    BY <1>9 DEF ModuloCPU, caer, enKS, esperarPid, syscallConRespuesta, syscallBloqueante,
       syscallExit, manejarSegFault, confirmarSegFault, atenderInterrupcion, guardarInterrupcion,
       recibirRespuesta, recibirBloqueado, respuestaInesperada
  <2> QED BY <1>3, <2>1
<1>10. ASSUME NEW c \in CPUs, Manejador(c)
       PROVE  CambiaLaTabla
  <2>1. CASE atenderDone(c) \/ atenderSegFault(c)
    <3> DEFINE p == Head(deCpu[c]).pid
    <3>1. p \in Procesos
      BY <2>1, AtiendeTipo DEF atenderDone, atenderSegFault
    <3>2. t' = finalizarProceso(p) /\ semReady' = semReady /\ corto' = corto
      BY <2>1 DEF atenderDone, atenderSegFault
    <3> HIDE DEF p
    <3> QED BY <1>2, <1>3, <3>1, <3>2 DEF finalizarProceso
  <2>2. CASE volverAReady(c)
    <3>1. manejador[c].pid \in Procesos
      BY <1>0, <2>2 DEF volverAReady, FormaManejador
    <3> QED BY <1>1, <2>2, <3>1 DEF volverAReady
  <2>3. CASE despertarSiguiente(c)
    <3>1. manejador[c].pid \in Procesos
      BY <1>0, <2>3 DEF despertarSiguiente, FormaManejador
    <3> QED BY <1>1, <2>3, <3>1 DEF despertarSiguiente
  <2>4. CASE bloquearPorMutex(c)
    <3>1. manejador[c].pid \in Procesos
      BY <1>0, <2>4 DEF bloquearPorMutex, FormaManejador
    <3> QED BY <1>2, <2>4, <3>1 DEF bloquearPorMutex
  <2>5. CASE mutex_lock_ocupado(c)
    <3> DEFINE duenio == tomador[Head(deCpu[c]).arg]
               nueva == t.prioridad[Head(deCpu[c]).pid]
    <3>1. t' = t \/ (duenio \in Procesos /\ t' = cambiarPrioridad(t, duenio, nueva))
      BY <2>5, LockOcupadoEfecto
    <3>2. nueva \in Int
      <4>1. Head(deCpu[c]).pid \in Procesos
        BY <2>5, LockOcupadoEfecto
      <4> QED BY <4>1 DEF Bien, TypeOK, Tabla
    <3>3. semReady' = semReady /\ corto' = corto
      BY <2>5 DEF mutex_lock_ocupado
    <3> HIDE DEF duenio, nueva
    <3>4. CASE duenio \in Procesos /\ t' = cambiarPrioridad(t, duenio, nueva)
      <4>1. CambiaPrioridad(duenio, nueva)
        BY <3>3, <3>4 DEF CambiaPrioridad, Elegido
      <4> QED BY <3>2, <3>4, <4>1 DEF CambiaLaTabla
    <3> QED BY <1>3, <3>1, <3>3, <3>4
  <2>6. CASE mutex_unlock(c)
    <3> DEFINE p == Head(deCpu[c]).pid
               nueva == PrioridadOriginal[p]
    <3>1. p \in Procesos /\ t' = cambiarPrioridad(t, p, nueva)
      BY <2>6, UnlockEfecto
    <3>2. nueva \in Int
      BY <3>1, TablasAssumption
    <3>3. semReady' = semReady /\ corto' = corto
      BY <2>6 DEF mutex_unlock
    <3> HIDE DEF p, nueva
    <3>4. CambiaPrioridad(p, nueva)
      BY <3>1, <3>3 DEF CambiaPrioridad, Elegido
    <3> QED BY <3>1, <3>2, <3>4 DEF CambiaLaTabla
  <2>7. CASE crear_proceso(c)
    <3>1. PICK p \in Procesos :
            /\ t.estado[p] = "INEXISTENTE"
            /\ t' = [t EXCEPT !.estado[p] = "NEW", !.listas["NEW"] = Append(t.listas["NEW"], p)]
      BY <2>7, CrearEfecto
    <3>2. Crea(p)
      BY <2>7, <3>1 DEF Crea, crear_proceso, Elegido
    <3> QED BY <3>2 DEF CambiaLaTabla
  <2>8. CASE \/ conectar(c) \/ atenderInterrupcionAtendida(c) \/ mutex_create(c)
             \/ mutex_lock_no_existe(c) \/ mutex_lock_libre(c) \/ mutex_unlock_ajeno(c)
             \/ atenderSleep(c) \/ km_mem_alloc(c) \/ manejar_solicitud_desalojo(c)
             \/ esperarConfirmaciones(c) \/ finCompactacion(c) \/ avisarBloqueado(c)
    <3>1. t' = t /\ semReady' = semReady /\ corto' = corto
      BY <2>8 DEF conectar, atenderInterrupcionAtendida, mutex_create, mutex_lock_no_existe,
         mutex_lock_libre, mutex_unlock_ajeno, atenderSleep, km_mem_alloc,
         manejar_solicitud_desalojo, esperarConfirmaciones, finCompactacion, avisarBloqueado, enKS
    <3> QED BY <1>3, <3>1
  <2> QED BY <1>10, <2>1, <2>2, <2>3, <2>4, <2>5, <2>6, <2>7, <2>8 DEF Manejador, CambiaLaTabla
<1> HIDE DEF CambiaLaTabla
<1> QED BY <1>4, <1>5, <1>6, <1>7, <1>8, <1>9, <1>10 DEF Next

\* A connection that was lost is not served again.
LEMMA DesconectadoQueda ==
  ASSUME Bien, [Next]_vars, SinDesconexiones'
  PROVE  SinDesconexiones /\ \A c \in CPUs : ~desconectar(c)
<1>0. manejador \in [CPUs -> EstadoManejador]
  BY DEF Bien, TypeOK, EstadoManejador
<1>1. ASSUME NEW c \in CPUs
      PROVE  ~desconectar(c)
  <2>1. ASSUME desconectar(c)
        PROVE  manejador'[c].pc = "terminado"
    BY <1>0, <2>1 DEF desconectar, EstadoManejador
  <2> QED BY <2>1 DEF SinDesconexiones
<1>2. ASSUME NEW d \in CPUs, manejador[d].pc = "terminado"
      PROVE  manejador'[d] = manejador[d]
  <2>1. ASSUME NEW c \in CPUs, Manejador(c)
        PROVE  manejador'[d] = manejador[d]
    <3>1. CASE \/ atenderDone(c) \/ atenderSegFault(c) \/ mutex_create(c) \/ mutex_lock_no_existe(c)
               \/ mutex_lock_libre(c) \/ mutex_unlock_ajeno(c) \/ atenderSleep(c)
               \/ crear_proceso(c) \/ km_mem_alloc(c)
      BY <3>1 DEF atenderDone, atenderSegFault, mutex_create, mutex_lock_no_existe, mutex_lock_libre,
         mutex_unlock_ajeno, atenderSleep, crear_proceso, km_mem_alloc
    <3>2. CASE \/ atenderInterrupcionAtendida(c) \/ mutex_lock_ocupado(c) \/ mutex_unlock(c)
               \/ manejar_solicitud_desalojo(c)
      <4>1. manejador[c].pc = "libre"
        BY <3>2 DEF atenderInterrupcionAtendida, mutex_lock_ocupado, mutex_unlock,
           manejar_solicitud_desalojo, Atiende
      <4>2. manejador' = manejador \/ \E h : manejador' = [manejador EXCEPT ![c] = h]
        <5>1. CASE atenderInterrupcionAtendida(c)
          BY <5>1 DEF atenderInterrupcionAtendida, Sigue
        <5>2. CASE mutex_lock_ocupado(c)
          BY <5>2 DEF mutex_lock_ocupado, Sigue
        <5>3. CASE mutex_unlock(c)
          BY <5>3 DEF mutex_unlock, Sigue
        <5>4. CASE manejar_solicitud_desalojo(c)
          BY <5>4 DEF manejar_solicitud_desalojo, Sigue
        <5> QED BY <3>2, <5>1, <5>2, <5>3, <5>4
      <4> QED BY <1>0, <1>2, <4>1, <4>2
    <3>3. CASE \/ conectar(c) \/ volverAReady(c) \/ volverAlFrente(c) \/ bloquearPorMutex(c)
               \/ despertarSiguiente(c) \/ esperarConfirmaciones(c) \/ finCompactacion(c)
               \/ avisarBloqueado(c)
      <4>1. manejador[c].pc # "terminado" /\ \E h : manejador' = [manejador EXCEPT ![c] = h]
        BY <3>3 DEF conectar, volverAReady, volverAlFrente, bloquearPorMutex, despertarSiguiente,
           esperarConfirmaciones, finCompactacion, avisarBloqueado, Sigue, Termina
      <4> QED BY <1>0, <1>2, <4>1
    <3> QED BY <1>1, <2>1, <3>1, <3>2, <3>3 DEF Manejador
  <2>2. CASE \/ UNCHANGED vars \/ planificadorLargoPlazo \/ Corto
             \/ \E p \in Procesos, c \in CPUs : Timer(p, c)
             \/ \E p \in Procesos : HiloIO(p)
    BY <2>2 DEF vars, planificadorLargoPlazo, Corto, cortoEsperaCompactacion, cortoSelecciona,
       cortoDevuelve, cortoEjecuta, cortoEnvia, Timer, venceQuantum, interrumpeQuantum, HiloIO,
       hiloBloquea, hiloDesbloquea
  <2>3. CASE \E c \in CPUs : ModuloCPU(c) \/ caer(c)
    BY <2>3 DEF ModuloCPU, caer, esperarPid, syscallConRespuesta, syscallBloqueante,
       syscallExit, manejarSegFault, confirmarSegFault, atenderInterrupcion, guardarInterrupcion,
       recibirRespuesta, recibirBloqueado, respuestaInesperada
  <2> QED BY <2>1, <2>2, <2>3 DEF Next
<1> QED BY <1>1, <1>2 DEF SinDesconexiones

-----------------------------------------------------------------------------
(* The lists agree with the PCBs, and EXIT is for ever.                     *)

\* Who answers an interrupt of a compaction is still in EXEC when its handler moves it.
VuelveDeExec ==
  \A c \in CPUs : manejador[c].pc = "desalojado" /\ manejador[c].arg = 2
                    => t.estado[manejador[c].pid] = "EXEC"

Listas == SinDesconexiones => Coherente(t)

\* A process that is dispatched moves to EXEC with its CPU.
LEMMA EnExecCoherente ==
  ASSUME NEW L \in SUBSET ConLista, NEW tab \in Tabla, CoherenteEn(L, tab),
         NEW p \in Procesos, NEW c \in CPUs
  PROVE  CoherenteEn(L, EnExec(tab, p, c))
<1> DEFINE v == [tab EXCEPT !.fdCpu[p] = c]
<1>1. /\ v \in Tabla /\ v.estado = tab.estado /\ v.prioridad = tab.prioridad
      /\ v.listas = tab.listas /\ v.ready = tab.ready
  BY DEF Tabla
<1> HIDE DEF v
<1>2. CoherenteEn(L, v)
  BY <1>1, CoherenteMismo
<1>3. "EXEC" \in ConLista \cup {"READY"}
  BY DEF ConLista
<1>4. CoherenteEn(L, actualizarEstado(v, p, "EXEC"))
  BY <1>1, <1>2, <1>3, actualizarEstadoCoherente
<1> QED BY <1>4 DEF EnExec, v

\* Every step keeps the lists of L, and the READY queues, as the PCBs say; an eviction does
\* if it finds the process in EXEC, or out of the lists of L and of READY.
LEMMA PasoCoherente ==
  ASSUME NEW L \in SUBSET ConLista, Bien, CoherenteEn(L, t), [Next]_vars, SinDesconexiones',
         \A c \in CPUs : volverAlFrente(c) =>
           \/ t.estado[manejador[c].pid] = "EXEC"
           \/ "EXEC" \notin L /\ t.estado[manejador[c].pid] \notin L \cup {"READY"}
  PROVE  CoherenteEn(L, t')
<1>1. \A c \in CPUs : ~desconectar(c)
  BY DesconectadoQueda
<1>2. t \in Tabla /\ FormaCorto /\ FormaManejador
  BY DEF Bien, TypeOK, Formas
<1>3. CASE Nada \/ cortoSelecciona
  BY <1>3 DEF Nada, cortoSelecciona
<1>4. CASE cortoEjecuta
  <2>1. corto.p \in Procesos /\ corto.c \in CPUs
    BY <1>2, <1>4 DEF cortoEjecuta, FormaCorto
  <2>2. t' = EnExec(t, corto.p, corto.c)
    BY <1>4 DEF cortoEjecuta, Despachado, EnExec
  <2>3. CoherenteEn(L, EnExec(t, corto.p, corto.c))
    BY <1>2, <2>1, EnExecCoherente
  <2> QED BY <2>2, <2>3
<1>5. ASSUME NEW p \in Procesos, NEW nuevo \in EstadosNuevos, Mueve(p, nuevo)
      PROVE  CoherenteEn(L, t')
  <2>1. CoherenteEn(L, actualizarEstado(t, p, nuevo))
    BY <1>2, actualizarEstadoCoherente DEF EstadosNuevos
  <2> QED BY <1>5, <2>1 DEF Mueve
<1>6. ASSUME NEW p \in Procesos, NEW nueva \in Int, CambiaPrioridad(p, nueva)
      PROVE  CoherenteEn(L, t')
  <2>1. CoherenteEn(L, cambiarPrioridad(t, p, nueva))
    BY <1>2, cambiarPrioridadCoherente
  <2> QED BY <1>6, <2>1 DEF CambiaPrioridad
<1>7. ASSUME NEW p \in Procesos, Crea(p)
      PROVE  CoherenteEn(L, t')
  <2>1. t' \in Tabla
    BY PasoBien DEF Bien, TypeOK
  <2> QED BY <1>2, <1>7, <2>1, CreadoCoherente DEF Crea
<1>8. ASSUME NEW c \in CPUs, volverAlFrente(c)
      PROVE  CoherenteEn(L, t')
  <2> DEFINE p == manejador[c].pid
  <2>1. /\ p \in Procesos /\ t' = alFrenteDeReady(t, p)
        /\ t.estado[p] = "EXEC" \/ ("EXEC" \notin L /\ t.estado[p] \notin L \cup {"READY"})
    BY <1>2, <1>8 DEF volverAlFrente, FormaManejador
  <2> HIDE DEF p
  <2>2. CoherenteEn(L, alFrenteDeReady(t, p))
    BY <1>2, <2>1, alFrenteCoherente
  <2> QED BY <2>1, <2>2
<1>9. CambiaLaTabla
  BY CambioDeTabla
<1> QED BY <1>1, <1>3, <1>4, <1>5, <1>6, <1>7, <1>8, <1>9 DEF CambiaLaTabla

\* All the lists, then, if every eviction finds the process in EXEC.
LEMMA PasoListas ==
  ASSUME Bien, Listas, VuelveDeExec, [Next]_vars
  PROVE  Listas'
<1> SUFFICES ASSUME SinDesconexiones'
             PROVE  Coherente(t')
  BY DEF Listas
<1>1. CoherenteEn(ConLista, t)
  BY DesconectadoQueda DEF Listas, Coherente
<1>2. \A c \in CPUs : volverAlFrente(c) => t.estado[manejador[c].pid] = "EXEC"
  BY DEF VuelveDeExec, volverAlFrente
<1>3. CoherenteEn(ConLista, t')
  BY <1>1, <1>2, PasoCoherente
<1> QED BY <1>3 DEF Coherente

\* At the beginning there is PID 0 in NEW.
LEMMA InitListas ==
  ASSUME Init
  PROVE  /\ Listas /\ VuelveDeExec
         /\ \A L \in SUBSET ConLista : CoherenteEn(L, t)
<1>1. VuelveDeExec
  <2>1. \A c \in CPUs : manejador[c].pc = "desconectado"
    BY DEF Init, ManejadorLibre
  <2> QED BY <2>1 DEF VuelveDeExec
<1>2. \A l \in ConLista : t.listas[l] = IF l = "NEW" THEN <<Inicial>> ELSE << >>
  BY DEF Init
<1>3. \A k \in Colas : t.ready[k] = << >>
  BY DEF Init
<1>4. \A p \in Procesos : t.estado[p] = IF p = Inicial THEN "NEW" ELSE "INEXISTENTE"
  BY DEF Init
<1> DEFINE uno == <<Inicial>>
           cero == << >>
<1>5. /\ SinRepetir(uno) /\ \A x : Contains(uno, x) <=> x = Inicial
      /\ SinRepetir(cero) /\ \A x : ~Contains(cero, x)
  <2>1. Len(uno) = 1 /\ uno[1] = Inicial /\ Len(cero) = 0
    OBVIOUS
  <2> HIDE DEF uno, cero
  <2> QED BY <2>1 DEF SinRepetir, Contains
<1> HIDE DEF uno, cero
<1>6. \A l \in ConLista : t.listas[l] = IF l = "NEW" THEN uno ELSE cero
  BY <1>2 DEF uno, cero
<1>7. \A k \in Colas : t.ready[k] = cero
  BY <1>3 DEF cero
<1>8. FilasSinRepetir(ConLista, t)
  BY <1>5, <1>6, <1>7 DEF FilasSinRepetir
<1>9. ASSUME NEW q \in Procesos
      PROVE  EnSuLista(ConLista, t, q) /\ EnSuCola(t, q)
  <2>1. EnSuLista(ConLista, t, q)
    BY <1>4, <1>5, <1>6 DEF EnSuLista, ConLista
  <2>2. EnSuCola(t, q)
    BY <1>4, <1>5, <1>7 DEF EnSuCola
  <2> QED BY <2>1, <2>2
<1>10. CoherenteEn(ConLista, t)
  BY <1>8, <1>9 DEF CoherenteEn
<1>11. \A L \in SUBSET ConLista : CoherenteEn(L, t)
  BY <1>10 DEF CoherenteEn, FilasSinRepetir, EnSuLista
<1> QED BY <1>1, <1>10, <1>11 DEF Listas, Coherente

\* In the words of ListasSegunEstado, which counts.
LEMMA ListasCuentan ==
  ASSUME t \in Tabla, Listas
  PROVE  ListasSegunEstado
<1> SUFFICES ASSUME SinDesconexiones, NEW p \in Procesos
             PROVE  /\ \A l \in ConLista :
                         Apariciones(t.listas[l], p) = IF t.estado[p] = l THEN 1 ELSE 0
                    /\ \A k \in Colas :
                         Apariciones(t.ready[k], p)
                           = IF t.estado[p] = "READY" /\ Nivel(t, p) = k THEN 1 ELSE 0
  BY DEF ListasSegunEstado
<1>1. EnSuLista(ConLista, t, p) /\ EnSuCola(t, p) /\ FilasSinRepetir(ConLista, t)
  BY DEF Listas, Coherente, CoherenteEn
<1>2. ASSUME NEW l \in ConLista
      PROVE  Apariciones(t.listas[l], p) = IF t.estado[p] = l THEN 1 ELSE 0
  <2> DEFINE s == t.listas[l]
  <2>1. s \in Seq(Procesos) /\ SinRepetir(s) /\ (Contains(s, p) <=> t.estado[p] = l)
    BY <1>1 DEF Tabla, FilasSinRepetir, EnSuLista
  <2> HIDE DEF s
  <2>2. Apariciones(s, p) = IF Contains(s, p) THEN 1 ELSE 0
    BY <2>1, AparicionesUnaONinguna DEF Apariciones
  <2> QED BY <2>1, <2>2 DEF s
<1>3. ASSUME NEW k \in Colas
      PROVE  Apariciones(t.ready[k], p) = IF t.estado[p] = "READY" /\ Nivel(t, p) = k THEN 1 ELSE 0
  <2> DEFINE s == t.ready[k]
  <2>1. /\ s \in Seq(Procesos) /\ SinRepetir(s)
        /\ Contains(s, p) <=> t.estado[p] = "READY" /\ Nivel(t, p) = k
    BY <1>1 DEF Tabla, FilasSinRepetir, EnSuCola
  <2> HIDE DEF s
  <2>2. Apariciones(s, p) = IF Contains(s, p) THEN 1 ELSE 0
    BY <2>1, AparicionesUnaONinguna DEF Apariciones
  <2> QED BY <2>1, <2>2 DEF s
<1> QED BY <1>2, <1>3

\* Nothing takes a process out of EXIT but an eviction that finds it there.
LEMMA PasoExit ==
  ASSUME Bien, [Next]_vars, NEW p \in Procesos, t.estado[p] = "EXIT",
         \A c \in CPUs : volverAlFrente(c) => t.estado[manejador[c].pid] # "EXIT"
  PROVE  t'.estado[p] = "EXIT"
<1>2. t \in Tabla /\ FormaCorto /\ FormaManejador /\ t.estado \in [Procesos -> Estados]
  BY DEF Bien, TypeOK, Formas, Tabla
<1>3. CASE Nada \/ cortoSelecciona
  BY <1>3 DEF Nada, cortoSelecciona
<1>4. CASE cortoEjecuta
  <2>1. corto.p \in Procesos /\ corto.c \in CPUs
    BY <1>2, <1>4 DEF cortoEjecuta, FormaCorto
  <2>2. t' = EnExec(t, corto.p, corto.c)
    BY <1>4 DEF cortoEjecuta, Despachado, EnExec
  <2>3. t'.estado = [t.estado EXCEPT ![corto.p] = IF @ = "EXIT" THEN @ ELSE "EXEC"]
    BY <1>2, <2>1, <2>2, DespachadoTipo
  <2> QED BY <1>2, <2>3
<1>5. ASSUME NEW q \in Procesos, NEW nuevo \in EstadosNuevos, Mueve(q, nuevo)
      PROVE  t'.estado[p] = "EXIT"
  <2>1. t'.estado = [t.estado EXCEPT ![q] = IF @ = "EXIT" THEN @ ELSE nuevo]
    <3> DEFINE u == actualizarEstado(t, q, nuevo)
    <3>1. u.estado = [t.estado EXCEPT ![q] = IF @ = "EXIT" THEN @ ELSE nuevo]
      BY <1>2, actualizarEstadoTipo DEF EstadosNuevos
    <3>2. t' = u
      BY <1>5 DEF Mueve
    <3> HIDE DEF u
    <3> QED BY <3>1, <3>2
  <2> QED BY <1>2, <2>1
<1>6. ASSUME NEW q \in Procesos, NEW nueva \in Int, CambiaPrioridad(q, nueva)
      PROVE  t'.estado[p] = "EXIT"
  BY <1>2, <1>6, cambiarPrioridadTipo DEF CambiaPrioridad
<1>7. ASSUME NEW q \in Procesos, Crea(q)
      PROVE  t'.estado[p] = "EXIT"
  <2>1. q # p /\ t'.estado = [t.estado EXCEPT ![q] = "NEW"]
    <3>1. q # p
      BY <1>7 DEF Crea
    <3> DEFINE s == Append(t.listas["NEW"], q)
    <3>2. t' = [t EXCEPT !.estado[q] = "NEW", !.listas["NEW"] = s]
      BY <1>7 DEF Crea
    <3> HIDE DEF s
    <3>3. t'.estado = [t.estado EXCEPT ![q] = "NEW"]
      BY <1>2, <3>2 DEF Tabla
    <3> QED BY <3>1, <3>3
  <2> QED BY <1>2, <2>1
<1>8. ASSUME NEW c \in CPUs, volverAlFrente(c)
      PROVE  t'.estado[p] = "EXIT"
  <2> DEFINE q == manejador[c].pid
  <2>1. q \in Procesos /\ t.estado[q] # "EXIT" /\ t' = alFrenteDeReady(t, q)
    BY <1>2, <1>8 DEF volverAlFrente, FormaManejador
  <2> HIDE DEF q
  <2>2. t'.estado = [t.estado EXCEPT ![q] = "READY"]
    BY <1>2, <2>1, alFrenteTipo
  <2> QED BY <1>2, <2>1, <2>2
<1>9. ASSUME NEW c \in CPUs, desconectar(c)
      PROVE  t'.estado[p] = "EXIT"
  BY <1>2, <1>9, recuperarTipo DEF desconectar
<1>10. CambiaLaTabla
  BY CambioDeTabla
<1> QED BY <1>3, <1>4, <1>5, <1>6, <1>7, <1>8, <1>9, <1>10 DEF CambiaLaTabla


-----------------------------------------------------------------------------
(* The tokens of the semaphores.                                            *)

TokensDeCPU == semCpu >= Len(cpusLibres)

\* Who waits in READY for the short-term scheduler.
EnEspera == {p \in Procesos : t.estado[p] = "READY" /\ p \notin Elegido}
TokensDeReady == IsFiniteSet(EnEspera) /\ Cardinality(EnEspera) <= semReady

\* A CPU is listed as free together with its token, and leaves the list with one or without.
LEMMA PasoTokensDeCPU ==
  ASSUME Bien, TokensDeCPU, [Next]_vars
  PROVE  TokensDeCPU'
<1>0. cpusLibres \in Seq(CPUs) /\ semCpu \in Nat /\ Len(cpusLibres) \in Nat
  BY LenProperties DEF Bien, TypeOK
<1>1. ASSUME NEW c \in CPUs, LiberarCPU(c)
      PROVE  TokensDeCPU'
  <2>1. cpusLibres' = Append(cpusLibres, c) /\ semCpu' = semCpu + 1
    BY <1>1 DEF LiberarCPU
  <2>2. Len(cpusLibres') = Len(cpusLibres) + 1
    BY <1>0, <2>1, AppendProperties
  <2> QED BY <1>0, <2>1, <2>2 DEF TokensDeCPU
<1>2. ASSUME cpusLibres' = cpusLibres, semCpu' = semCpu
      PROVE  TokensDeCPU'
  BY <1>2 DEF TokensDeCPU
<1>3. CASE cortoSelecciona
  <2>1. /\ cpusLibres # << >> /\ cpusLibres' = Tail(cpusLibres) /\ semCpu' = semCpu - 1
    BY <1>3 DEF cortoSelecciona
  <2>2. Len(cpusLibres') = Len(cpusLibres) - 1
    BY <1>0, <2>1, HeadTailProperties
  <2> QED BY <1>0, <2>1, <2>2 DEF TokensDeCPU
<1>4. ASSUME NEW c \in CPUs, desconectar(c)
      PROVE  TokensDeCPU'
  <2>1. cpusLibres' = RemoveFirst(cpusLibres, c) /\ semCpu' = semCpu
    BY <1>4 DEF desconectar
  <2>2. Len(RemoveFirst(cpusLibres, c)) <= Len(cpusLibres)
    <3>1. CASE Contains(cpusLibres, c)
      <4>1. Len(RemoveFirst(cpusLibres, c)) = Len(cpusLibres) - 1
        BY <1>0, <3>1, QuitarPrimero
      <4> QED BY <1>0, <4>1
    <3>2. CASE ~Contains(cpusLibres, c)
      <4>1. RemoveFirst(cpusLibres, c) = cpusLibres
        BY <3>2 DEF RemoveFirst, Contains
      <4> QED BY <1>0, <4>1
    <3> QED BY <3>1, <3>2
  <2>3. RemoveFirst(cpusLibres, c) \in Seq(CPUs)
    BY <1>0, QuitarPrimeroTipo
  <2> DEFINE r == RemoveFirst(cpusLibres, c)
  <2>4. Len(r) \in Nat /\ Len(r) <= Len(cpusLibres)
    BY <2>2, <2>3, LenProperties
  <2> HIDE DEF r
  <2> QED BY <1>0, <2>1, <2>4 DEF TokensDeCPU, r
<1>5. CASE UNCHANGED vars \/ planificadorLargoPlazo
  BY <1>2, <1>5 DEF vars, enKS, planificadorLargoPlazo
<1>6. CASE Corto
  BY <1>2, <1>3, <1>6 DEF Corto, cortoEsperaCompactacion, cortoDevuelve, cortoEjecuta, cortoEnvia, enKS
<1>7. CASE \E p \in Procesos, c \in CPUs : Timer(p, c)
  BY <1>2, <1>7 DEF Timer, venceQuantum, interrumpeQuantum, enKS
<1>8. CASE \E p \in Procesos : HiloIO(p)
  BY <1>2, <1>8 DEF HiloIO, hiloBloquea, hiloDesbloquea
<1>9. CASE \E c \in CPUs : ModuloCPU(c) \/ caer(c)
  BY <1>2, <1>9 DEF ModuloCPU, caer, enKS, esperarPid, syscallConRespuesta, syscallBloqueante,
     syscallExit, manejarSegFault, confirmarSegFault, atenderInterrupcion, guardarInterrupcion,
     recibirRespuesta, recibirBloqueado, respuestaInesperada
<1>10. ASSUME NEW c \in CPUs, Manejador(c)
       PROVE  TokensDeCPU'
  <2>1. CASE \/ conectar(c) \/ atenderDone(c) \/ atenderSegFault(c) \/ bloquearPorMutex(c)
             \/ atenderSleep(c) \/ atenderInterrupcionAtendida(c)
    BY <1>1, <1>2, <2>1 DEF conectar, atenderDone, atenderSegFault, bloquearPorMutex,
       atenderSleep, atenderInterrupcionAtendida
  <2>2. CASE \/ volverAReady(c) \/ volverAlFrente(c) \/ mutex_create(c) \/ mutex_lock_no_existe(c)
             \/ mutex_lock_libre(c) \/ mutex_lock_ocupado(c) \/ mutex_unlock_ajeno(c)
             \/ mutex_unlock(c) \/ despertarSiguiente(c) \/ crear_proceso(c) \/ km_mem_alloc(c)
             \/ manejar_solicitud_desalojo(c) \/ esperarConfirmaciones(c) \/ finCompactacion(c)
             \/ avisarBloqueado(c)
    <3>1. cpusLibres' = cpusLibres /\ semCpu' = semCpu
      BY <2>2 DEF volverAReady, volverAlFrente, mutex_create, mutex_lock_no_existe,
         mutex_lock_libre, mutex_lock_ocupado, mutex_unlock_ajeno, mutex_unlock,
         despertarSiguiente, crear_proceso, km_mem_alloc, manejar_solicitud_desalojo,
         esperarConfirmaciones, finCompactacion, avisarBloqueado, enKS
    <3> QED BY <1>2, <3>1
  <2> QED BY <1>4, <1>10, <2>1, <2>2 DEF Manejador
<1> QED BY <1>5, <1>6, <1>7, <1>8, <1>9, <1>10 DEF Next

\* A set that gains no element, one at most, or loses one.
LEMMA CuentaConjunto ==
  ASSUME NEW A, NEW B, NEW x, IsFiniteSet(A)
  PROVE  /\ B \subseteq A => IsFiniteSet(B) /\ Cardinality(B) <= Cardinality(A)
         /\ B \subseteq A \cup {x} => IsFiniteSet(B) /\ Cardinality(B) <= Cardinality(A) + 1
         /\ x \in A /\ B \subseteq A \ {x} => IsFiniteSet(B) /\ Cardinality(B) <= Cardinality(A) - 1
         /\ Cardinality(A) \in Nat /\ (IsFiniteSet(B) => Cardinality(B) \in Nat)
<1>1. Cardinality(A) \in Nat /\ (IsFiniteSet(B) => Cardinality(B) \in Nat)
  BY FS_CardinalityType
<1>2. B \subseteq A => IsFiniteSet(B) /\ Cardinality(B) <= Cardinality(A)
  BY FS_Subset
<1>3. ASSUME B \subseteq A \cup {x}
      PROVE  IsFiniteSet(B) /\ Cardinality(B) <= Cardinality(A) + 1
  <2> DEFINE C == A \cup {x}
  <2>1. IsFiniteSet(C) /\ (Cardinality(C) = Cardinality(A) \/ Cardinality(C) = Cardinality(A) + 1)
    BY FS_AddElement
  <2>2. IsFiniteSet(B) /\ Cardinality(B) <= Cardinality(C)
    BY <1>3, <2>1, FS_Subset
  <2>3. Cardinality(B) \in Nat /\ Cardinality(C) \in Nat
    BY <2>1, <2>2, FS_CardinalityType
  <2> HIDE DEF C
  <2> QED BY <1>1, <2>1, <2>2, <2>3
<1>4. ASSUME x \in A, B \subseteq A \ {x}
      PROVE  IsFiniteSet(B) /\ Cardinality(B) <= Cardinality(A) - 1
  <2> DEFINE C == A \ {x}
  <2>1. IsFiniteSet(C) /\ Cardinality(C) = Cardinality(A) - 1
    BY <1>4, FS_RemoveElement
  <2>2. IsFiniteSet(B) /\ Cardinality(B) <= Cardinality(C)
    BY <1>4, <2>1, FS_Subset
  <2> HIDE DEF C
  <2> QED BY <2>1, <2>2
<1> QED BY <1>1, <1>2, <1>3, <1>4

\* Who joins READY brings a token, and the short-term scheduler takes one with each process.
LEMMA PasoTokensDeReady ==
  ASSUME NEW L \in SUBSET ConLista, Bien, CoherenteEn(L, t), TokensDeReady, [Next]_vars
  PROVE  TokensDeReady'
<1> DEFINE A == EnEspera
           B == EnEspera'
<1>0. /\ t \in Tabla /\ FormaCorto /\ FormaManejador /\ corto \in EstadoCorto /\ semReady \in Nat
      /\ t.estado \in [Procesos -> Estados]
  BY DEF Bien, TypeOK, Formas, EstadoCorto, Tabla
<1>1. IsFiniteSet(A) /\ Cardinality(A) <= semReady /\ Cardinality(A) \in Nat
  BY CuentaConjunto DEF TokensDeReady
<1>2. ASSUME B \subseteq A, semReady' = semReady \/ semReady' = semReady + 1
      PROVE  TokensDeReady'
  <2>1. IsFiniteSet(B) /\ Cardinality(B) <= Cardinality(A) /\ Cardinality(B) \in Nat
    BY <1>1, <1>2, CuentaConjunto
  <2> HIDE DEF A, B
  <2> QED BY <1>0, <1>1, <1>2, <2>1 DEF TokensDeReady, B
<1>3. ASSUME NEW x, B \subseteq A \cup {x}, semReady' = semReady + 1
      PROVE  TokensDeReady'
  <2>1. IsFiniteSet(B) /\ Cardinality(B) <= Cardinality(A) + 1 /\ Cardinality(B) \in Nat
    BY <1>1, <1>3, CuentaConjunto
  <2> HIDE DEF A, B
  <2> QED BY <1>0, <1>1, <1>3, <2>1 DEF TokensDeReady, B
<1>4. ASSUME NEW x \in A, B \subseteq A \ {x}, semReady' = semReady - 1
      PROVE  TokensDeReady'
  <2>1. IsFiniteSet(B) /\ Cardinality(B) <= Cardinality(A) - 1 /\ Cardinality(B) \in Nat
    BY <1>1, <1>4, CuentaConjunto
  <2> HIDE DEF A, B
  <2> QED BY <1>0, <1>1, <1>4, <2>1 DEF TokensDeReady, B
<1>5. CASE Nada
  <2>1. B \subseteq A /\ semReady' = semReady
    BY <1>5 DEF Nada, EnEspera
  <2> QED BY <1>2, <2>1
<1>6. CASE cortoSelecciona
  <2>1. PICK p \in seleccionarProceso(t) :
          corto' = [pc |-> "ejecutar", p |-> p, c |-> Head(cpusLibres), nivel |-> Nivel(t, p)]
    BY <1>6 DEF cortoSelecciona
  <2>2. corto.pc = "tomar" /\ semReady' = semReady - 1 /\ t' = t
    BY <1>6 DEF cortoSelecciona
  <2>3. Elegido = {} /\ Elegido' = {p}
    BY <2>1, <2>2 DEF Elegido
  <2>4. p \in Procesos /\ \E k \in Colas : t.ready[k] # << >> /\ p = t.ready[k][1]
    BY <1>0, seleccionarProcesoTipo
  <2>5. t.estado[p] = "READY"
    <3>1. PICK k \in Colas : t.ready[k] # << >> /\ p = t.ready[k][1]
      BY <2>4
    <3>2. t.ready[k] \in Seq(Procesos)
      BY <1>0 DEF Tabla
    <3>3. Len(t.ready[k]) \in Nat \ {0}
      BY <3>1, <3>2, EmptySeq, LenProperties
    <3>4. Contains(t.ready[k], p)
      BY <3>1, <3>3 DEF Contains
    <3> QED BY <2>4, <3>4 DEF CoherenteEn, EnSuCola
  <2>6. p \in A /\ B \subseteq A \ {p}
    BY <2>2, <2>3, <2>4, <2>5 DEF EnEspera
  <2> HIDE DEF A, B
  <2> QED BY <1>4, <2>2, <2>6
<1>7. CASE cortoEjecuta
  <2>1. /\ corto.p \in Procesos /\ corto.c \in CPUs /\ corto.pc = "ejecutar" /\ semReady' = semReady
        /\ corto' = [corto EXCEPT !.pc = "enviar"]
    BY <1>0, <1>7 DEF cortoEjecuta, FormaCorto
  <2>2. t' = EnExec(t, corto.p, corto.c)
    BY <1>7 DEF cortoEjecuta, Despachado, EnExec
  <2>3. t'.estado = [t.estado EXCEPT ![corto.p] = IF @ = "EXIT" THEN @ ELSE "EXEC"]
    BY <1>0, <2>1, <2>2, DespachadoTipo
  <2>4. Elegido = {corto.p}
    BY <2>1 DEF Elegido
  <2>5. \A q \in Procesos : t'.estado[q] = "READY" => q # corto.p /\ t.estado[q] = "READY"
    BY <1>0, <2>1, <2>3
  <2>6. B \subseteq A
    BY <2>4, <2>5 DEF EnEspera
  <2> HIDE DEF A, B
  <2> QED BY <1>2, <2>1, <2>6
<1>8. ASSUME NEW p \in Procesos, NEW nuevo \in EstadosNuevos, Mueve(p, nuevo)
      PROVE  TokensDeReady'
  <2>1. t'.estado = [t.estado EXCEPT ![p] = IF @ = "EXIT" THEN @ ELSE nuevo]
    <3> DEFINE u == actualizarEstado(t, p, nuevo)
    <3>1. u.estado = [t.estado EXCEPT ![p] = IF @ = "EXIT" THEN @ ELSE nuevo]
      BY <1>0, actualizarEstadoTipo DEF EstadosNuevos
    <3>2. t' = u
      BY <1>8 DEF Mueve
    <3> HIDE DEF u
    <3> QED BY <3>1, <3>2
  <2>2. Elegido' = Elegido /\ semReady' = IF nuevo = "READY" THEN semReady + 1 ELSE semReady
    BY <1>8 DEF Mueve
  <2>3. \A q \in Procesos : t'.estado[q] = "READY" =>
          t.estado[q] = "READY" \/ (q = p /\ nuevo = "READY")
    BY <1>0, <2>1
  <2>4. CASE nuevo = "READY"
    <3>1. B \subseteq A \cup {p}
      BY <2>2, <2>3 DEF EnEspera
    <3> HIDE DEF A, B
    <3> QED BY <1>3, <2>2, <2>4, <3>1
  <2>5. CASE nuevo # "READY"
    <3>1. B \subseteq A
      BY <2>2, <2>3, <2>5 DEF EnEspera
    <3> HIDE DEF A, B
    <3> QED BY <1>2, <2>2, <2>5, <3>1
  <2> QED BY <2>4, <2>5
<1>9. ASSUME NEW p \in Procesos, NEW nueva \in Int, CambiaPrioridad(p, nueva)
      PROVE  TokensDeReady'
  <2>1. t'.estado = t.estado /\ Elegido' = Elegido /\ semReady' = semReady
    BY <1>0, <1>9, cambiarPrioridadTipo DEF CambiaPrioridad
  <2>2. B \subseteq A
    BY <2>1 DEF EnEspera
  <2> HIDE DEF A, B
  <2> QED BY <1>2, <2>1, <2>2
<1>10. ASSUME NEW p \in Procesos, Crea(p)
       PROVE  TokensDeReady'
  <2>1. Elegido' = Elegido /\ semReady' = semReady
    BY <1>10 DEF Crea
  <2> DEFINE s == Append(t.listas["NEW"], p)
  <2>2. t' = [t EXCEPT !.estado[p] = "NEW", !.listas["NEW"] = s]
    BY <1>10 DEF Crea
  <2> HIDE DEF s
  <2>3. t'.estado = [t.estado EXCEPT ![p] = "NEW"]
    BY <1>0, <2>2 DEF Tabla
  <2>4. \A q \in Procesos : t'.estado[q] = "READY" => t.estado[q] = "READY"
    BY <1>0, <2>3
  <2>5. B \subseteq A
    BY <2>1, <2>4 DEF EnEspera
  <2> HIDE DEF A, B
  <2> QED BY <1>2, <2>1, <2>5
<1>11. ASSUME NEW c \in CPUs, volverAlFrente(c)
       PROVE  TokensDeReady'
  <2> DEFINE p == manejador[c].pid
  <2>1. /\ p \in Procesos /\ t' = alFrenteDeReady(t, p) /\ semReady' = semReady + 1
        /\ corto' = corto
    BY <1>0, <1>11 DEF volverAlFrente, FormaManejador
  <2> HIDE DEF p
  <2>2. t'.estado = [t.estado EXCEPT ![p] = "READY"]
    BY <1>0, <2>1, alFrenteTipo
  <2>3. \A q \in Procesos : t'.estado[q] = "READY" => t.estado[q] = "READY" \/ q = p
    BY <1>0, <2>2
  <2>4. B \subseteq A \cup {p}
    BY <2>1, <2>3 DEF EnEspera, Elegido
  <2> HIDE DEF A, B
  <2> QED BY <1>3, <2>1, <2>4
<1>12. ASSUME NEW c \in CPUs, desconectar(c)
       PROVE  TokensDeReady'
  <2>1. corto' = corto /\ semReady' = semReady /\ t'.estado = t.estado
    BY <1>0, <1>12, recuperarTipo DEF desconectar
  <2>2. B \subseteq A
    BY <2>1 DEF EnEspera, Elegido
  <2> HIDE DEF A, B
  <2> QED BY <1>2, <2>1, <2>2
<1>13. CambiaLaTabla
  BY CambioDeTabla
<1> HIDE DEF A, B
<1> QED BY <1>5, <1>6, <1>7, <1>8, <1>9, <1>10, <1>11, <1>12, <1>13 DEF CambiaLaTabla


-----------------------------------------------------------------------------
(* The turn of each CPU.                                                    *)

Resp == {"OK", "ERROR", "BLOQUEADO"}
Liberan == {"DONE", "SEG_FAULT", "INTERRUPCION_ATENDIDA", "SLEEP"}
Piden == ConRespuesta \cup {"SEG_FAULT"}

\* What travels to a CPU (a) and from it (d).
HayPid(a) == \E i \in 1..Len(a) : a[i].tipo = "PID"
HayResp(a) == \E i \in 1..Len(a) : a[i].tipo \in Resp
HayBloqueado(a) == \E i \in 1..Len(a) : a[i].tipo = "BLOQUEADO"
Pide(d) == \E i \in 1..Len(d) : d[i].tipo \in Piden

\* One PID and one answer at most, the answer first.
OrdenSocket(a) ==
  \A i, j \in 1..Len(a) :
    /\ a[i].tipo = "PID" /\ a[j].tipo = "PID" => i = j
    /\ a[i].tipo \in Resp /\ a[j].tipo \in Resp => i = j
    /\ a[i].tipo \in Resp /\ a[j].tipo = "PID" => i < j
\* One call at most, and a message that frees the CPU is the last one.
OrdenPedidos(d) ==
  /\ \A i \in 1..Len(d) : d[i].tipo \in Liberan => i = Len(d)
  /\ \A i, j \in 1..Len(d) : d[i].tipo \in Piden /\ d[j].tipo \in Piden => i = j

\* The CPU k executes, its handler h is in the middle of a call, and nothing of it is pending.
Corre(a, k) == k.modo \in {"ejecuta", "respuesta"} /\ ~HayBloqueado(a)
Atendiendo(h) == h.pc \in {"avisar", "confirmaciones", "compactando"}
Quieto(d, h) == d = << >> /\ ~Atendiendo(h) /\ h.pc # "bloquear"
\* The CPU k waits for the answer to the MUTEX_LOCK that its handler h has queued.
LlamaALock(k, h) == k.modo = "respuesta" /\ k.sys = "MUTEX_LOCK" /\ k.pid = h.pid /\ k.arg = h.arg

\* A CPU is free (libre), chosen (elegida), sent a PID, or executing, and only one of them;
\* it executes with its call, if any, unanswered, and the call or its answer is pending.
Turno(libre, elegida, a, d, k, h) ==
  /\ OrdenSocket(a) /\ OrdenPedidos(d)
  /\ ~(HayResp(a) /\ Pide(d)) /\ ~(HayResp(a) /\ Atendiendo(h)) /\ ~(Pide(d) /\ Atendiendo(h))
  /\ libre \/ elegida \/ HayPid(a) => Quieto(d, h) /\ ~Corre(a, k)
  /\ ~(libre /\ elegida) /\ ~(libre /\ HayPid(a)) /\ ~(elegida /\ HayPid(a))
  /\ k.modo = "ejecuta" => Quieto(d, h) /\ ~HayResp(a)
  /\ k.modo = "respuesta" => \/ d = << Msj(k.sys, k.pid, k.arg) >>
                             \/ d = << >> /\ (Atendiendo(h) \/ HayResp(a))
  /\ HayBloqueado(a) => (k.modo = "respuesta" /\ k.sys = "MUTEX_LOCK") \/ k.modo = "caida"
  /\ h.pc = "bloquear" => d = << >> /\ ~Corre(a, k)
  /\ h.pc = "avisar" => d = << >> /\ (k.modo = "caida" \/ LlamaALock(k, h))
  /\ \A i \in 1..Len(d) : d[i].tipo = "MUTEX_LOCK" => Len(d) = 1 /\ k.modo \in {"respuesta", "caida"}
  /\ k.modo = "desconectada" <=> h.pc = "desconectado"
  /\ k.modo = "desconectada" => d = << >> /\ ~HayPid(a) /\ ~HayResp(a) /\ ~libre /\ ~elegida

TurnoDe(c) ==
  Turno(Contains(cpusLibres, c), corto.c = c, aCpu[c], deCpu[c], cpu[c], manejador[c])
TurnoCPU ==
  /\ SinRepetir(cpusLibres)
  /\ corto.pc \in {"flag", "tomar"} => corto.c = Nadie
  /\ \A c \in CPUs : TurnoDe(c)

\* The channel b is the channel a with interrupts behind.
Extiende(a, b) ==
  /\ Len(b) >= Len(a)
  /\ \A i \in 1..Len(a) : b[i] = a[i]
  /\ \A i \in (Len(a) + 1)..Len(b) : b[i] \in Interrupciones

\* Interrupts change nothing of what matters in a channel.
LEMMA SocketInterrumpido ==
  ASSUME NEW a \in Seq(MensajesAlCPU), NEW b \in Seq(MensajesAlCPU), Extiende(a, b)
  PROVE  /\ HayPid(b) <=> HayPid(a)
         /\ HayResp(b) <=> HayResp(a)
         /\ HayBloqueado(b) <=> HayBloqueado(a)
         /\ OrdenSocket(a) => OrdenSocket(b)
<1>1. Len(a) \in Nat /\ Len(b) \in Nat
  BY LenProperties
<1>2. \A i \in 1..Len(b) : (i \in 1..Len(a) /\ b[i] = a[i]) \/ b[i].tipo = "INTERRUPT"
  BY <1>1 DEF Extiende, Interrupciones
<1>3. \A i \in 1..Len(a) : i \in 1..Len(b) /\ b[i] = a[i]
  BY <1>1 DEF Extiende
<1>4. HayPid(b) <=> HayPid(a)
  BY <1>2, <1>3 DEF HayPid
<1>5. HayResp(b) <=> HayResp(a)
  BY <1>2, <1>3 DEF HayResp, Resp
<1>6. HayBloqueado(b) <=> HayBloqueado(a)
  BY <1>2, <1>3 DEF HayBloqueado
<1>7. OrdenSocket(a) => OrdenSocket(b)
  BY <1>2 DEF OrdenSocket, Resp
<1> QED BY <1>4, <1>5, <1>6, <1>7

\* An interrupt sent to a CPU changes the turn of nobody.
LEMMA TurnoInterrumpido ==
  ASSUME NEW a \in Seq(MensajesAlCPU), NEW b \in Seq(MensajesAlCPU), Extiende(a, b),
         NEW libre, NEW elegida, NEW d, NEW k, NEW h, Turno(libre, elegida, a, d, k, h)
  PROVE  Turno(libre, elegida, b, d, k, h)
<1>1. /\ HayPid(b) <=> HayPid(a)
      /\ HayResp(b) <=> HayResp(a)
      /\ HayBloqueado(b) <=> HayBloqueado(a)
      /\ OrdenSocket(a) => OrdenSocket(b)
  BY SocketInterrumpido
<1> QED BY <1>1 DEF Turno, Corre

\* A message is taken from a channel to a CPU.
LEMMA SocketRecibido ==
  ASSUME NEW a \in Seq(MensajesAlCPU), a # << >>, OrdenSocket(a)
  PROVE  LET m == Head(a)
             b == Tail(a)
         IN
         /\ OrdenSocket(b)
         /\ HayPid(b) => HayPid(a) /\ m.tipo # "PID"
         /\ HayResp(b) => HayResp(a) /\ m.tipo \notin Resp /\ m.tipo # "PID"
         /\ HayBloqueado(b) => HayBloqueado(a) /\ HayResp(b)
         /\ m.tipo = "PID" => HayPid(a)
         /\ m.tipo \in Resp => HayResp(a)
         /\ m.tipo = "BLOQUEADO" => HayBloqueado(a)
         /\ m.tipo = "INTERRUPT" => /\ HayPid(b) <=> HayPid(a)
                                    /\ HayResp(b) <=> HayResp(a)
                                    /\ HayBloqueado(b) <=> HayBloqueado(a)
         /\ m.tipo \in Resp \cup {"PID", "INTERRUPT"}
<1> DEFINE m == Head(a)
           b == Tail(a)
<1>1. /\ Len(b) = Len(a) - 1 /\ Len(a) \in Nat \ {0} /\ m = a[1] /\ m \in MensajesAlCPU
      /\ \A i \in 1..Len(b) : b[i] = a[i + 1]
  BY HeadTailProperties, EmptySeq, LenProperties
<1> HIDE DEF m, b
<1>2. 1 \in 1..Len(a) /\ \A i \in 1..Len(b) : i + 1 \in 1..Len(a) /\ b[i] = a[i + 1] /\ i + 1 # 1
  BY <1>1
<1>3. \A j \in 1..Len(a) : j = 1 \/ (j - 1 \in 1..Len(b) /\ b[j - 1] = a[j])
  BY <1>1
<1>4. OrdenSocket(b)
  <2> SUFFICES ASSUME NEW i \in 1..Len(b), NEW j \in 1..Len(b)
               PROVE  /\ b[i].tipo = "PID" /\ b[j].tipo = "PID" => i = j
                      /\ b[i].tipo \in Resp /\ b[j].tipo \in Resp => i = j
                      /\ b[i].tipo \in Resp /\ b[j].tipo = "PID" => i < j
    BY DEF OrdenSocket
  <2>1. i + 1 \in 1..Len(a) /\ j + 1 \in 1..Len(a) /\ b[i] = a[i + 1] /\ b[j] = a[j + 1]
    BY <1>2
  <2>2. /\ b[i].tipo = "PID" /\ b[j].tipo = "PID" => i + 1 = j + 1
        /\ b[i].tipo \in Resp /\ b[j].tipo \in Resp => i + 1 = j + 1
        /\ b[i].tipo \in Resp /\ b[j].tipo = "PID" => i + 1 < j + 1
    BY <2>1 DEF OrdenSocket
  <2>3. i \in Nat /\ j \in Nat
    BY <1>1
  <2> QED BY <2>2, <2>3
<1>5. HayPid(b) => HayPid(a) /\ m.tipo # "PID"
  BY <1>1, <1>2 DEF HayPid, OrdenSocket
<1>6. HayResp(b) => HayResp(a) /\ m.tipo \notin Resp /\ m.tipo # "PID"
  <2> SUFFICES ASSUME HayResp(b)
               PROVE  HayResp(a) /\ m.tipo \notin Resp /\ m.tipo # "PID"
    OBVIOUS
  <2>1. PICK i \in 1..Len(b) : b[i].tipo \in Resp
    BY DEF HayResp
  <2>2. i + 1 \in 1..Len(a) /\ a[i + 1].tipo \in Resp /\ i + 1 # 1 /\ ~(i + 1 < 1)
    BY <1>1, <1>2, <2>1
  <2> QED BY <1>1, <1>2, <2>2 DEF HayResp, OrdenSocket
<1>7. HayBloqueado(b) => HayBloqueado(a) /\ HayResp(b)
  BY <1>2 DEF HayBloqueado, HayResp, Resp
<1>8. /\ m.tipo = "PID" => HayPid(a)
      /\ m.tipo \in Resp => HayResp(a)
      /\ m.tipo = "BLOQUEADO" => HayBloqueado(a)
  BY <1>1, <1>2 DEF HayPid, HayResp, HayBloqueado
<1>9. ASSUME m.tipo = "INTERRUPT"
      PROVE  /\ HayPid(b) <=> HayPid(a)
             /\ HayResp(b) <=> HayResp(a)
             /\ HayBloqueado(b) <=> HayBloqueado(a)
  <2>1. a[1].tipo # "PID" /\ a[1].tipo \notin Resp
    BY <1>1, <1>9 DEF Resp
  <2>2. HayPid(a) => HayPid(b)
    BY <1>3, <2>1 DEF HayPid
  <2>3. HayResp(a) => HayResp(b)
    BY <1>3, <2>1 DEF HayResp
  <2>4. HayBloqueado(a) => HayBloqueado(b)
    BY <1>3, <2>1 DEF HayBloqueado, Resp
  <2> QED BY <1>5, <1>6, <1>7, <2>2, <2>3, <2>4
<1>10. m.tipo \in Resp \cup {"PID", "INTERRUPT"}
  BY <1>1 DEF MensajesAlCPU, Resp
<1> QED BY <1>4, <1>5, <1>6, <1>7, <1>8, <1>9, <1>10 DEF m, b

\* A message is sent to a CPU.
LEMMA SocketEnviado ==
  ASSUME NEW a \in Seq(MensajesAlCPU), NEW m \in MensajesAlCPU, OrdenSocket(a)
  PROVE  LET b == Append(a, m) IN
         /\ HayPid(b) <=> HayPid(a) \/ m.tipo = "PID"
         /\ HayResp(b) <=> HayResp(a) \/ m.tipo \in Resp
         /\ HayBloqueado(b) <=> HayBloqueado(a) \/ m.tipo = "BLOQUEADO"
         /\ m.tipo = "PID" /\ ~HayPid(a) => OrdenSocket(b)
         /\ m.tipo \in Resp /\ ~HayPid(a) /\ ~HayResp(a) => OrdenSocket(b)
         /\ m.tipo = "INTERRUPT" => OrdenSocket(b)
<1> DEFINE b == Append(a, m)
           n == Len(a) + 1
<1>1. Len(b) = n /\ b[n] = m /\ Len(a) \in Nat /\ \A i \in 1..Len(a) : b[i] = a[i]
  BY AppendProperties, LenProperties
<1> HIDE DEF b
<1>2. /\ n \in 1..Len(b) /\ \A i \in 1..Len(a) : i \in 1..Len(b) /\ b[i] = a[i] /\ i < n
      /\ \A i \in 1..Len(b) : (i \in 1..Len(a) /\ b[i] = a[i]) \/ (i = n /\ b[i] = m)
  BY <1>1
<1> HIDE DEF n
<1>3. HayPid(b) <=> HayPid(a) \/ m.tipo = "PID"
  BY <1>1, <1>2 DEF HayPid
<1>4. HayResp(b) <=> HayResp(a) \/ m.tipo \in Resp
  BY <1>1, <1>2 DEF HayResp
<1>5. HayBloqueado(b) <=> HayBloqueado(a) \/ m.tipo = "BLOQUEADO"
  BY <1>1, <1>2 DEF HayBloqueado
<1>6. m.tipo = "PID" /\ ~HayPid(a) => OrdenSocket(b)
  BY <1>2 DEF OrdenSocket, HayPid, Resp
<1>7. m.tipo \in Resp /\ ~HayPid(a) /\ ~HayResp(a) => OrdenSocket(b)
  BY <1>2 DEF OrdenSocket, HayPid, HayResp, Resp
<1>8. m.tipo = "INTERRUPT" => OrdenSocket(b)
  BY <1>2 DEF OrdenSocket, Resp
<1> QED BY <1>3, <1>4, <1>5, <1>6, <1>7, <1>8 DEF b

\* A message is taken from a channel of the handler.
LEMMA PedidoAtendido ==
  ASSUME NEW d \in Seq(MensajesDelCPU), d # << >>, OrdenPedidos(d)
  PROVE  /\ OrdenPedidos(Tail(d)) /\ Tail(d) \in Seq(MensajesDelCPU)
         /\ Pide(Tail(d)) => Pide(d) /\ Head(d).tipo \notin Piden
         /\ Head(d).tipo \in Piden => Pide(d)
         /\ Head(d).tipo \in Liberan => Tail(d) = << >>
<1> DEFINE m == Head(d)
           r == Tail(d)
<1>1. /\ Len(r) = Len(d) - 1 /\ Len(d) \in Nat \ {0} /\ m = d[1] /\ r \in Seq(MensajesDelCPU)
      /\ \A i \in 1..Len(r) : r[i] = d[i + 1]
  BY HeadTailProperties, EmptySeq, LenProperties
<1> HIDE DEF m, r
<1>2. 1 \in 1..Len(d) /\ \A i \in 1..Len(r) : i + 1 \in 1..Len(d) /\ r[i] = d[i + 1] /\ i + 1 # 1
  BY <1>1
<1>3. OrdenPedidos(r)
  <2>1. ASSUME NEW i \in 1..Len(r), r[i].tipo \in Liberan
        PROVE  i = Len(r)
    <3>1. i + 1 = Len(d)
      BY <1>2, <2>1 DEF OrdenPedidos
    <3> QED BY <1>1, <3>1
  <2>2. ASSUME NEW i \in 1..Len(r), NEW j \in 1..Len(r), r[i].tipo \in Piden, r[j].tipo \in Piden
        PROVE  i = j
    <3>1. i + 1 = j + 1
      BY <1>2, <2>2 DEF OrdenPedidos
    <3>2. i \in Nat /\ j \in Nat
      BY <1>1
    <3> QED BY <3>1, <3>2
  <2> QED BY <2>1, <2>2 DEF OrdenPedidos
<1>4. Pide(r) => Pide(d) /\ m.tipo \notin Piden
  BY <1>1, <1>2 DEF Pide, OrdenPedidos
<1>5. m.tipo \in Piden => Pide(d)
  BY <1>1, <1>2 DEF Pide
<1>6. ASSUME m.tipo \in Liberan
      PROVE  r = << >>
  <2>1. 1 = Len(d)
    BY <1>1, <1>2, <1>6 DEF OrdenPedidos
  <2>2. Len(r) = 0
    BY <1>1, <2>1
  <2> QED BY <1>1, <2>2, EmptySeq
<1> QED BY <1>1, <1>3, <1>4, <1>5, <1>6 DEF m, r

\* A CPU that has at most a call pending sends a message.
LEMMA PedidoEnviado ==
  ASSUME NEW d \in Seq(MensajesDelCPU), NEW m \in MensajesDelCPU,
         d = << >> \/ (m.tipo \notin Piden /\ \E x : d = <<x>> /\ x.tipo \notin Liberan)
  PROVE  /\ OrdenPedidos(Append(d, m))
         /\ Pide(Append(d, m)) <=> Pide(d) \/ m.tipo \in Piden
<1> DEFINE r == Append(d, m)
           n == Len(d) + 1
<1>1. Len(r) = n /\ r[n] = m /\ Len(d) \in Nat /\ \A i \in 1..Len(d) : r[i] = d[i]
  BY AppendProperties, LenProperties
<1> HIDE DEF r
<1>2. /\ n \in 1..Len(r) /\ \A i \in 1..Len(d) : i \in 1..Len(r) /\ r[i] = d[i]
      /\ \A i \in 1..Len(r) : (i \in 1..Len(d) /\ r[i] = d[i]) \/ (i = n /\ r[i] = m)
  BY <1>1
<1>3. Pide(r) <=> Pide(d) \/ m.tipo \in Piden
  BY <1>1, <1>2 DEF Pide
<1>4. CASE d = << >>
  <2>1. Len(d) = 0
    BY <1>4
  <2>2. \A i \in 1..Len(r) : i = n
    BY <1>1, <2>1
  <2> QED BY <1>1, <1>3, <2>2 DEF OrdenPedidos, r
<1>5. CASE m.tipo \notin Piden /\ \E x : d = <<x>> /\ x.tipo \notin Liberan
  <2>1. Len(d) = 1 /\ d[1].tipo \notin Liberan
    BY <1>5
  <2>2. \A i \in 1..Len(d) : i = 1 /\ d[i].tipo \notin Liberan
    BY <2>1
  <2>3. OrdenPedidos(r)
    BY <1>1, <1>2, <1>5, <2>2 DEF OrdenPedidos
  <2> QED BY <1>3, <2>3 DEF r
<1> QED BY <1>4, <1>5


\* What follows says how a step changes the turn of the CPU it is about.  Its handler
\* attends a message after which the CPU is free.
LEMMA TurnoLiberado ==
  ASSUME NEW libre, NEW elegida, NEW a \in Seq(MensajesAlCPU), NEW d \in Seq(MensajesDelCPU),
         NEW k, NEW h, Turno(libre, elegida, a, d, k, h),
         d # << >>, Head(d).tipo \in Liberan, h.pc = "libre",
         NEW libre2, NEW b, NEW h2, h2.pc \in {"libre", "desalojado"},
         b = a \/ (Head(d).tipo = "SEG_FAULT" /\ b = Append(a, Respuesta("OK"))),
         k.modo = "respuesta" => k.sys \in ConRespuesta
  PROVE  ~libre /\ ~elegida /\ Turno(libre2, elegida, b, Tail(d), k, h2)
<1>1. /\ OrdenSocket(a) /\ ~libre /\ ~elegida /\ ~HayPid(a) /\ k.modo # "ejecuta"
      /\ k.modo # "desconectada" /\ h.pc # "desconectado" /\ OrdenPedidos(d)
      /\ HayBloqueado(a) => (k.modo = "respuesta" /\ k.sys = "MUTEX_LOCK") \/ k.modo = "caida"
  BY DEF Turno, Quieto
<1>2. k.modo # "respuesta"
  <2>1. ASSUME d = << Msj(k.sys, k.pid, k.arg) >>, k.sys \in ConRespuesta
        PROVE  FALSE
    <3>1. Head(d).tipo = k.sys
      BY <2>1 DEF Msj
    <3> QED BY <2>1, <3>1 DEF ConRespuesta, Liberan
  <2> QED BY <2>1 DEF Turno
<1>3. Tail(d) = << >> /\ Len(<< >>) = 0 /\ OrdenPedidos(<< >>) /\ ~Pide(<< >>)
  BY <1>1, PedidoAtendido DEF OrdenPedidos, Pide
<1>4. /\ OrdenSocket(b) /\ ~HayPid(b) /\ (HayBloqueado(b) <=> HayBloqueado(a))
  <2>1. CASE b = a
    BY <1>1, <2>1
  <2>2. CASE Head(d).tipo = "SEG_FAULT" /\ b = Append(a, Respuesta("OK"))
    <3>1. ~HayResp(a)
      BY <1>1, <2>2, PedidoAtendido DEF Turno, Piden
    <3>2. Respuesta("OK") \in MensajesAlCPU /\ Respuesta("OK").tipo = "OK"
      BY DEF Respuesta, Msj, MensajesAlCPU
    <3> DEFINE m == Respuesta("OK")
    <3> HIDE DEF m
    <3>3. /\ HayPid(Append(a, m)) <=> HayPid(a) \/ m.tipo = "PID"
          /\ HayBloqueado(Append(a, m)) <=> HayBloqueado(a) \/ m.tipo = "BLOQUEADO"
          /\ m.tipo \in Resp /\ ~HayPid(a) /\ ~HayResp(a) => OrdenSocket(Append(a, m))
      BY <1>1, <3>2, SocketEnviado DEF m
    <3> QED BY <1>1, <2>2, <3>1, <3>2, <3>3 DEF m, Resp
  <2> QED BY <2>1, <2>2
<1>5. \A i \in 1..Len(Tail(d)) : FALSE
  <2> DEFINE r == Tail(d)
  <2>1. r = << >>
    BY <1>3
  <2> HIDE DEF r
  <2>2. Len(r) = 0
    BY <2>1
  <2>3. \A i \in 1..Len(r) : FALSE
    BY <2>2
  <2> QED BY <2>3 DEF r
<1> QED BY <1>1, <1>2, <1>3, <1>4, <1>5 DEF Turno, Quieto, Corre, Atendiendo

\* Its handler answers a call.
LEMMA TurnoRespondido ==
  ASSUME NEW libre, NEW elegida, NEW a \in Seq(MensajesAlCPU), NEW d \in Seq(MensajesDelCPU),
         NEW k, NEW h, Turno(libre, elegida, a, d, k, h),
         d # << >>, Head(d).tipo \in ConRespuesta, h.pc = "libre",
         NEW tipo \in {"OK", "ERROR"}, NEW b, NEW h2, h2.pc \in {"libre", "despertar"},
         b = Append(a, Respuesta(tipo)) \/ (b = a /\ k.modo \in {"desconectada", "caida"}),
         k.modo = "respuesta" => k.sys \in ConRespuesta
  PROVE  Turno(libre, elegida, b, Tail(d), k, h2)
<1> DEFINE m == Respuesta(tipo)
<1>1. /\ OrdenSocket(a) /\ ~libre /\ ~elegida /\ ~HayPid(a) /\ k.modo # "ejecuta"
      /\ k.modo # "desconectada" /\ h.pc # "desconectado" /\ OrdenPedidos(d)
  BY DEF Turno, Quieto
<1>2. Pide(d) /\ ~HayResp(a) /\ ~Pide(Tail(d)) /\ OrdenPedidos(Tail(d))
  BY <1>1, PedidoAtendido DEF Turno, Piden
<1>3. m \in MensajesAlCPU /\ m.tipo = tipo /\ m.tipo \in Resp
  BY DEF Respuesta, Msj, MensajesAlCPU, Resp
<1> HIDE DEF m
<1>4. /\ HayPid(b) <=> HayPid(a)
      /\ HayBloqueado(b) <=> HayBloqueado(a)
      /\ OrdenSocket(b)
      /\ b = a \/ HayResp(b)
  <2>1. CASE b = a
    BY <1>1, <2>1
  <2>2. CASE b = Append(a, m)
    <3>1. /\ HayPid(Append(a, m)) <=> HayPid(a) \/ m.tipo = "PID"
          /\ HayResp(Append(a, m)) <=> HayResp(a) \/ m.tipo \in Resp
          /\ HayBloqueado(Append(a, m)) <=> HayBloqueado(a) \/ m.tipo = "BLOQUEADO"
          /\ m.tipo \in Resp /\ ~HayPid(a) /\ ~HayResp(a) => OrdenSocket(Append(a, m))
      BY <1>1, <1>3, SocketEnviado
    <3> QED BY <1>1, <1>2, <1>3, <2>2, <3>1
  <2> QED BY <2>1, <2>2 DEF m
<1>5. k.modo = "respuesta" => Tail(d) = << >> /\ b # a
  <2>1. ASSUME k.modo = "respuesta"
        PROVE  Tail(d) = << >>
    <3>1. d = << Msj(k.sys, k.pid, k.arg) >>
      BY <2>1 DEF Turno
    <3>2. Len(d) = 1
      BY <3>1
    <3>3. Len(Tail(d)) = 0 /\ Tail(d) \in Seq(MensajesDelCPU)
      BY <3>2, HeadTailProperties
    <3> QED BY <3>3, EmptySeq
  <2>2. ASSUME k.modo = "respuesta"
        PROVE  b # a
    <3>1. b = Append(a, m)
      BY <2>2 DEF m
    <3>2. Len(b) = Len(a) + 1 /\ Len(a) \in Nat
      BY <1>3, <3>1, AppendProperties, LenProperties
    <3> QED BY <3>2
  <2> QED BY <2>1, <2>2
<1>6. ASSUME NEW i \in 1..Len(Tail(d)), Tail(d)[i].tipo = "MUTEX_LOCK"
      PROVE  FALSE
  <2>1. Pide(Tail(d))
    BY <1>6 DEF Pide, Piden, ConRespuesta
  <2> QED BY <1>2, <2>1
<1>7. /\ HayBloqueado(a) => (k.modo = "respuesta" /\ k.sys = "MUTEX_LOCK") \/ k.modo = "caida"
      /\ k.modo = "respuesta" => b # a /\ HayResp(b)
  BY <1>4, <1>5 DEF Turno
<1> QED BY <1>1, <1>2, <1>4, <1>5, <1>6, <1>7 DEF Turno, Quieto, Corre, Atendiendo


\* The sequence that is left when the only message is taken.
LEMMA UnoSolo ==
  ASSUME NEW S, NEW d \in Seq(S), Len(d) = 1
  PROVE  Tail(d) = << >> /\ ~Pide(Tail(d)) /\ OrdenPedidos(Tail(d)) /\ \A i \in 1..Len(Tail(d)) : FALSE
<1> DEFINE r == Tail(d)
<1>1. Len(r) = 0 /\ r \in Seq(S)
  BY HeadTailProperties, EmptySeq
<1>2. r = << >>
  BY <1>1, EmptySeq
<1> HIDE DEF r
<1>3. \A i \in 1..Len(r) : FALSE
  BY <1>1
<1> QED BY <1>2, <1>3 DEF r, Pide, OrdenPedidos

\* Its handler queues the process that called, and answers in a later section.
LEMMA TurnoEncolado ==
  ASSUME NEW libre, NEW elegida, NEW a \in Seq(MensajesAlCPU), NEW d \in Seq(MensajesDelCPU),
         NEW k, NEW h, Turno(libre, elegida, a, d, k, h),
         d # << >>, Head(d).tipo = "MUTEX_LOCK", h.pc = "libre", NEW h2, h2.pc = "avisar",
         h2.pid = Head(d).pid, h2.arg = Head(d).arg
  PROVE  Turno(libre, elegida, a, Tail(d), k, h2)
<1>1. /\ OrdenSocket(a) /\ ~libre /\ ~elegida /\ ~HayPid(a) /\ k.modo # "ejecuta"
      /\ k.modo # "desconectada" /\ h.pc # "desconectado" /\ OrdenPedidos(d)
  BY DEF Turno, Quieto
<1>2. Pide(d) /\ ~HayResp(a)
  BY <1>1, PedidoAtendido DEF Turno, Piden, ConRespuesta
<1>3. Len(d) = 1 /\ k.modo \in {"respuesta", "caida"}
  <2>1. Len(d) \in Nat \ {0} /\ Head(d) = d[1]
    BY HeadTailProperties, EmptySeq, LenProperties
  <2>2. 1 \in 1..Len(d) /\ d[1].tipo = "MUTEX_LOCK"
    BY <2>1
  <2> QED BY <2>2 DEF Turno
<1>4. Tail(d) = << >> /\ ~Pide(Tail(d)) /\ OrdenPedidos(Tail(d)) /\ \A i \in 1..Len(Tail(d)) : FALSE
  BY <1>3, UnoSolo
<1>5. k.modo = "respuesta" => LlamaALock(k, h2)
  <2>1. ASSUME k.modo = "respuesta"
        PROVE  LlamaALock(k, h2)
    <3>1. d = << Msj(k.sys, k.pid, k.arg) >>
      BY <2>1 DEF Turno
    <3>2. Head(d) = Msj(k.sys, k.pid, k.arg)
      BY <3>1
    <3> QED BY <2>1, <3>2 DEF Msj, LlamaALock
  <2> QED BY <2>1
<1>6. ~HayBloqueado(a)
  BY <1>2 DEF HayBloqueado, HayResp, Resp
<1> QED BY <1>1, <1>2, <1>3, <1>4, <1>5, <1>6 DEF Turno, Quieto, Corre, Atendiendo

\* It answers, and blocks the process later.
LEMMA TurnoAvisado ==
  ASSUME NEW libre, NEW elegida, NEW a \in Seq(MensajesAlCPU), NEW d \in Seq(MensajesDelCPU),
         NEW k, NEW h, Turno(libre, elegida, a, d, k, h), h.pc = "avisar",
         NEW b, NEW h2, h2.pc = "bloquear",
         b = Append(a, Respuesta("BLOQUEADO")) \/ (b = a /\ k.modo \in {"desconectada", "caida"})
  PROVE  Turno(libre, elegida, b, d, k, h2)
<1> DEFINE m == Respuesta("BLOQUEADO")
<1>1. /\ OrdenSocket(a) /\ ~libre /\ ~elegida /\ ~HayPid(a) /\ k.modo # "ejecuta"
      /\ k.modo # "desconectada" /\ h.pc # "desconectado" /\ OrdenPedidos(d)
      /\ d = << >> /\ ~HayResp(a) /\ ~Pide(d)
      /\ k.modo = "caida" \/ (k.modo = "respuesta" /\ k.sys = "MUTEX_LOCK")
  BY DEF Turno, Quieto, Atendiendo, LlamaALock
<1>2. Len(d) = 0
  BY <1>1
<1>3. \A i \in 1..Len(d) : FALSE
  BY <1>2
<1>4. m \in MensajesAlCPU /\ m.tipo = "BLOQUEADO" /\ m.tipo \in Resp
  BY DEF Respuesta, Msj, MensajesAlCPU, Resp
<1> HIDE DEF m
<1>5. /\ ~HayPid(b) /\ OrdenSocket(b)
      /\ b = a \/ (HayResp(b) /\ HayBloqueado(b))
  <2>1. CASE b = a
    BY <1>1, <2>1
  <2>2. CASE b = Append(a, m)
    <3>1. /\ HayPid(Append(a, m)) <=> HayPid(a) \/ m.tipo = "PID"
          /\ HayResp(Append(a, m)) <=> HayResp(a) \/ m.tipo \in Resp
          /\ HayBloqueado(Append(a, m)) <=> HayBloqueado(a) \/ m.tipo = "BLOQUEADO"
          /\ m.tipo \in Resp /\ ~HayPid(a) /\ ~HayResp(a) => OrdenSocket(Append(a, m))
      BY <1>1, <1>4, SocketEnviado
    <3> QED BY <1>1, <1>4, <2>2, <3>1
  <2> QED BY <2>1, <2>2 DEF m
<1>6. k.modo = "respuesta" => HayResp(b) /\ HayBloqueado(b)
  <2>1. ASSUME b = Append(a, m)
        PROVE  b # a
    <3>1. Len(b) = Len(a) + 1 /\ Len(a) \in Nat
      BY <1>4, <2>1, AppendProperties, LenProperties
    <3> QED BY <3>1
  <2> QED BY <1>5, <2>1 DEF m
<1> QED BY <1>1, <1>3, <1>5, <1>6 DEF Turno, Quieto, Corre, Atendiendo

\* Its handler asks for the CPUs to be freed, and answers when the compaction is over.
LEMMA TurnoCompacta ==
  ASSUME NEW libre, NEW elegida, NEW a \in Seq(MensajesAlCPU), NEW d \in Seq(MensajesDelCPU),
         NEW k, NEW h, Turno(libre, elegida, a, d, k, h),
         d # << >>, Head(d).tipo = "MEM_ALLOC", h.pc = "libre", NEW h2, h2.pc = "confirmaciones"
  PROVE  Turno(libre, elegida, a, Tail(d), k, h2)
<1>1. /\ OrdenSocket(a) /\ ~libre /\ ~elegida /\ ~HayPid(a) /\ k.modo # "ejecuta"
      /\ k.modo # "desconectada" /\ h.pc # "desconectado" /\ OrdenPedidos(d)
  BY DEF Turno, Quieto
<1>2. Pide(d) /\ ~HayResp(a) /\ ~Pide(Tail(d)) /\ OrdenPedidos(Tail(d))
  BY <1>1, PedidoAtendido DEF Turno, Piden, ConRespuesta
<1>3. k.modo = "respuesta" => Tail(d) = << >>
  <2>1. ASSUME k.modo = "respuesta"
        PROVE  Tail(d) = << >>
    <3>1. d = << Msj(k.sys, k.pid, k.arg) >>
      BY <2>1 DEF Turno
    <3>2. Len(d) = 1
      BY <3>1
    <3> QED BY <3>2, UnoSolo
  <2> QED BY <2>1
<1>4. ASSUME NEW i \in 1..Len(Tail(d)), Tail(d)[i].tipo = "MUTEX_LOCK"
      PROVE  FALSE
  <2>1. Pide(Tail(d))
    BY <1>4 DEF Pide, Piden, ConRespuesta
  <2> QED BY <1>2, <2>1
<1>5. HayBloqueado(a) => (k.modo = "respuesta" /\ k.sys = "MUTEX_LOCK") \/ k.modo = "caida"
  BY DEF Turno
<1> QED BY <1>1, <1>2, <1>3, <1>4, <1>5 DEF Turno, Quieto, Corre, Atendiendo

\* The end of a MEM_ALLOC gives the turn back to the CPU module.
LEMMA TurnoCompactado ==
  ASSUME NEW libre, NEW elegida, NEW a \in Seq(MensajesAlCPU), NEW d \in Seq(MensajesDelCPU),
         NEW k, NEW h, Turno(libre, elegida, a, d, k, h), Atendiendo(h), h.pc # "avisar", NEW h2, h2.pc = "libre",
         NEW tipo \in {"OK", "ERROR"}, NEW b,
         b = Append(a, Respuesta(tipo)) \/ (b = a /\ k.modo \in {"desconectada", "caida"}),
         k.modo = "respuesta" => k.sys \in ConRespuesta
  PROVE  Turno(libre, elegida, b, d, k, h2)
<1> DEFINE m == Respuesta(tipo)
<1>1. /\ OrdenSocket(a) /\ ~libre /\ ~elegida /\ ~HayPid(a) /\ k.modo # "ejecuta"
      /\ h.pc # "desconectado" /\ k.modo # "desconectada" /\ OrdenPedidos(d)
      /\ ~HayResp(a) /\ ~Pide(d) /\ h.pc # "bloquear"
  BY DEF Turno, Quieto, Atendiendo
<1>2. k.modo = "respuesta" => d = << >>
  <2>1. ASSUME d = << Msj(k.sys, k.pid, k.arg) >>, k.sys \in ConRespuesta
        PROVE  FALSE
    <3>1. Len(d) = 1 /\ d[1].tipo = k.sys
      BY <2>1 DEF Msj
    <3>2. 1 \in 1..Len(d)
      BY <3>1
    <3> QED BY <1>1, <2>1, <3>1, <3>2 DEF Pide, Piden
  <2> QED BY <2>1 DEF Turno
<1>3. m \in MensajesAlCPU /\ m.tipo = tipo /\ m.tipo \in Resp
  BY DEF Respuesta, Msj, MensajesAlCPU, Resp
<1> HIDE DEF m
<1>4. /\ HayPid(b) <=> HayPid(a)
      /\ HayBloqueado(b) <=> HayBloqueado(a)
      /\ OrdenSocket(b)
      /\ b = a \/ HayResp(b)
  <2>1. CASE b = a
    BY <1>1, <2>1
  <2>2. CASE b = Append(a, m)
    <3>1. /\ HayPid(Append(a, m)) <=> HayPid(a) \/ m.tipo = "PID"
          /\ HayResp(Append(a, m)) <=> HayResp(a) \/ m.tipo \in Resp
          /\ HayBloqueado(Append(a, m)) <=> HayBloqueado(a) \/ m.tipo = "BLOQUEADO"
          /\ m.tipo \in Resp /\ ~HayPid(a) /\ ~HayResp(a) => OrdenSocket(Append(a, m))
      BY <1>1, <1>3, SocketEnviado
    <3> QED BY <1>1, <1>3, <2>2, <3>1
  <2> QED BY <2>1, <2>2 DEF m
<1>5. k.modo = "respuesta" => HayResp(b)
  <2>1. ASSUME b = Append(a, m)
        PROVE  b # a
    <3>1. Len(b) = Len(a) + 1 /\ Len(a) \in Nat
      BY <1>3, <2>1, AppendProperties, LenProperties
    <3> QED BY <3>1
  <2> QED BY <1>4, <2>1 DEF m
<1>6. HayBloqueado(a) => (k.modo = "respuesta" /\ k.sys = "MUTEX_LOCK") \/ k.modo = "caida"
  BY DEF Turno
<1>7. \A i \in 1..Len(d) : d[i].tipo = "MUTEX_LOCK" => Len(d) = 1 /\ k.modo \in {"respuesta", "caida"}
  BY DEF Turno
<1> QED BY <1>1, <1>2, <1>4, <1>5, <1>6, <1>7 DEF Turno, Quieto, Corre, Atendiendo

\* Its handler goes on to the next step of what it does.
LEMMA TurnoSigue ==
  ASSUME NEW libre, NEW elegida, NEW a, NEW d, NEW k, NEW h, Turno(libre, elegida, a, d, k, h),
         NEW h2, Atendiendo(h) <=> Atendiendo(h2),
         h.pc \notin {"bloquear", "desconectado"}, h2.pc \notin {"avisar", "bloquear", "desconectado"}
  PROVE  Turno(libre, elegida, a, d, k, h2)
BY DEF Turno, Quieto

\* The CPU of a blocked process is free.
LEMMA TurnoTrasBloqueo ==
  ASSUME NEW libre, NEW elegida, NEW a, NEW d, NEW k, NEW h, Turno(libre, elegida, a, d, k, h),
         NEW h2, h.pc = "bloquear", h2.pc = "libre"
  PROVE  ~libre /\ Turno(TRUE, elegida, a, d, k, h2)
BY DEF Turno, Quieto, Atendiendo


\* A CPU takes a message: while it waits for a PID, until the answer to its call, or
\* instead of its instructions.
LEMMA TurnoRecibe ==
  ASSUME NEW libre, NEW elegida, NEW a \in Seq(MensajesAlCPU), a # << >>, NEW d, NEW k, NEW h,
         Turno(libre, elegida, a, d, k, h), NEW k2,
         \/ k2.modo = "caida" /\ k.modo # "desconectada"
         \/ k2 = k /\ k.modo = "espera" /\ Head(a).tipo # "PID"
         \/ k2.modo = "espera" /\ k.modo = "ack"
         \/ k2.modo = "espera" /\ k.modo = "respuesta" /\ Head(a).tipo = "BLOQUEADO"
         \/ k2.modo = k.modo /\ k2.sys = k.sys /\ k2.pid = k.pid /\ k2.arg = k.arg
            /\ Head(a).tipo = "INTERRUPT"
         \/ k2.modo = "ejecuta" /\ k.modo = "espera" /\ Head(a).tipo = "PID"
  PROVE  Turno(libre, elegida, Tail(a), d, k2, h)
<1> DEFINE m == Head(a)
           b == Tail(a)
<1>1. /\ OrdenSocket(b)
      /\ HayPid(b) => HayPid(a) /\ m.tipo # "PID"
      /\ HayResp(b) => HayResp(a) /\ m.tipo \notin Resp /\ m.tipo # "PID"
      /\ HayBloqueado(b) => HayBloqueado(a) /\ HayResp(b)
      /\ m.tipo = "PID" => HayPid(a)
      /\ m.tipo \in Resp => HayResp(a)
      /\ m.tipo = "INTERRUPT" => /\ HayPid(b) <=> HayPid(a)
                                 /\ HayResp(b) <=> HayResp(a)
                                 /\ HayBloqueado(b) <=> HayBloqueado(a)
  BY SocketRecibido DEF Turno
<1>2. m.tipo = "BLOQUEADO" => m.tipo \in Resp
  BY DEF Resp
<1> HIDE DEF m, b
<1>3. CASE k2.modo = "caida" /\ k.modo # "desconectada"
  BY <1>1, <1>3 DEF Turno, Corre, LlamaALock, b
<1>4. CASE k2 = k /\ k.modo = "espera" /\ m.tipo # "PID"
  BY <1>1, <1>4 DEF Turno, Corre, b
<1>5. CASE k2.modo = "espera" /\ k.modo = "ack"
  BY <1>1, <1>5 DEF Turno, Corre, LlamaALock, b
<1>6. CASE k2.modo = "espera" /\ k.modo = "respuesta" /\ m.tipo = "BLOQUEADO"
  <2>1. ~Pide(d) /\ ~HayResp(b) /\ ~HayBloqueado(b) /\ h.pc # "avisar"
    BY <1>1, <1>2, <1>6 DEF Turno, Atendiendo
  <2>2. ASSUME NEW i \in 1..Len(d), d[i].tipo = "MUTEX_LOCK"
        PROVE  FALSE
    BY <2>1, <2>2 DEF Pide, Piden, ConRespuesta
  <2> QED BY <1>1, <1>6, <2>1, <2>2 DEF Turno, Corre, b
<1>7. CASE k2.modo = k.modo /\ k2.sys = k.sys /\ k2.pid = k.pid /\ k2.arg = k.arg /\ m.tipo = "INTERRUPT"
  BY <1>1, <1>7 DEF Turno, Corre, LlamaALock, b
<1>8. CASE k2.modo = "ejecuta" /\ k.modo = "espera" /\ m.tipo = "PID"
  <2>1. HayPid(a) /\ d = << >> /\ ~Atendiendo(h) /\ h.pc # "bloquear" /\ ~HayResp(b) /\ ~HayPid(b)
    BY <1>1, <1>8 DEF Turno, Quieto
  <2>2. Len(d) = 0
    BY <2>1
  <2>3. \A i \in 1..Len(d) : FALSE
    BY <2>2
  <2> QED BY <1>1, <1>8, <2>1, <2>3 DEF Turno, Quieto, Corre, Atendiendo, b
<1> QED BY <1>3, <1>4, <1>5, <1>6, <1>7, <1>8 DEF m

\* A CPU that executes sends a message, after which it waits for a PID or an answer.
LEMMA TurnoPide ==
  ASSUME NEW libre, NEW elegida, NEW a \in Seq(MensajesAlCPU), NEW d, NEW k, NEW h,
         Turno(libre, elegida, a, d, k, h), k.modo = "ejecuta", NEW m \in MensajesDelCPU, NEW k2,
         \/ k2.modo \in {"espera", "ack"} /\ m.tipo # "MUTEX_LOCK"
         \/ k2.modo = "respuesta" /\ m = Msj(k2.sys, k2.pid, k2.arg)
  PROVE  Turno(libre, elegida, a, Append(d, m), k2, h)
<1> DEFINE e == << m >>
<1>1. /\ OrdenSocket(a) /\ ~HayResp(a) /\ ~libre /\ ~elegida /\ ~HayPid(a) /\ d = << >>
      /\ ~Atendiendo(h) /\ h.pc # "bloquear" /\ ~HayBloqueado(a) /\ h.pc # "desconectado"
  <2>1. ~HayResp(a)
    BY DEF Turno
  <2>2. ~HayBloqueado(a)
    BY <2>1 DEF HayResp, HayBloqueado, Resp
  <2> QED BY <2>1, <2>2 DEF Turno, Quieto, Corre
<1>2. Append(d, m) = e
  BY <1>1
<1>3. Len(e) = 1 /\ e[1] = m
  OBVIOUS
<1>4. OrdenPedidos(e)
  <2>1. d \in Seq(MensajesDelCPU)
    BY <1>1, EmptySeq
  <2>2. OrdenPedidos(Append(d, m))
    BY <1>1, <2>1, PedidoEnviado
  <2> QED BY <1>2, <2>2
<1>5. \A i \in 1..Len(e) : e[i].tipo = "MUTEX_LOCK" => Len(e) = 1 /\ k2.modo \in {"respuesta", "caida"}
  <2> HIDE DEF e
  <2>1. \A i \in 1..Len(e) : e[i] = m
    BY <1>3
  <2> QED BY <1>3, <2>1
<1>6. k2.modo = "respuesta" => e = << Msj(k2.sys, k2.pid, k2.arg) >>
  OBVIOUS
<1> HIDE DEF e
<1>7. Turno(libre, elegida, a, e, k2, h)
  BY <1>1, <1>4, <1>5, <1>6 DEF Turno, Corre, Atendiendo
<1> QED BY <1>2, <1>7

\* The call is over, or an interrupt was taken for its answer.
LEMMA TurnoDeja ==
  ASSUME NEW libre, NEW elegida, NEW a \in Seq(MensajesAlCPU), a # << >>,
         NEW d \in Seq(MensajesDelCPU), NEW k, NEW h, Turno(libre, elegida, a, d, k, h),
         k.modo = "respuesta", k.sys \in ConRespuesta,
         \/ Head(a).tipo = "OK"
         \/ k.sys \in {"MEM_ALLOC", "INIT_PROC"},
         NEW k2, k2.modo \in {"espera", "ejecuta"},
         Head(a).tipo = "INTERRUPT" => k2.modo = "espera",
         NEW d2, NEW m \in MensajesDelCPU, m.tipo = "INTERRUPCION_ATENDIDA",
         d2 = d \/ (k2.modo = "espera" /\ d2 = Append(d, m))
  PROVE  Turno(libre, elegida, Tail(a), d2, k2, h)
<1> DEFINE n == Head(a)
           b == Tail(a)
<1>1. /\ OrdenSocket(b)
      /\ HayPid(b) => HayPid(a) /\ n.tipo # "PID"
      /\ HayResp(b) => HayResp(a) /\ n.tipo \notin Resp /\ n.tipo # "PID"
      /\ HayBloqueado(b) => HayBloqueado(a) /\ HayResp(b)
      /\ n.tipo = "PID" => HayPid(a)
      /\ n.tipo \in Resp => HayResp(a)
      /\ n.tipo = "BLOQUEADO" => HayBloqueado(a)
      /\ n.tipo \in Resp \cup {"PID", "INTERRUPT"}
  BY SocketRecibido DEF Turno
<1> DEFINE x == Msj(k.sys, k.pid, k.arg)
<1>2. d = << >> \/ (d = << x >> /\ Pide(d) /\ x.tipo = k.sys)
  <2>1. ASSUME d = << x >>
        PROVE  Pide(d) /\ x.tipo = k.sys
    <3>1. Len(d) = 1 /\ d[1].tipo = k.sys /\ x.tipo = k.sys
      BY <2>1 DEF Msj
    <3>2. 1 \in 1..Len(d)
      BY <3>1
    <3> QED BY <3>1, <3>2 DEF Pide, Piden
  <2> QED BY <2>1 DEF Turno
<1> HIDE DEF n, b, x
<1>3. ~HayBloqueado(a)
  <2>1. CASE n.tipo = "OK"
    <3>1. \A i \in 1..Len(a) : a[i].tipo \in Resp => i = 1
      <4>1. Len(a) \in Nat \ {0} /\ n = a[1]
        BY HeadTailProperties, EmptySeq, LenProperties DEF n
      <4>2. 1 \in 1..Len(a) /\ a[1].tipo \in Resp
        BY <2>1, <4>1 DEF Resp
      <4> QED BY <4>2 DEF Turno, OrdenSocket
    <3>2. a[1].tipo = "OK"
      BY <2>1, HeadTailProperties, EmptySeq DEF n
    <3> QED BY <3>1, <3>2 DEF HayBloqueado, Resp
  <2>2. CASE k.sys \in {"MEM_ALLOC", "INIT_PROC"}
    BY <2>2 DEF Turno
  <2> QED BY <2>1, <2>2 DEF n
<1>4. ~libre /\ ~elegida /\ ~HayPid(a) /\ ~HayPid(b) /\ n.tipo # "PID" /\ ~HayBloqueado(b)
      /\ h.pc # "bloquear" /\ h.pc # "desconectado"
  BY <1>1, <1>3 DEF Turno, Corre
<1>5. OrdenPedidos(d2) /\ (Pide(d2) <=> Pide(d)) /\ (d2 = d \/ k2.modo = "espera")
  <2>1. CASE d2 = d
    BY <2>1 DEF Turno
  <2>2. CASE k2.modo = "espera" /\ d2 = Append(d, m)
    <3>1. m.tipo \notin Piden /\ k.sys \notin Liberan
      BY DEF Piden, ConRespuesta, Liberan
    <3>2. OrdenPedidos(Append(d, m)) /\ (Pide(Append(d, m)) <=> Pide(d) \/ m.tipo \in Piden)
      BY <1>2, <3>1, PedidoEnviado
    <3> QED BY <2>2, <3>1, <3>2
  <2> QED BY <2>1, <2>2
<1>6. ASSUME NEW i \in 1..Len(d2), d2[i].tipo = "MUTEX_LOCK"
      PROVE  FALSE
  <2>1. Pide(d2)
    BY <1>6 DEF Pide, Piden, ConRespuesta
  <2>2. d = << x >> /\ x.tipo = k.sys /\ Pide(d)
    BY <1>2, <1>5, <2>1 DEF Pide
  <2>3. n.tipo \notin Resp
    BY <1>1, <2>2 DEF Turno
  <2>4. k.sys # "MUTEX_LOCK"
    BY <2>3 DEF n, Resp
  <2>5. \A j \in 1..Len(d) : d[j].tipo # "MUTEX_LOCK"
    <3>1. Len(d) = 1 /\ d[1] = x
      BY <2>2
    <3>2. \A j \in 1..Len(d) : d[j] = x
      BY <3>1
    <3> QED BY <2>2, <2>4, <3>2
  <2>6. d2 = Append(d, m)
    BY <1>6, <2>5
  <2>7. i \in 1..Len(d) \/ d2[i] = m
    <3>1. Len(d2) = Len(d) + 1 /\ d2[Len(d) + 1] = m /\ Len(d) \in Nat
      BY <2>6, AppendProperties, LenProperties
    <3> QED BY <1>6, <3>1
  <2>8. i \in 1..Len(d) => d2[i] = d[i]
    BY <2>6, AppendProperties
  <2> QED BY <1>6, <2>5, <2>7, <2>8
<1>7. CASE n.tipo \in Resp
  <2>1. d = << >> /\ ~Atendiendo(h) /\ h.pc # "avisar" /\ ~HayResp(b) /\ ~Pide(d)
    BY <1>1, <1>2, <1>7 DEF Turno, Atendiendo
  <2> QED BY <1>1, <1>4, <1>5, <1>6, <2>1 DEF Turno, Quieto, Corre, b
<1>8. CASE n.tipo = "INTERRUPT"
  <2>1. k2.modo = "espera"
    BY <1>8 DEF n
  <2>2. h.pc # "avisar"
    <3>1. k.sys # "MUTEX_LOCK"
      BY <1>8 DEF n
    <3> QED BY <3>1 DEF Turno, LlamaALock
  <2> QED BY <1>1, <1>4, <1>5, <1>6, <2>1, <2>2 DEF Turno, Corre, b
<1> QED BY <1>1, <1>4, <1>7, <1>8

\* The short-term scheduler chooses the CPU, and sends it the PID.
LEMMA TurnoElegido ==
  ASSUME NEW libre, NEW elegida, NEW a, NEW d, NEW k, NEW h, Turno(libre, elegida, a, d, k, h),
         libre, NEW libre2, NEW elegida2, ~libre2
  PROVE  Turno(libre2, elegida2, a, d, k, h)
BY DEF Turno

\* The PID sent to the CPU chosen gives it the turn.
LEMMA TurnoEnviado ==
  ASSUME NEW libre, NEW elegida, NEW a \in Seq(MensajesAlCPU), NEW d, NEW k, NEW h,
         Turno(libre, elegida, a, d, k, h), elegida, NEW elegida2, ~elegida2,
         NEW m \in MensajesAlCPU, m.tipo = "PID", NEW b, b = a \/ b = Append(a, m)
  PROVE  Turno(libre, elegida2, b, d, k, h)
<1>1. CASE b = a
  BY <1>1 DEF Turno
<1>2. CASE b = Append(a, m)
  <2>1. OrdenSocket(a) /\ ~HayPid(a)
    BY DEF Turno
  <2>2. /\ HayPid(b)
        /\ HayResp(b) <=> HayResp(a) \/ m.tipo \in Resp
        /\ HayBloqueado(b) <=> HayBloqueado(a) \/ m.tipo = "BLOQUEADO"
        /\ OrdenSocket(b)
    BY <1>2, <2>1, SocketEnviado
  <2>3. (HayResp(b) <=> HayResp(a)) /\ (HayBloqueado(b) <=> HayBloqueado(a))
    BY <2>2 DEF Resp
  <2> QED BY <2>1, <2>2, <2>3 DEF Turno, Corre
<1> QED BY <1>1, <1>2


-----------------------------------------------------------------------------
(* The steps of the system keep the turns.                                  *)

\* Nothing happens to CPU d but interrupts that are sent to it.
OtraIgual(d) ==
  /\ Extiende(aCpu[d], aCpu'[d]) /\ deCpu'[d] = deCpu[d] /\ cpu'[d] = cpu[d]
  /\ manejador'[d] = manejador[d]

\* A channel extends itself.
LEMMA ExtiendeMismo ==
  ASSUME NEW a \in Seq(MensajesAlCPU)
  PROVE  Extiende(a, a)
<1>1. Len(a) \in Nat
  BY LenProperties
<1> QED BY <1>1 DEF Extiende

\* A step about another CPU leaves the turn of this one.
LEMMA TurnoDeOtra ==
  ASSUME Bien, Bien', NEW d \in CPUs, TurnoDe(d), OtraIgual(d),
         Contains(cpusLibres', d) <=> Contains(cpusLibres, d), corto'.c = d <=> corto.c = d
  PROVE  TurnoDe(d)'
<1> DEFINE libre == Contains(cpusLibres, d)
           libre2 == Contains(cpusLibres', d)
           elegida == corto.c = d
           elegida2 == corto'.c = d
           a == aCpu[d]
           b == aCpu'[d]
<1>1. a \in Seq(MensajesAlCPU) /\ b \in Seq(MensajesAlCPU)
  BY DEF Bien, TypeOK
<1>2. /\ Turno(libre, elegida, a, deCpu[d], cpu[d], manejador[d]) /\ Extiende(a, b)
      /\ (libre <=> libre2) /\ (elegida <=> elegida2)
      /\ deCpu'[d] = deCpu[d] /\ cpu'[d] = cpu[d] /\ manejador'[d] = manejador[d]
  BY DEF TurnoDe, OtraIgual
<1>3. TurnoDe(d)' <=> Turno(libre2, elegida2, b, deCpu'[d], cpu'[d], manejador'[d])
  BY DEF TurnoDe
<1> HIDE DEF libre, libre2, elegida, elegida2, a, b
<1>4. Turno(libre, elegida, b, deCpu[d], cpu[d], manejador[d])
  BY <1>1, <1>2, TurnoInterrumpido
<1>5. Turno(libre2, elegida2, b, deCpu[d], cpu[d], manejador[d])
  BY <1>2, <1>4 DEF Turno
<1> QED BY <1>2, <1>3, <1>5

\* A CPU that was not free is listed as free.
LEMMA LiberarLista ==
  ASSUME Bien, NEW c \in CPUs, LiberarCPU(c), SinRepetir(cpusLibres), ~Contains(cpusLibres, c)
  PROVE  /\ SinRepetir(cpusLibres')
         /\ \A d : Contains(cpusLibres', d) <=> Contains(cpusLibres, d) \/ d = c
<1>1. cpusLibres \in Seq(CPUs)
  BY DEF Bien, TypeOK
<1> QED BY <1>1, ContieneAppend DEF LiberarCPU, SinRepetir

\* A step that is about one CPU.
LEMMA TurnoDeUna ==
  ASSUME Bien, Bien', TurnoCPU, NEW c \in CPUs, corto' = corto,
         \/ cpusLibres' = cpusLibres
         \/ LiberarCPU(c) /\ ~Contains(cpusLibres, c)
         \/ cpusLibres' = RemoveFirst(cpusLibres, c),
         \A d \in CPUs \ {c} : OtraIgual(d),
         Turno(Contains(cpusLibres', c), corto.c = c, aCpu'[c], deCpu'[c], cpu'[c], manejador'[c])
  PROVE  TurnoCPU'
<1>1. SinRepetir(cpusLibres) /\ cpusLibres \in Seq(CPUs)
  BY DEF TurnoCPU, Bien, TypeOK
<1>2. /\ SinRepetir(cpusLibres')
      /\ \A d \in CPUs \ {c} : Contains(cpusLibres', d) <=> Contains(cpusLibres, d)
  <2>1. CASE cpusLibres' = cpusLibres
    BY <1>1, <2>1
  <2>2. CASE LiberarCPU(c) /\ ~Contains(cpusLibres, c)
    BY <1>1, <2>2, LiberarLista
  <2>3. CASE cpusLibres' = RemoveFirst(cpusLibres, c)
    BY <1>1, <2>3, ContieneQuitar
  <2> QED BY <2>1, <2>2, <2>3
<1>3. ASSUME NEW d \in CPUs \ {c}
      PROVE  TurnoDe(d)'
  BY <1>2, TurnoDeOtra DEF TurnoCPU
<1>4. TurnoDe(c)'
  BY DEF TurnoDe
<1> QED BY <1>2, <1>3, <1>4 DEF TurnoCPU

\* What is sent to a connected CPU arrives.
LEMMA EnviadoExacto ==
  ASSUME NEW canal \in Canales, NEW c \in CPUs, NEW m \in MensajesAlCPU
  PROVE  LET b == Enviado(canal, c, m) IN
         /\ b \in Canales /\ \A d \in CPUs \ {c} : b[d] = canal[d]
         /\ \/ b[c] = Append(canal[c], m)
            \/ b[c] = canal[c] /\ cpu[c].modo \in {"desconectada", "caida"}
<1>1. CASE c \in Conectadas
  <2>1. Enviado(canal, c, m) = [canal EXCEPT ![c] = Append(canal[c], m)]
    BY <1>1 DEF Enviado
  <2>2. Append(canal[c], m) \in Seq(MensajesAlCPU)
    BY AppendProperties DEF Canales
  <2> DEFINE s == Append(canal[c], m)
             b == [canal EXCEPT ![c] = s]
  <2> HIDE DEF s
  <2>3. b \in Canales /\ b[c] = s /\ \A d \in CPUs \ {c} : b[d] = canal[d]
    BY <2>2 DEF Canales, s
  <2> QED BY <2>1, <2>3 DEF s
<1>2. CASE c \notin Conectadas
  <2>1. Enviado(canal, c, m) = canal
    BY <1>2 DEF Enviado
  <2>2. cpu[c].modo \in {"desconectada", "caida"}
    BY <1>2 DEF Conectadas
  <2> QED BY <2>1, <2>2
<1> QED BY <1>1, <1>2


\* Steps that send interrupts and touch nothing else of the CPUs.
LEMMA TurnoTodasIgual ==
  ASSUME Bien, Bien', TurnoCPU, SoloInterrumpe(aCpu, aCpu') \/ aCpu' = aCpu,
         deCpu' = deCpu, cpu' = cpu, manejador' = manejador, cpusLibres' = cpusLibres,
         corto'.c = corto.c, corto'.pc \in {"flag", "tomar"} => corto'.c = Nadie
  PROVE  TurnoCPU'
<1>1. ASSUME NEW d \in CPUs
      PROVE  Extiende(aCpu[d], aCpu'[d])
  <2>1. CASE SoloInterrumpe(aCpu, aCpu')
    BY <2>1 DEF SoloInterrumpe, Extiende
  <2>2. CASE aCpu' = aCpu
    BY <2>2, ExtiendeMismo DEF Bien, TypeOK
  <2> QED BY <2>1, <2>2
<1>2. \A d \in CPUs : OtraIgual(d)
  BY <1>1 DEF OtraIgual
<1>3. \A d \in CPUs : TurnoDe(d)'
  BY <1>2, TurnoDeOtra DEF TurnoCPU
<1> QED BY <1>3 DEF TurnoCPU

\* Whose turn it is on every connection, steps of the short-term scheduler.
LEMMA TurnoCorto ==
  ASSUME Bien, Bien', TurnoCPU, Corto
  PROVE  TurnoCPU'
<1>0. /\ corto \in EstadoCorto /\ FormaCorto /\ cpusLibres \in Seq(CPUs) /\ aCpu \in Canales
      /\ SinRepetir(cpusLibres) /\ (corto.pc \in {"flag", "tomar"} => corto.c = Nadie)
      /\ Nadie \notin CPUs /\ CortoEnReposo.c = Nadie
  BY TablasAssumption DEF Bien, TypeOK, EstadoCorto, Formas, Canales, TurnoCPU, CortoEnReposo
<1>1. CASE cortoEsperaCompactacion
  <2>1. corto'.c = corto.c /\ corto.c = Nadie
    BY <1>0, <1>1 DEF cortoEsperaCompactacion, EstadoCorto
  <2> QED BY <1>1, <2>1, TurnoTodasIgual DEF cortoEsperaCompactacion, enKS, enCPU
<1>2. CASE cortoDevuelve
  <2>1. corto'.c = corto.c /\ corto'.c = Nadie
    BY <1>0, <1>2 DEF cortoDevuelve
  <2> QED BY <1>2, <2>1, TurnoTodasIgual DEF cortoDevuelve, enKS, enCPU
<1>3. CASE cortoEjecuta
  <2>1. corto'.c = corto.c /\ corto'.pc = "enviar"
    BY <1>0, <1>3 DEF cortoEjecuta, EstadoCorto
  <2> QED BY <1>3, <2>1, TurnoTodasIgual DEF cortoEjecuta, enCPU
<1>4. CASE cortoSelecciona
  <2>0. PICK c \in CPUs :
          /\ c = Head(cpusLibres) /\ Contains(cpusLibres, c) /\ SinRepetir(Tail(cpusLibres))
          /\ \A x : Contains(Tail(cpusLibres), x) <=> Contains(cpusLibres, x) /\ x # c
    BY <1>0, <1>4, ContieneTail DEF SinRepetir, cortoSelecciona
  <2>1. /\ corto.c = Nadie /\ cpusLibres' = Tail(cpusLibres)
        /\ corto'.pc = "ejecutar" /\ corto'.c = c
        /\ aCpu' = aCpu /\ deCpu' = deCpu /\ cpu' = cpu /\ manejador' = manejador
    BY <1>0, <1>4, <2>0 DEF cortoSelecciona, enCPU
  <2>2. /\ Contains(cpusLibres, c) /\ SinRepetir(cpusLibres')
        /\ \A x : Contains(cpusLibres', x) <=> Contains(cpusLibres, x) /\ x # c
    BY <2>0, <2>1
  <2>3. ASSUME NEW d \in CPUs \ {c}
        PROVE  TurnoDe(d)'
    <3>1. OtraIgual(d)
      BY <1>0, <2>1, ExtiendeMismo DEF OtraIgual, Canales
    <3>2. Contains(cpusLibres', d) <=> Contains(cpusLibres, d)
      BY <2>2
    <3>3. corto'.c = d <=> corto.c = d
      BY <1>0, <2>1
    <3> QED BY <3>1, <3>2, <3>3, TurnoDeOtra DEF TurnoCPU
  <2>4. TurnoDe(c)'
    <3>1. Turno(Contains(cpusLibres, c), corto.c = c, aCpu[c], deCpu[c], cpu[c], manejador[c])
      BY <2>2 DEF TurnoCPU, TurnoDe
    <3> DEFINE libre == Contains(cpusLibres, c)
               libre2 == Contains(cpusLibres', c)
               elegida == corto.c = c
               elegida2 == corto'.c = c
    <3>2. libre /\ ~libre2
      BY <2>2
    <3>3. Turno(libre, elegida, aCpu[c], deCpu[c], cpu[c], manejador[c])
      BY <3>1
    <3>4. Turno(libre2, elegida2, aCpu[c], deCpu[c], cpu[c], manejador[c])
          => Turno(Contains(cpusLibres', c), corto'.c = c, aCpu'[c], deCpu'[c], cpu'[c], manejador'[c])
      BY <2>1
    <3> HIDE DEF libre, libre2, elegida, elegida2
    <3>5. Turno(Contains(cpusLibres', c), corto'.c = c, aCpu'[c], deCpu'[c], cpu'[c], manejador'[c])
      BY <3>2, <3>3, <3>4, TurnoElegido
    <3> QED BY <3>5 DEF TurnoDe
  <2> QED BY <2>1, <2>2, <2>3, <2>4 DEF TurnoCPU
<1>5. CASE cortoEnvia
  <2>0. PICK c \in CPUs : c = corto.c
    BY <1>0, <1>5 DEF cortoEnvia, FormaCorto
  <2>1. PICK m \in MensajesAlCPU :
          /\ m.tipo = "PID" /\ aCpu' = Enviado(aCpu, c, m) /\ corto'.c = Nadie
          /\ cpusLibres' = cpusLibres /\ deCpu' = deCpu /\ cpu' = cpu /\ manejador' = manejador
    <3> DEFINE m == PidEnviado(corto.p)
    <3>1. m \in MensajesAlCPU /\ m.tipo = "PID"
      BY <1>0, <1>5 DEF cortoEnvia, FormaCorto, PidEnviado, Msj, MensajesAlCPU
    <3>2. /\ aCpu' = Enviado(aCpu, c, m) /\ corto'.c = Nadie
          /\ cpusLibres' = cpusLibres /\ deCpu' = deCpu /\ cpu' = cpu /\ manejador' = manejador
      BY <1>0, <1>5, <2>0 DEF cortoEnvia, enKS, enCPU
    <3> HIDE DEF m
    <3> QED BY <3>1, <3>2
  <2>2. /\ \A d \in CPUs \ {c} : aCpu'[d] = aCpu[d]
        /\ aCpu'[c] = aCpu[c] \/ aCpu'[c] = Append(aCpu[c], m)
    BY <1>0, <2>1, EnviadoExacto
  <2>3. ASSUME NEW d \in CPUs \ {c}
        PROVE  TurnoDe(d)'
    <3>1. OtraIgual(d)
      BY <1>0, <2>1, <2>2, ExtiendeMismo DEF OtraIgual, Canales
    <3>2. corto'.c = d <=> corto.c = d
      BY <1>0, <2>0, <2>1
    <3> QED BY <2>1, <3>1, <3>2, TurnoDeOtra DEF TurnoCPU
  <2>4. TurnoDe(c)'
    <3> DEFINE libre == Contains(cpusLibres, c)
               elegida == corto.c = c
               elegida2 == corto'.c = c
    <3>1. Turno(libre, elegida, aCpu[c], deCpu[c], cpu[c], manejador[c])
      BY <2>1 DEF TurnoCPU, TurnoDe
    <3>2. elegida /\ ~elegida2
      BY <1>0, <2>0, <2>1
    <3>3. aCpu[c] \in Seq(MensajesAlCPU)
      BY <1>0, <2>1 DEF Canales
    <3>4. Turno(libre, elegida2, aCpu'[c], deCpu[c], cpu[c], manejador[c])
          => Turno(Contains(cpusLibres', c), corto'.c = c, aCpu'[c], deCpu'[c], cpu'[c], manejador'[c])
      BY <2>1
    <3> HIDE DEF libre, elegida, elegida2
    <3>6. Turno(Contains(cpusLibres', c), corto'.c = c, aCpu'[c], deCpu'[c], cpu'[c], manejador'[c])
      <4>1. ASSUME NEW b, b = aCpu[c] \/ b = Append(aCpu[c], m)
            PROVE  Turno(libre, elegida2, b, deCpu[c], cpu[c], manejador[c])
        BY <2>1, <3>1, <3>2, <3>3, <4>1, TurnoEnviado
      <4> QED BY <2>2, <3>4, <4>1
    <3> QED BY <3>6 DEF TurnoDe
  <2> QED BY <1>0, <2>1, <2>3, <2>4 DEF TurnoCPU
<1> QED BY <1>1, <1>2, <1>3, <1>4, <1>5 DEF Corto


\* What a step of the module of CPU c leaves alone.
LEMMA TurnoDelModulo ==
  ASSUME Bien, Bien', TurnoCPU, NEW c \in CPUs, UNCHANGED <<enKS, corto, manejador>>,
         \A d \in CPUs \ {c} : aCpu'[d] = aCpu[d] /\ deCpu'[d] = deCpu[d] /\ cpu'[d] = cpu[d],
         Turno(Contains(cpusLibres, c), corto.c = c, aCpu'[c], deCpu'[c], cpu'[c], manejador[c])
  PROVE  TurnoCPU'
<1>1. cpusLibres' = cpusLibres /\ corto' = corto /\ manejador' = manejador
  BY DEF enKS
<1>2. ASSUME NEW d \in CPUs \ {c}
      PROVE  OtraIgual(d)
  BY <1>1, ExtiendeMismo DEF OtraIgual, Bien, TypeOK
<1> QED BY <1>1, <1>2, TurnoDeUna

\* Steps of the CPU modules.
LEMMA TurnoModulo ==
  ASSUME Bien, Bien', TurnoCPU, NEW c \in CPUs, ModuloCPU(c) \/ caer(c)
  PROVE  TurnoCPU'
<1> DEFINE libre == Contains(cpusLibres, c)
           elegida == corto.c = c
           e == cpu[c]
           d == deCpu[c]
           h == manejador[c]
           a == aCpu[c]
           Meta == Turno(Contains(cpusLibres, c), corto.c = c, aCpu'[c], deCpu'[c], cpu'[c], manejador[c])
<1>0. /\ Turno(libre, elegida, a, d, e, h) /\ e \in EstadoCPU /\ cpu \in [CPUs -> EstadoCPU]
      /\ a \in Seq(MensajesAlCPU) /\ d \in Seq(MensajesDelCPU) /\ FormaCPU
      /\ e.modo \in {"ejecuta", "respuesta", "ack"} => e.pid \in Procesos
      /\ e.modo = "respuesta" => e.sys \in ConRespuesta
  BY DEF TurnoCPU, TurnoDe, Bien, TypeOK, EstadoCPU, Formas, FormaCPU
<1>1. ASSUME NEW k2, cpu' = [cpu EXCEPT ![c] = k2]
      PROVE  cpu'[c] = k2 /\ \A x \in CPUs \ {c} : cpu'[x] = cpu[x]
  BY <1>0, <1>1
<1>2. ASSUME Recibe(c)
      PROVE  a # << >> /\ aCpu'[c] = Tail(a) /\ \A x \in CPUs \ {c} : aCpu'[x] = aCpu[x]
  BY <1>2, RecibeTipo
<1>3. /\ CPUEn("espera").modo = "espera" /\ CPUEn("caida").modo = "caida" /\ CPUEn("ejecuta").modo = "ejecuta"
      /\ \A q : [CPUEn("ejecuta") EXCEPT !.pid = q].modo = "ejecuta"
  BY DEF CPUEn
<1>4. ASSUME NEW tipo \in ConRespuesta \cup Bloqueantes \cup {"DONE", "SEG_FAULT", "INTERRUPCION_ATENDIDA"},
             NEW arg \in Args, deCpu' = Pedido(c, tipo, arg), e.pid \in Procesos
      PROVE  /\ deCpu'[c] = Append(d, Msj(tipo, e.pid, arg))
             /\ \A y \in CPUs \ {c} : deCpu'[y] = deCpu[y]
             /\ Msj(tipo, e.pid, arg) \in MensajesDelCPU /\ Msj(tipo, e.pid, arg).tipo = tipo
  <2>1. deCpu \in [CPUs -> Seq(MensajesDelCPU)]
    BY DEF Bien, TypeOK
  <2>2. Msj(tipo, e.pid, arg) \in MensajesDelCPU /\ Msj(tipo, e.pid, arg).tipo = tipo
    BY <1>4 DEF Msj, MensajesDelCPU
  <2> QED BY <1>4, <2>1, <2>2 DEF Pedido
<1>5. ASSUME Recibe(c), deCpu' = deCpu, NEW k2, cpu' = [cpu EXCEPT ![c] = k2],
             UNCHANGED <<enKS, corto, manejador>>,
             \/ k2.modo = "caida" /\ e.modo # "desconectada"
             \/ k2 = e /\ e.modo = "espera" /\ Head(a).tipo # "PID"
             \/ k2.modo = "espera" /\ e.modo = "ack"
             \/ k2.modo = "espera" /\ e.modo = "respuesta" /\ Head(a).tipo = "BLOQUEADO"
             \/ k2.modo = e.modo /\ k2.sys = e.sys /\ k2.pid = e.pid /\ k2.arg = e.arg
                /\ Head(a).tipo = "INTERRUPT"
             \/ k2.modo = "ejecuta" /\ e.modo = "espera" /\ Head(a).tipo = "PID"
      PROVE  TurnoCPU'
  <2>1. a # << >> /\ aCpu'[c] = Tail(a) /\ \A x \in CPUs \ {c} : aCpu'[x] = aCpu[x]
    BY <1>2, <1>5
  <2>2. cpu'[c] = k2 /\ \A x \in CPUs \ {c} : cpu'[x] = cpu[x]
    BY <1>1, <1>5
  <2>3. Turno(libre, elegida, Tail(a), d, k2, h)
    <3> HIDE DEF libre, elegida, a, d, e, h
    <3> QED BY <1>0, <1>5, <2>1, TurnoRecibe
  <2>4. Meta
    BY <1>5, <2>1, <2>2, <2>3
  <2> QED BY <1>5, <2>1, <2>2, <2>4, TurnoDelModulo
<1>6. ASSUME e.modo = "ejecuta", aCpu' = aCpu, NEW k2, cpu' = [cpu EXCEPT ![c] = k2],
             UNCHANGED <<enKS, corto, manejador>>, NEW m \in MensajesDelCPU,
             deCpu'[c] = Append(d, m), \A y \in CPUs \ {c} : deCpu'[y] = deCpu[y],
             \/ k2.modo \in {"espera", "ack"} /\ m.tipo # "MUTEX_LOCK"
             \/ k2.modo = "respuesta" /\ m = Msj(k2.sys, k2.pid, k2.arg)
      PROVE  TurnoCPU'
  <2>2. cpu'[c] = k2 /\ \A x \in CPUs \ {c} : cpu'[x] = cpu[x]
    BY <1>1, <1>6
  <2>3. Turno(libre, elegida, a, Append(d, m), k2, h)
    <3> HIDE DEF libre, elegida, a, d, e, h
    <3> QED BY <1>0, <1>6, TurnoPide
  <2>4. Meta
    BY <1>6, <2>2, <2>3
  <2> QED BY <1>6, <2>2, <2>4, TurnoDelModulo
<1>7. CASE esperarPid(c)
  <2>1. Recibe(c) /\ e.modo = "espera" /\ deCpu' = deCpu /\ UNCHANGED <<enKS, corto, manejador>>
    BY <1>7 DEF esperarPid
  <2>2. CASE Head(a).tipo = "PID"
    <3> DEFINE k2 == [CPUEn("ejecuta") EXCEPT !.pid = Head(a).pid]
    <3>1. cpu' = [cpu EXCEPT ![c] = k2] /\ k2.modo = "ejecuta"
      BY <1>3, <1>7, <2>2 DEF esperarPid
    <3> HIDE DEF k2
    <3> QED BY <1>5, <2>1, <2>2, <3>1
  <2>3. CASE Head(a).tipo # "PID"
    <3>1. cpu' = [cpu EXCEPT ![c] = e]
      BY <1>0, <1>7, <2>3 DEF esperarPid
    <3> QED BY <1>5, <2>1, <2>3, <3>1
  <2> QED BY <2>2, <2>3
<1>8. CASE syscallConRespuesta(c)
  <2>1. PICK s \in ConRespuesta, arg \in Args :
          /\ deCpu' = Pedido(c, s, arg)
          /\ cpu' = [cpu EXCEPT ![c].modo = "respuesta", ![c].sys = s, ![c].arg = arg]
    BY <1>8 DEF syscallConRespuesta, ArgsDe, Args
  <2>2. e.modo = "ejecuta" /\ aCpu' = aCpu /\ UNCHANGED <<enKS, corto, manejador>> /\ e.pid \in Procesos
    BY <1>0, <1>8 DEF syscallConRespuesta
  <2> DEFINE k2 == [e EXCEPT !.modo = "respuesta", !.sys = s, !.arg = arg]
  <2>3. /\ cpu' = [cpu EXCEPT ![c] = k2] /\ k2.modo = "respuesta"
        /\ Msj(k2.sys, k2.pid, k2.arg) = Msj(s, e.pid, arg)
    BY <1>0, <2>1 DEF EstadoCPU, Msj
  <2> DEFINE m == Msj(s, e.pid, arg)
  <2>4. m \in MensajesDelCPU /\ deCpu'[c] = Append(d, m) /\ \A y \in CPUs \ {c} : deCpu'[y] = deCpu[y]
    BY <1>4, <2>1, <2>2
  <2> HIDE DEF k2, m
  <2> QED BY <1>6, <2>2, <2>3, <2>4 DEF m
<1>9. CASE syscallBloqueante(c) \/ syscallExit(c) \/ manejarSegFault(c)
  <2>0. PICK s \in Bloqueantes \cup {"DONE", "SEG_FAULT"} : \E k2 :
          /\ deCpu' = Pedido(c, s, Nadie)
          /\ cpu' = [cpu EXCEPT ![c] = k2] /\ k2.modo \in {"espera", "ack"}
    <3>1. CASE syscallBloqueante(c) \/ syscallExit(c)
      BY <1>3, <3>1 DEF syscallBloqueante, syscallExit
    <3>2. CASE manejarSegFault(c)
      <4> DEFINE k2 == [e EXCEPT !.modo = "ack"]
      <4>1. cpu' = [cpu EXCEPT ![c] = k2] /\ k2.modo = "ack" /\ deCpu' = Pedido(c, "SEG_FAULT", Nadie)
        BY <1>0, <3>2 DEF manejarSegFault, EstadoCPU
      <4> HIDE DEF k2
      <4> QED BY <4>1
    <3> QED BY <1>9, <3>1, <3>2
  <2>1. PICK k2 : deCpu' = Pedido(c, s, Nadie) /\ cpu' = [cpu EXCEPT ![c] = k2] /\ k2.modo \in {"espera", "ack"}
    BY <2>0
  <2>2. e.modo = "ejecuta" /\ aCpu' = aCpu /\ UNCHANGED <<enKS, corto, manejador>> /\ e.pid \in Procesos
    BY <1>0, <1>9 DEF syscallBloqueante, syscallExit, manejarSegFault
  <2> DEFINE m == Msj(s, e.pid, Nadie)
  <2>3. Nadie \in Args /\ s # "MUTEX_LOCK"
    BY DEF Args, Bloqueantes
  <2>4. /\ m \in MensajesDelCPU /\ deCpu'[c] = Append(d, m) /\ m.tipo = s
        /\ \A y \in CPUs \ {c} : deCpu'[y] = deCpu[y]
    BY <1>4, <2>1, <2>2, <2>3
  <2> HIDE DEF m
  <2> QED BY <1>6, <2>1, <2>2, <2>3, <2>4
<1>10. CASE confirmarSegFault(c) \/ guardarInterrupcion(c) \/ recibirBloqueado(c) \/ respuestaInesperada(c)
  <2>1. Recibe(c) /\ deCpu' = deCpu /\ UNCHANGED <<enKS, corto, manejador>>
    BY <1>10 DEF confirmarSegFault, guardarInterrupcion, recibirBloqueado, respuestaInesperada
  <2>2. CASE confirmarSegFault(c) \/ recibirBloqueado(c) \/ respuestaInesperada(c)
    BY <1>3, <1>5, <2>1, <2>2 DEF confirmarSegFault, recibirBloqueado, respuestaInesperada
  <2>3. CASE guardarInterrupcion(c)
    <3> DEFINE k2 == [e EXCEPT !.pend = {Head(a)}]
    <3>1. /\ cpu' = [cpu EXCEPT ![c] = k2] /\ Head(a).tipo = "INTERRUPT" /\ k2.modo = e.modo
          /\ k2.sys = e.sys /\ k2.pid = e.pid /\ k2.arg = e.arg
      BY <1>0, <2>3 DEF guardarInterrupcion, EstadoCPU
    <3> HIDE DEF k2
    <3> QED BY <1>5, <2>1, <3>1
  <2> QED BY <1>10, <2>2, <2>3
<1>11. CASE atenderInterrupcion(c)
  <2>1. /\ Recibe(c) /\ e.modo = "ejecuta" /\ UNCHANGED <<enKS, corto, manejador>> /\ e.pid \in Procesos
        /\ a # << >> /\ Head(a) \in MensajesAlCPU
    BY <1>0, <1>11, RecibeTipo DEF atenderInterrupcion
  <2>2. CASE /\ Head(a).tipo = "INTERRUPT" /\ deCpu' = deCpu /\ cpu' = cpu
    <3>1. cpu' = [cpu EXCEPT ![c] = e]
      BY <1>0, <2>2
    <3> QED BY <1>5, <2>1, <2>2, <3>1
  <2>3. CASE Head(a).tipo # "INTERRUPT" /\ deCpu' = deCpu /\ cpu' = [cpu EXCEPT ![c] = CPUEn("caida")]
    <3>1. CPUEn("caida").modo = "caida" /\ e.modo # "desconectada"
      BY <1>3, <2>1
    <3> QED BY <1>5, <2>1, <2>3, <3>1
  <2>4. CASE /\ Head(a).tipo = "INTERRUPT" /\ deCpu' = Pedido(c, "INTERRUPCION_ATENDIDA", Head(a).arg)
             /\ cpu' = [cpu EXCEPT ![c] = CPUEn("espera")]
    <3> DEFINE m == Msj("INTERRUPCION_ATENDIDA", e.pid, Head(a).arg)
    <3>1. Head(a).arg \in Args
      BY <2>1, <2>4 DEF MensajesAlCPU, Args
    <3>2. /\ m \in MensajesDelCPU /\ deCpu'[c] = Append(d, m) /\ m.tipo = "INTERRUPCION_ATENDIDA"
          /\ \A y \in CPUs \ {c} : deCpu'[y] = deCpu[y]
      BY <1>4, <2>1, <2>4, <3>1
    <3> HIDE DEF m
    <3>3. aCpu'[c] = Tail(a) /\ \A x \in CPUs \ {c} : aCpu'[x] = aCpu[x]
      BY <1>2, <2>1
    <3>4. cpu'[c] = CPUEn("espera") /\ \A x \in CPUs \ {c} : cpu'[x] = cpu[x]
      BY <1>1, <2>4
    <3>5. Turno(libre, elegida, Tail(a), d, e, h)
      <4> HIDE DEF libre, elegida, a, d, e, h
      <4> QED BY <1>0, <2>1, <2>4, TurnoRecibe
    <3>6. Tail(a) \in Seq(MensajesAlCPU)
      BY <1>0, <2>1
    <3>7. Turno(libre, elegida, Tail(a), Append(d, m), CPUEn("espera"), h)
      <4> HIDE DEF libre, elegida, a, d, e, h
      <4> QED BY <1>3, <2>1, <3>2, <3>5, <3>6, TurnoPide
    <3>8. Meta
      BY <3>2, <3>3, <3>4, <3>7
    <3> QED BY <2>1, <3>2, <3>3, <3>4, <3>8, TurnoDelModulo
  <2> QED BY <1>11, <2>2, <2>3, <2>4 DEF atenderInterrupcion
<1>12. CASE recibirRespuesta(c)
  <2>1. /\ Recibe(c) /\ e.modo = "respuesta" /\ UNCHANGED <<enKS, corto, manejador>> /\ e.pid \in Procesos
        /\ a # << >> /\ Head(a) \in MensajesAlCPU /\ DejaSyscall(c) /\ e.sys \in ConRespuesta
    BY <1>0, <1>12, RecibeTipo DEF recibirRespuesta
  <2>2. Head(a).tipo = "OK" \/ (e.sys \in {"MEM_ALLOC", "INIT_PROC"} /\ (Head(a).tipo = "INTERRUPT" => e.pend # {}))
    BY <1>12 DEF recibirRespuesta, AceptaCualquiera
  <2> DEFINE k2 == IF e.pend = {} THEN [CPUEn("ejecuta") EXCEPT !.pid = e.pid] ELSE CPUEn("espera")
  <2>3. /\ cpu' = [cpu EXCEPT ![c] = k2] /\ k2.modo \in {"espera", "ejecuta"}
        /\ Head(a).tipo = "INTERRUPT" => k2.modo = "espera"
        /\ e.pend # {} => k2.modo = "espera"
    <3>1. cpu' = [cpu EXCEPT ![c] = k2]
      BY <2>1 DEF DejaSyscall
    <3>2. k2.modo = IF e.pend = {} THEN "ejecuta" ELSE "espera"
      BY <1>3
    <3> QED BY <2>2, <3>1, <3>2
  <2>4. PICK m \in MensajesDelCPU :
          /\ m.tipo = "INTERRUPCION_ATENDIDA"
          /\ deCpu'[c] = d \/ (e.pend # {} /\ deCpu'[c] = Append(d, m))
          /\ \A y \in CPUs \ {c} : deCpu'[y] = deCpu[y]
    <3>1. CASE deCpu' = deCpu
      <4> DEFINE m == Msj("INTERRUPCION_ATENDIDA", e.pid, Nadie)
      <4>1. m \in MensajesDelCPU /\ m.tipo = "INTERRUPCION_ATENDIDA"
        BY <2>1 DEF Msj, MensajesDelCPU, Args
      <4> HIDE DEF m
      <4> QED BY <3>1, <4>1
    <3>2. CASE deCpu' # deCpu
      <4>1. PICK i \in e.pend : deCpu' = Pedido(c, "INTERRUPCION_ATENDIDA", i.arg)
        BY <2>1, <3>2 DEF DejaSyscall
      <4>2. i \in MensajesAlCPU /\ i.tipo = "INTERRUPT"
        BY <1>0 DEF EstadoCPU, FormaCPU
      <4>3. i.arg \in Args
        BY <4>2 DEF MensajesAlCPU, Args
      <4> DEFINE m == Msj("INTERRUPCION_ATENDIDA", e.pid, i.arg)
      <4>4. /\ m \in MensajesDelCPU /\ deCpu'[c] = Append(d, m) /\ m.tipo = "INTERRUPCION_ATENDIDA"
            /\ \A y \in CPUs \ {c} : deCpu'[y] = deCpu[y]
        BY <1>4, <2>1, <4>1, <4>3
      <4> HIDE DEF m
      <4> QED BY <4>4
    <3> QED BY <3>1, <3>2
  <2> HIDE DEF k2
  <2>5. aCpu'[c] = Tail(a) /\ \A x \in CPUs \ {c} : aCpu'[x] = aCpu[x]
    BY <1>2, <2>1
  <2>6. cpu'[c] = k2 /\ \A x \in CPUs \ {c} : cpu'[x] = cpu[x]
    BY <1>1, <2>3
  <2>7. ASSUME NEW d2, d2 = d \/ (k2.modo = "espera" /\ d2 = Append(d, m))
        PROVE  Turno(libre, elegida, Tail(a), d2, k2, h)
    <3> HIDE DEF libre, elegida, a, d, e, h
    <3> QED BY <1>0, <2>1, <2>2, <2>3, <2>4, <2>7, TurnoDeja
  <2>8. Turno(libre, elegida, Tail(a), deCpu'[c], k2, h)
    BY <2>3, <2>4, <2>7
  <2>9. Meta
    BY <2>5, <2>6, <2>8
  <2> QED BY <2>1, <2>4, <2>5, <2>6, <2>9, TurnoDelModulo
<1>13. CASE caer(c)
  <2>1. /\ e.modo # "desconectada" /\ aCpu' = aCpu /\ deCpu' = deCpu /\ UNCHANGED <<enKS, corto, manejador>>
        /\ cpu' = [cpu EXCEPT ![c] = CPUEn("caida")]
    BY <1>13 DEF caer, Conectadas
  <2>2. cpu'[c] = CPUEn("caida") /\ \A x \in CPUs \ {c} : cpu'[x] = cpu[x]
    BY <1>1, <2>1
  <2>3. Turno(libre, elegida, a, d, CPUEn("caida"), h)
    <3> DEFINE k2 == CPUEn("caida")
    <3>1. k2.modo = "caida"
      BY <1>3
    <3> HIDE DEF libre, elegida, a, d, e, h, k2
    <3>2. Turno(libre, elegida, a, d, k2, h)
      BY <1>0, <2>1, <3>1 DEF Turno, Corre
    <3> QED BY <3>2 DEF k2
  <2>4. Meta
    BY <2>1, <2>2, <2>3
  <2> QED BY <2>1, <2>2, <2>4, TurnoDelModulo
<1> QED BY <1>7, <1>8, <1>9, <1>10, <1>11, <1>12, <1>13 DEF ModuloCPU


\* Who asks for a mutex runs on the CPU its PCB names, until it is answered.
FdDeLocks ==
  \A c \in CPUs :
    /\ \A i \in 1..Len(deCpu[c]) : deCpu[c][i].tipo = "MUTEX_LOCK" => t.fdCpu[deCpu[c][i].pid] = c
    /\ manejador[c].pc = "avisar" => t.fdCpu[manejador[c].pid] = c

\* Steps of the handlers.
LEMMA TurnoManejador ==
  ASSUME Bien, Bien', TurnoCPU, FdDeLocks, NEW c \in CPUs, Manejador(c)
  PROVE  TurnoCPU'
<1> DEFINE libre == Contains(cpusLibres, c)
           libre2 == Contains(cpusLibres', c)
           elegida == corto.c = c
           e == cpu[c]
           d == deCpu[c]
           h == manejador[c]
           a == aCpu[c]
           Meta == Turno(Contains(cpusLibres', c), corto.c = c, aCpu'[c], deCpu'[c], cpu'[c], manejador'[c])
           Lista == \/ cpusLibres' = cpusLibres
                    \/ LiberarCPU(c) /\ ~Contains(cpusLibres, c)
                    \/ cpusLibres' = RemoveFirst(cpusLibres, c)
           OtrasIgual == \A x \in CPUs \ {c} : /\ aCpu'[x] = aCpu[x] /\ deCpu'[x] = deCpu[x]
                                               /\ cpu'[x] = cpu[x] /\ manejador'[x] = manejador[x]
<1>0. /\ Turno(libre, elegida, a, d, e, h) /\ aCpu \in Canales /\ cpusLibres \in Seq(CPUs)
      /\ a \in Seq(MensajesAlCPU) /\ d \in Seq(MensajesDelCPU) /\ FormaCPU /\ FormaManejador
      /\ e.modo = "respuesta" => e.sys \in ConRespuesta
      /\ manejador \in [CPUs -> EstadoManejador] /\ cpu \in [CPUs -> EstadoCPU]
      /\ deCpu \in [CPUs -> Seq(MensajesDelCPU)] /\ SinRepetir(cpusLibres) /\ t \in Tabla
  BY DEF TurnoCPU, TurnoDe, Bien, TypeOK, EstadoCPU, Formas, FormaCPU, Canales, EstadoManejador
<1>1. ASSUME Lista, OtrasIgual, corto' = corto, Meta
      PROVE  TurnoCPU'
  <2>1. ASSUME NEW x \in CPUs \ {c}
        PROVE  OtraIgual(x)
    BY <1>0, <1>1, ExtiendeMismo DEF OtraIgual, Canales
  <2> QED BY <1>1, <2>1, TurnoDeUna
<1>2. ASSUME NEW tipo, Atiende(c, tipo)
      PROVE  /\ h.pc = "libre" /\ d # << >> /\ Head(d).tipo = tipo /\ deCpu'[c] = Tail(d)
             /\ \A x \in CPUs \ {c} : deCpu'[x] = deCpu[x]
             /\ Head(d) \in MensajesDelCPU /\ Head(d).pid \in Procesos
  BY <1>2, AtiendeTipo
<1>3. ASSUME NEW pc, NEW p, NEW arg, Sigue(c, pc, p, arg)
      PROVE  manejador'[c].pc = pc /\ \A x \in CPUs \ {c} : manejador'[x] = manejador[x]
  BY <1>0, <1>3 DEF Sigue
<1>4. ASSUME Termina(c)
      PROVE  manejador'[c].pc = "libre" /\ \A x \in CPUs \ {c} : manejador'[x] = manejador[x]
  BY <1>0, <1>4 DEF Termina, ManejadorLibre
<1>5. ASSUME NEW tipo \in {"OK", "ERROR", "BLOQUEADO"}, Responde(c, tipo)
      PROVE  /\ \A x \in CPUs \ {c} : aCpu'[x] = aCpu[x]
             /\ \/ aCpu'[c] = Append(a, Respuesta(tipo))
                \/ aCpu'[c] = a /\ e.modo \in {"desconectada", "caida"}
  <2>1. Respuesta(tipo) \in MensajesAlCPU
    BY DEF Respuesta, Msj, MensajesAlCPU
  <2> QED BY <1>0, <1>5, <2>1, EnviadoExacto DEF Responde
\* A message after which the CPU is free.
<1>6. ASSUME d # << >>, Head(d).tipo \in Liberan, h.pc = "libre", deCpu'[c] = Tail(d), cpu' = cpu,
             manejador'[c].pc \in {"libre", "desalojado"}, corto' = corto, OtrasIgual,
             aCpu'[c] = a \/ (Head(d).tipo = "SEG_FAULT" /\ aCpu'[c] = Append(a, Respuesta("OK"))),
             cpusLibres' = cpusLibres \/ LiberarCPU(c)
      PROVE  TurnoCPU'
  <2>1. ASSUME NEW b, NEW h2, h2.pc \in {"libre", "desalojado"},
               b = a \/ (Head(d).tipo = "SEG_FAULT" /\ b = Append(a, Respuesta("OK")))
        PROVE  ~libre /\ Turno(libre2, elegida, b, Tail(d), e, h2)
    <3>1. /\ d # << >> /\ Head(d).tipo \in Liberan /\ h.pc = "libre"
          /\ a \in Seq(MensajesAlCPU) /\ d \in Seq(MensajesDelCPU) /\ Turno(libre, elegida, a, d, e, h)
          /\ e.modo = "respuesta" => e.sys \in ConRespuesta
      BY <1>0, <1>6
    <3> HIDE DEF libre, libre2, elegida, e, a, d, h
    <3> QED BY <2>1, <3>1, TurnoLiberado
  <2>2. ~libre /\ Turno(libre2, elegida, aCpu'[c], Tail(d), e, manejador'[c])
    BY <1>6, <2>1
  <2>3. Meta /\ Lista
    BY <1>6, <2>2
  <2> QED BY <1>1, <1>6, <2>3
<1>7. CASE atenderDone(c)
  <2>1. Atiende(c, "DONE") /\ LiberarCPU(c) /\ aCpu' = aCpu /\ cpu' = cpu /\ manejador' = manejador /\ corto' = corto
    BY <1>7 DEF atenderDone
  <2>2. Head(d).tipo \in Liberan
    BY <1>2, <2>1 DEF Liberan
  <2> QED BY <1>2, <1>6, <2>1, <2>2
<1>8. CASE atenderSegFault(c)
  <2>1. /\ Atiende(c, "SEG_FAULT") /\ LiberarCPU(c) /\ Responde(c, "OK") /\ cpu' = cpu
        /\ manejador' = manejador /\ corto' = corto
    BY <1>8 DEF atenderSegFault
  <2>2. Head(d).tipo \in Liberan
    BY <1>2, <2>1 DEF Liberan
  <2> QED BY <1>2, <1>5, <1>6, <2>1, <2>2
<1>9. CASE atenderSleep(c)
  <2>1. Atiende(c, "SLEEP") /\ LiberarCPU(c) /\ aCpu' = aCpu /\ cpu' = cpu /\ manejador' = manejador /\ corto' = corto
    BY <1>9 DEF atenderSleep
  <2>2. Head(d).tipo \in Liberan
    BY <1>2, <2>1 DEF Liberan
  <2> QED BY <1>2, <1>6, <2>1, <2>2
<1>10. CASE atenderInterrupcionAtendida(c)
  <2>1. Atiende(c, "INTERRUPCION_ATENDIDA") /\ aCpu' = aCpu /\ cpu' = cpu /\ corto' = corto
    BY <1>10 DEF atenderInterrupcionAtendida
  <2>2. Head(d).tipo \in Liberan
    BY <1>2, <2>1 DEF Liberan
  <2>3. /\ cpusLibres' = cpusLibres \/ LiberarCPU(c)
        /\ manejador' = manejador \/ Sigue(c, "desalojado", Head(d).pid, Head(d).arg)
    BY <1>10 DEF atenderInterrupcionAtendida
  <2>4. manejador'[c].pc \in {"libre", "desalojado"} /\ \A x \in CPUs \ {c} : manejador'[x] = manejador[x]
    BY <1>2, <1>3, <2>1, <2>3
  <2> QED BY <1>2, <1>6, <2>1, <2>2, <2>3, <2>4
\* A call is answered.
<1>11. ASSUME NEW tipo \in ConRespuesta, Atiende(c, tipo), NEW r \in {"OK", "ERROR"}, Responde(c, r), cpu' = cpu,
              manejador' = manejador, corto' = corto, cpusLibres' = cpusLibres
       PROVE  TurnoCPU'
  <2>1. /\ h.pc = "libre" /\ d # << >> /\ Head(d).tipo = tipo /\ deCpu'[c] = Tail(d)
        /\ \A x \in CPUs \ {c} : deCpu'[x] = deCpu[x]
    BY <1>2, <1>11
  <2>2. /\ \A x \in CPUs \ {c} : aCpu'[x] = aCpu[x]
        /\ \/ aCpu'[c] = Append(a, Respuesta(r))
           \/ aCpu'[c] = a /\ e.modo \in {"desconectada", "caida"}
    BY <1>5, <1>11
  <2>3. ASSUME NEW b, b = Append(a, Respuesta(r)) \/ (b = a /\ e.modo \in {"desconectada", "caida"})
        PROVE  Turno(libre, elegida, b, Tail(d), e, h)
    <3> HIDE DEF libre, libre2, elegida, e, a, d, h
    <3> QED BY <1>0, <1>11, <2>1, <2>3, TurnoRespondido
  <2>4. Turno(libre, elegida, aCpu'[c], Tail(d), e, h)
    BY <2>2, <2>3
  <2>5. Meta
    BY <1>11, <2>1, <2>4
  <2> QED BY <1>1, <1>11, <2>1, <2>2, <2>5
<1>12. CASE mutex_create(c) \/ mutex_unlock_ajeno(c) \/ crear_proceso(c) \/ km_mem_alloc(c)
  <2>1. "MUTEX_CREATE" \in ConRespuesta /\ "MUTEX_UNLOCK" \in ConRespuesta /\ "INIT_PROC" \in ConRespuesta
        /\ "MEM_ALLOC" \in ConRespuesta
    BY DEF ConRespuesta
  <2> QED BY <1>11, <1>12, <2>1 DEF mutex_create, mutex_unlock_ajeno, crear_proceso, km_mem_alloc, enKS
\* The answer to MUTEX_LOCK goes to the CPU of the PCB, which is this one.
<1>13. ASSUME Atiende(c, "MUTEX_LOCK")
       PROVE  t.fdCpu[Head(d).pid] = c
  <2>1. 1 \in 1..Len(d) /\ Head(d) = d[1]
    <3>1. Len(d) \in Nat \ {0} /\ Head(d) = d[1]
      BY <1>0, <1>2, <1>13, HeadTailProperties, EmptySeq, LenProperties
    <3> QED BY <3>1
  <2>2. d[1].tipo = "MUTEX_LOCK"
    BY <1>2, <1>13, <2>1
  <2> QED BY <2>1, <2>2 DEF FdDeLocks
<1>14. CASE mutex_lock_no_existe(c) \/ mutex_lock_libre(c)
  <2>1. /\ Atiende(c, "MUTEX_LOCK") /\ cpu' = cpu /\ manejador' = manejador /\ corto' = corto /\ cpusLibres' = cpusLibres
        /\ \E r \in {"OK", "ERROR"} : Responde(t.fdCpu[Head(d).pid], r)
    BY <1>14 DEF mutex_lock_no_existe, mutex_lock_libre, enKS
  <2>2. "MUTEX_LOCK" \in ConRespuesta
    BY DEF ConRespuesta
  <2> QED BY <1>11, <1>13, <2>1, <2>2
<1>15. CASE mutex_lock_ocupado(c)
  <2> DEFINE m == Head(d)
             duenio == tomador[m.arg]
             nueva == t.prioridad[m.pid]
             tab == cambiarPrioridad(t, duenio, nueva)
             ps == desalojadosPorPrioridad(t, duenio, nueva)
  <2>1. /\ Atiende(c, "MUTEX_LOCK") /\ cpu' = cpu /\ corto' = corto /\ cpusLibres' = cpusLibres
        /\ Sigue(c, "avisar", m.pid, m.arg)
        /\ aCpu' = aCpu \/ (t' = tab /\ aCpu' = Interrumpidas(aCpu, t', ps, 1))
    BY <1>15 DEF mutex_lock_ocupado
  <2> HIDE DEF tab, ps
  <2>2. aCpu' \in Canales /\ \A x \in CPUs : Extiende(aCpu[x], aCpu'[x])
    <3>1. CASE aCpu' = aCpu
      BY <1>0, <3>1, ExtiendeMismo DEF Canales
    <3>2. CASE aCpu' = Interrumpidas(aCpu, t', ps, 1)
      <4>1. t' \in Tabla /\ 1 \in Motivos
        BY DEF Bien, TypeOK, Motivos
      <4> DEFINE n == Interrumpidas(aCpu, t', ps, 1)
      <4>2. n \in Canales /\ SoloInterrumpe(aCpu, n)
        BY <1>0, <4>1, InterrumpidasTipo
      <4>3. aCpu' = n
        BY <3>2
      <4> HIDE DEF n
      <4> QED BY <4>2, <4>3 DEF SoloInterrumpe, Extiende
    <3> QED BY <2>1, <3>1, <3>2
  <2>3. /\ h.pc = "libre" /\ d # << >> /\ Head(d).tipo = "MUTEX_LOCK" /\ deCpu'[c] = Tail(d)
        /\ \A x \in CPUs \ {c} : deCpu'[x] = deCpu[x]
    BY <1>2, <2>1
  <2>4. /\ manejador'[c].pc = "avisar" /\ manejador'[c].pid = Head(d).pid /\ manejador'[c].arg = Head(d).arg
        /\ \A x \in CPUs \ {c} : manejador'[x] = manejador[x]
    <3> DEFINE r == [pc |-> "avisar", pid |-> m.pid, arg |-> m.arg]
    <3>1. /\ manejador' = [manejador EXCEPT ![c] = r] /\ manejador \in [CPUs -> EstadoManejador]
          /\ r.pc = "avisar" /\ r.pid = Head(d).pid /\ r.arg = Head(d).arg
      BY <2>1 DEF Sigue, Bien, TypeOK, EstadoManejador
    <3> HIDE DEF r
    <3> QED BY <3>1
  <2>5. ASSUME NEW h2, h2.pc = "avisar", h2.pid = Head(d).pid, h2.arg = Head(d).arg
        PROVE  Turno(libre, elegida, a, Tail(d), e, h2)
    <3> HIDE DEF libre, libre2, elegida, e, a, d, h
    <3> QED BY <1>0, <2>3, <2>5, TurnoEncolado
  <2>6. aCpu'[c] \in Seq(MensajesAlCPU) /\ Extiende(a, aCpu'[c])
    BY <2>2 DEF Canales
  <2>7. Turno(libre, elegida, aCpu'[c], Tail(d), e, manejador'[c])
    <3> HIDE DEF libre, libre2, elegida, e, a, d, h
    <3> QED BY <1>0, <2>4, <2>5, <2>6, TurnoInterrumpido
  <2>8. Meta
    BY <2>1, <2>3, <2>7
  <2>9. ASSUME NEW x \in CPUs \ {c}
        PROVE  OtraIgual(x)
    BY <2>1, <2>2, <2>3, <2>4 DEF OtraIgual
  <2> QED BY <2>1, <2>8, <2>9, TurnoDeUna
<1>27. CASE avisarBloqueado(c)
  <2>1. /\ h.pc = "avisar" /\ Responde(t.fdCpu[h.pid], "BLOQUEADO") /\ Sigue(c, "bloquear", h.pid, h.arg)
        /\ deCpu' = deCpu /\ cpu' = cpu /\ corto' = corto /\ cpusLibres' = cpusLibres
    BY <1>27 DEF avisarBloqueado, enKS, enCPU
  <2>2. Responde(c, "BLOQUEADO")
    BY <2>1 DEF FdDeLocks
  <2>3. /\ \A x \in CPUs \ {c} : aCpu'[x] = aCpu[x]
        /\ \/ aCpu'[c] = Append(a, Respuesta("BLOQUEADO"))
           \/ aCpu'[c] = a /\ e.modo \in {"desconectada", "caida"}
    BY <1>5, <2>2
  <2>4. manejador'[c].pc = "bloquear" /\ \A x \in CPUs \ {c} : manejador'[x] = manejador[x]
    BY <1>3, <2>1
  <2>5. ASSUME NEW b, NEW h2, h2.pc = "bloquear",
               b = Append(a, Respuesta("BLOQUEADO")) \/ (b = a /\ e.modo \in {"desconectada", "caida"})
        PROVE  Turno(libre, elegida, b, d, e, h2)
    <3> HIDE DEF libre, libre2, elegida, e, a, d, h
    <3> QED BY <1>0, <2>1, <2>5, TurnoAvisado
  <2>6. Turno(libre, elegida, aCpu'[c], d, e, manejador'[c])
    BY <2>3, <2>4, <2>5
  <2>7. Meta
    BY <2>1, <2>6
  <2> QED BY <1>1, <2>1, <2>3, <2>4, <2>7
<1>16. CASE mutex_unlock(c)
  <2> DEFINE m == Head(d)
             original == PrioridadAlSoltar(m.pid)
             con == Enviado(aCpu, c, Respuesta("OK"))
             ps == desalojadosPorPrioridad(t, m.pid, original)
  <2>1. /\ Atiende(c, "MUTEX_UNLOCK") /\ cpu' = cpu /\ corto' = corto /\ cpusLibres' = cpusLibres
        /\ aCpu' = Interrumpidas(con, t', ps, 1)
        /\ manejador' = manejador \/ Sigue(c, "despertar", Head(cola[m.arg]), m.arg)
    BY <1>16 DEF mutex_unlock
  <2>2. t' \in Tabla /\ 1 \in Motivos /\ Respuesta("OK") \in MensajesAlCPU
    BY DEF Bien, TypeOK, Motivos, Respuesta, Msj, MensajesAlCPU
  <2> HIDE DEF ps
  <2>3. /\ con \in Canales /\ \A x \in CPUs \ {c} : con[x] = aCpu[x]
        /\ con[c] = Append(a, Respuesta("OK")) \/ (con[c] = a /\ e.modo \in {"desconectada", "caida"})
    BY <1>0, <2>2, EnviadoExacto
  <2> HIDE DEF con
  <2>4. SoloInterrumpe(con, aCpu')
    BY <2>1, <2>2, <2>3, InterrumpidasTipo
  <2>5. /\ h.pc = "libre" /\ d # << >> /\ Head(d).tipo = "MUTEX_UNLOCK" /\ deCpu'[c] = Tail(d)
        /\ \A x \in CPUs \ {c} : deCpu'[x] = deCpu[x]
    BY <1>2, <2>1
  <2>6. manejador'[c].pc \in {"libre", "despertar"} /\ \A x \in CPUs \ {c} : manejador'[x] = manejador[x]
    BY <1>3, <2>1, <2>5
  <2>7. "MUTEX_UNLOCK" \in ConRespuesta
    BY DEF ConRespuesta
  <2>8. ASSUME NEW b, NEW h2, h2.pc \in {"libre", "despertar"},
               b = Append(a, Respuesta("OK")) \/ (b = a /\ e.modo \in {"desconectada", "caida"})
        PROVE  Turno(libre, elegida, b, Tail(d), e, h2)
    <3> HIDE DEF libre, libre2, elegida, e, a, d, h
    <3> QED BY <1>0, <2>5, <2>7, <2>8, TurnoRespondido
  <2>9. Turno(libre, elegida, con[c], Tail(d), e, manejador'[c])
    BY <2>3, <2>6, <2>8
  <2>10. con[c] \in Seq(MensajesAlCPU) /\ aCpu'[c] \in Seq(MensajesAlCPU) /\ Extiende(con[c], aCpu'[c])
    BY <2>3, <2>4 DEF Canales, SoloInterrumpe, Extiende, Bien, TypeOK
  <2>11. Turno(libre, elegida, aCpu'[c], Tail(d), e, manejador'[c])
    <3> HIDE DEF libre, libre2, elegida, e, a, d, h
    <3> QED BY <2>9, <2>10, TurnoInterrumpido
  <2>12. Meta
    BY <2>1, <2>5, <2>11
  <2>13. ASSUME NEW x \in CPUs \ {c}
         PROVE  OtraIgual(x)
    <3>1. Extiende(aCpu[x], aCpu'[x])
      BY <2>3, <2>4 DEF SoloInterrumpe, Extiende
    <3> QED BY <2>1, <2>5, <2>6, <3>1 DEF OtraIgual
  <2> QED BY <2>1, <2>12, <2>13, TurnoDeUna
\* The handler goes on with what it was doing, and may interrupt other CPUs.
<1>17. ASSUME SoloInterrumpe(aCpu, aCpu') \/ aCpu' = aCpu, deCpu' = deCpu, cpu' = cpu, corto' = corto,
              \A x \in CPUs \ {c} : manejador'[x] = manejador[x],
              cpusLibres' = cpusLibres \/ cpusLibres' = RemoveFirst(cpusLibres, c),
              Turno(libre2, elegida, a, d, e, manejador'[c])
       PROVE  TurnoCPU'
  <2>1. ASSUME NEW x \in CPUs
        PROVE  Extiende(aCpu[x], aCpu'[x])
    <3>1. CASE SoloInterrumpe(aCpu, aCpu')
      BY <3>1 DEF SoloInterrumpe, Extiende
    <3>2. CASE aCpu' = aCpu
      BY <1>0, <3>2, ExtiendeMismo DEF Canales
    <3> QED BY <1>17, <3>1, <3>2
  <2>2. aCpu'[c] \in Seq(MensajesAlCPU) /\ Extiende(a, aCpu'[c])
    BY <2>1 DEF Bien, TypeOK
  <2>3. Turno(libre2, elegida, aCpu'[c], d, e, manejador'[c])
    <3> HIDE DEF libre, libre2, elegida, e, a, d, h
    <3> QED BY <1>0, <1>17, <2>2, TurnoInterrumpido
  <2>4. Meta
    BY <1>17, <2>3
  <2>5. ASSUME NEW x \in CPUs \ {c}
        PROVE  OtraIgual(x)
    BY <1>17, <2>1 DEF OtraIgual
  <2> QED BY <1>17, <2>4, <2>5, TurnoDeUna
<1>18. ASSUME NEW h2, Atendiendo(h) <=> Atendiendo(h2), h.pc \notin {"bloquear", "desconectado"},
              h2.pc \notin {"avisar", "bloquear", "desconectado"}
       PROVE  Turno(libre, elegida, a, d, e, h2)
  <2> HIDE DEF libre, libre2, elegida, e, a, d, h
  <2> QED BY <1>0, <1>18, TurnoSigue
<1>19. CASE volverAReady(c) \/ despertarSiguiente(c)
  <2>1. /\ h.pc \in {"desalojado", "despertar"} /\ PasarAReady(aCpu, h.pid) /\ Termina(c)
        /\ deCpu' = deCpu /\ cpu' = cpu /\ corto' = corto /\ cpusLibres' = cpusLibres
    BY <1>19 DEF volverAReady, despertarSiguiente, enCPU
  <2>2. h.pid \in Procesos
    BY <1>0, <2>1 DEF FormaManejador
  <2>3. SoloInterrumpe(aCpu, aCpu')
    BY <2>1, <2>2, PasarAReadyTipo
  <2>4. manejador'[c].pc = "libre" /\ \A x \in CPUs \ {c} : manejador'[x] = manejador[x]
    BY <1>4, <2>1
  <2>5. Turno(libre, elegida, a, d, e, manejador'[c])
    BY <1>18, <2>1, <2>4 DEF Atendiendo
  <2> QED BY <1>17, <2>1, <2>3, <2>4, <2>5
<1>20. CASE volverAlFrente(c)
  <2>1. /\ h.pc = "desalojado" /\ Termina(c) /\ aCpu' = aCpu
        /\ deCpu' = deCpu /\ cpu' = cpu /\ corto' = corto /\ cpusLibres' = cpusLibres
    BY <1>20 DEF volverAlFrente, enCPU
  <2>4. manejador'[c].pc = "libre" /\ \A x \in CPUs \ {c} : manejador'[x] = manejador[x]
    BY <1>4, <2>1
  <2>5. Turno(libre, elegida, a, d, e, manejador'[c])
    BY <1>18, <2>1, <2>4 DEF Atendiendo
  <2> QED BY <1>17, <2>1, <2>4, <2>5
<1>21. CASE esperarConfirmaciones(c)
  <2>1. /\ h.pc = "confirmaciones" /\ Sigue(c, "compactando", h.pid, 0) /\ aCpu' = aCpu
        /\ deCpu' = deCpu /\ cpu' = cpu /\ corto' = corto /\ cpusLibres' = cpusLibres
    BY <1>21 DEF esperarConfirmaciones, enKS, enCPU
  <2>4. manejador'[c].pc = "compactando" /\ \A x \in CPUs \ {c} : manejador'[x] = manejador[x]
    BY <1>3, <2>1
  <2>5. Turno(libre, elegida, a, d, e, manejador'[c])
    BY <1>18, <2>1, <2>4 DEF Atendiendo
  <2> QED BY <1>17, <2>1, <2>4, <2>5
<1>22. CASE manejar_solicitud_desalojo(c)
  <2>1. PICK ps, arg :
          /\ Atiende(c, "MEM_ALLOC") /\ aCpu' = Interrumpidas(aCpu, t, ps, 2)
          /\ Sigue(c, "confirmaciones", Head(d).pid, arg)
          /\ cpu' = cpu /\ corto' = corto /\ cpusLibres' = cpusLibres
    BY <1>22 DEF manejar_solicitud_desalojo, enKS
  <2>2. SoloInterrumpe(aCpu, aCpu')
    <3>1. 2 \in Motivos
      BY DEF Motivos
    <3> QED BY <1>0, <2>1, <3>1, InterrumpidasTipo
  <2>3. /\ h.pc = "libre" /\ d # << >> /\ Head(d).tipo = "MEM_ALLOC" /\ deCpu'[c] = Tail(d)
        /\ \A x \in CPUs \ {c} : deCpu'[x] = deCpu[x]
    BY <1>2, <2>1
  <2>4. manejador'[c].pc = "confirmaciones" /\ \A x \in CPUs \ {c} : manejador'[x] = manejador[x]
    BY <1>3, <2>1
  <2>5. ASSUME NEW h2, h2.pc = "confirmaciones"
        PROVE  Turno(libre, elegida, a, Tail(d), e, h2)
    <3> HIDE DEF libre, libre2, elegida, e, a, d, h
    <3> QED BY <1>0, <2>3, <2>5, TurnoCompacta
  <2>6. aCpu'[c] \in Seq(MensajesAlCPU) /\ \A x \in CPUs : Extiende(aCpu[x], aCpu'[x])
    BY <2>2 DEF SoloInterrumpe, Extiende, Bien, TypeOK
  <2>7. Turno(libre, elegida, aCpu'[c], Tail(d), e, manejador'[c])
    <3> HIDE DEF libre, libre2, elegida, e, d, h
    <3> QED BY <1>0, <2>4, <2>5, <2>6, TurnoInterrumpido
  <2>8. Meta
    BY <2>1, <2>3, <2>7
  <2>9. ASSUME NEW x \in CPUs \ {c}
        PROVE  OtraIgual(x)
    BY <2>1, <2>3, <2>4, <2>6 DEF OtraIgual
  <2> QED BY <2>1, <2>8, <2>9, TurnoDeUna
<1>23. CASE finCompactacion(c)
  <2>1. PICK r \in {"OK", "ERROR"} :
          /\ h.pc = "compactando" /\ Responde(c, r) /\ Termina(c)
          /\ deCpu' = deCpu /\ cpu' = cpu /\ corto' = corto /\ cpusLibres' = cpusLibres
    BY <1>23 DEF finCompactacion, enKS, enCPU
  <2>2. /\ \A x \in CPUs \ {c} : aCpu'[x] = aCpu[x]
        /\ \/ aCpu'[c] = Append(a, Respuesta(r))
           \/ aCpu'[c] = a /\ e.modo \in {"desconectada", "caida"}
    BY <1>5, <2>1
  <2>3. manejador'[c].pc = "libre" /\ \A x \in CPUs \ {c} : manejador'[x] = manejador[x]
    BY <1>4, <2>1
  <2>4. Atendiendo(h) /\ h.pc # "avisar"
    BY <2>1 DEF Atendiendo
  <2>5. ASSUME NEW b, NEW h2, h2.pc = "libre",
               b = Append(a, Respuesta(r)) \/ (b = a /\ e.modo \in {"desconectada", "caida"})
        PROVE  Turno(libre, elegida, b, d, e, h2)
    <3> HIDE DEF libre, libre2, elegida, e, a, d, h
    <3> QED BY <1>0, <2>4, <2>5, TurnoCompactado
  <2>6. Turno(libre, elegida, aCpu'[c], d, e, manejador'[c])
    BY <2>2, <2>3, <2>5
  <2>7. Meta
    BY <2>1, <2>6
  <2> QED BY <1>1, <2>1, <2>2, <2>3, <2>7
<1>24. CASE bloquearPorMutex(c)
  <2>1. /\ h.pc = "bloquear" /\ LiberarCPU(c) /\ Termina(c) /\ aCpu' = aCpu
        /\ deCpu' = deCpu /\ cpu' = cpu /\ corto' = corto
    BY <1>24 DEF bloquearPorMutex, enCPU
  <2>2. manejador'[c].pc = "libre" /\ \A x \in CPUs \ {c} : manejador'[x] = manejador[x]
    BY <1>4, <2>1
  <2>3. ASSUME NEW h2, h2.pc = "libre"
        PROVE  ~libre /\ Turno(TRUE, elegida, a, d, e, h2)
    <3> HIDE DEF libre, libre2, elegida, e, a, d, h
    <3> QED BY <1>0, <2>1, <2>3, TurnoTrasBloqueo
  <2>4. ~libre /\ libre2
    BY <1>0, <2>1, <2>2, <2>3, LiberarLista
  <2>5. Turno(libre2, elegida, a, d, e, manejador'[c])
    <3>1. Turno(TRUE, elegida, a, d, e, manejador'[c])
      BY <2>2, <2>3
    <3> HIDE DEF libre, libre2, elegida, e, a, d, h
    <3> QED BY <2>4, <3>1 DEF Turno
  <2>6. Meta /\ Lista
    BY <2>1, <2>4, <2>5
  <2> QED BY <1>1, <2>1, <2>2, <2>6
<1>25. CASE conectar(c)
  <2>1. /\ h.pc = "desconectado" /\ LiberarCPU(c) /\ manejador' = [manejador EXCEPT ![c] = ManejadorLibre]
        /\ cpu' = [cpu EXCEPT ![c] = CPUEn("espera")] /\ aCpu' = aCpu /\ deCpu' = deCpu /\ corto' = corto
    BY <1>25 DEF conectar
  <2>2. manejador'[c].pc = "libre" /\ \A x \in CPUs \ {c} : manejador'[x] = manejador[x]
    BY <1>0, <2>1 DEF ManejadorLibre
  <2>3. cpu'[c].modo = "espera" /\ \A x \in CPUs \ {c} : cpu'[x] = cpu[x]
    BY <1>0, <2>1 DEF CPUEn
  <2>4. ~libre
    BY <1>0, <2>1 DEF Turno
  <2>5. ASSUME NEW k2, NEW h2, k2.modo = "espera", h2.pc = "libre", NEW lib
        PROVE  Turno(lib, elegida, a, d, k2, h2)
    <3>1. d = << >> /\ ~HayPid(a) /\ ~HayResp(a) /\ ~elegida /\ OrdenSocket(a) /\ OrdenPedidos(d)
      BY <1>0, <2>1 DEF Turno
    <3>2. ~HayBloqueado(a) /\ ~Pide(d) /\ \A i \in 1..Len(d) : FALSE
      <4>1. ~HayBloqueado(a)
        BY <3>1 DEF HayBloqueado, HayResp, Resp
      <4>2. Len(d) = 0
        BY <3>1
      <4> HIDE DEF d
      <4> QED BY <4>1, <4>2 DEF Pide
    <3> HIDE DEF libre, libre2, elegida, e, a, d, h
    <3> QED BY <2>5, <3>1, <3>2 DEF Turno, Quieto, Corre, Atendiendo
  <2>6. Turno(libre2, elegida, a, d, cpu'[c], manejador'[c])
    BY <2>2, <2>3, <2>5
  <2>7. Meta /\ Lista
    BY <2>1, <2>4, <2>6
  <2> QED BY <1>1, <2>1, <2>2, <2>3, <2>7
<1>26. CASE desconectar(c)
  <2>1. PICK ps :
          /\ e.modo = "caida" /\ h.pc = "libre" /\ d = << >>
          /\ manejador' = [manejador EXCEPT ![c].pc = "terminado"]
          /\ cpusLibres' = RemoveFirst(cpusLibres, c) /\ aCpu' = Interrumpidas(aCpu, t', ps, 1)
          /\ deCpu' = deCpu /\ cpu' = cpu /\ corto' = corto
    BY <1>26 DEF desconectar, enCPU
  <2>2. SoloInterrumpe(aCpu, aCpu')
    <3>1. 1 \in Motivos /\ t' \in Tabla
      BY DEF Motivos, Bien, TypeOK
    <3> QED BY <1>0, <2>1, <3>1, InterrumpidasTipo
  <2>3. manejador'[c].pc = "terminado" /\ \A x \in CPUs \ {c} : manejador'[x] = manejador[x]
    BY <1>0, <2>1 DEF EstadoManejador
  <2>4. Turno(libre, elegida, a, d, e, manejador'[c])
    BY <1>18, <2>1, <2>3 DEF Atendiendo
  <2>5. ~libre2
    BY <1>0, <2>1, ContieneQuitar
  <2>6. Turno(libre2, elegida, a, d, e, manejador'[c])
    <3> DEFINE h2 == manejador'[c]
    <3> HIDE DEF libre, libre2, elegida, e, a, d, h, h2
    <3>1. Turno(libre2, elegida, a, d, e, h2)
      BY <2>1, <2>4, <2>5 DEF Turno, h2
    <3> QED BY <3>1 DEF h2
  <2> QED BY <1>17, <2>1, <2>2, <2>3, <2>6
<1> QED BY <1>7, <1>8, <1>9, <1>10, <1>12, <1>14, <1>15, <1>16, <1>19, <1>20, <1>21, <1>22, <1>23, <1>24,
           <1>25, <1>26, <1>27 DEF Manejador


\* Every step keeps the turn of every CPU.
LEMMA PasoTurno ==
  ASSUME Bien, Bien', TurnoCPU, FdDeLocks, [Next]_vars
  PROVE  TurnoCPU'
<1>0. /\ corto.pc \in {"flag", "tomar"} => corto.c = Nadie
      /\ aCpu \in Canales
  BY DEF TurnoCPU, Bien, TypeOK, Canales
<1>1. CASE UNCHANGED vars
  BY <1>0, <1>1, TurnoTodasIgual DEF vars, enKS, enCPU
<1>2. ASSUME NEW p \in Procesos, PasarAReady(aCpu, p), deCpu' = deCpu, cpu' = cpu, manejador' = manejador,
             cpusLibres' = cpusLibres, corto' = corto
      PROVE  TurnoCPU'
  <2>1. SoloInterrumpe(aCpu, aCpu')
    BY <1>2, PasarAReadyTipo
  <2> QED BY <1>0, <1>2, <2>1, TurnoTodasIgual
<1>3. CASE planificadorLargoPlazo
  <2>1. t.listas["NEW"] \in Seq(Procesos) /\ t.listas["NEW"] # << >>
    BY <1>3 DEF planificadorLargoPlazo, Bien, TypeOK, Tabla, ConLista
  <2>2. Head(t.listas["NEW"]) \in Procesos
    BY <2>1, ElementOfSeq, HeadTailProperties
  <2> QED BY <1>2, <1>3, <2>2 DEF planificadorLargoPlazo, enCPU
<1>4. ASSUME NEW p \in Procesos, HiloIO(p)
      PROVE  TurnoCPU'
  <2>1. CASE hiloBloquea(p)
    BY <1>0, <2>1, TurnoTodasIgual DEF hiloBloquea, enCPU
  <2>2. CASE hiloDesbloquea(p)
    BY <1>2, <2>2 DEF hiloDesbloquea, enCPU
  <2> QED BY <1>4, <2>1, <2>2 DEF HiloIO
<1>5. ASSUME NEW p \in Procesos, NEW c \in CPUs, Timer(p, c)
      PROVE  TurnoCPU'
  <2>1. CASE venceQuantum(p, c)
    BY <1>0, <2>1, TurnoTodasIgual DEF venceQuantum, enKS, enCPU
  <2>2. CASE interrumpeQuantum(p, c)
    <3>1. aCpu' = Enviado(aCpu, c, Interrupcion(p, 0))
      BY <2>2 DEF interrumpeQuantum
    <3>2. Interrupcion(p, 0) \in Interrupciones /\ Interrupcion(p, 0) \in MensajesAlCPU
      BY DEF Interrupcion, Msj, Interrupciones, MensajesAlCPU, Motivos
    <3>3. ASSUME NEW m, m \in Interrupciones, m \in MensajesAlCPU, aCpu' = Enviado(aCpu, c, m), NEW x \in CPUs
          PROVE  Extiende(aCpu[x], aCpu'[x])
      <4>1. aCpu[x] \in Seq(MensajesAlCPU)
        BY <1>0 DEF Canales
      <4>2. CASE aCpu'[x] = aCpu[x]
        BY <4>1, <4>2, ExtiendeMismo
      <4>3. CASE aCpu'[x] = Append(aCpu[x], m)
        <5> DEFINE s == aCpu[x]
        <5>0. s \in Seq(MensajesAlCPU)
          BY <4>1
        <5> HIDE DEF s
        <5>1. /\ Len(Append(s, m)) = Len(s) + 1 /\ Len(s) \in Nat
              /\ \A i \in 1..Len(s) : Append(s, m)[i] = s[i]
              /\ Append(s, m)[Len(s) + 1] = m
          BY <3>3, <5>0, AppendProperties, LenProperties
        <5>2. Extiende(s, Append(s, m))
          BY <3>3, <5>1 DEF Extiende
        <5> QED BY <4>3, <5>2 DEF s
      <4>4. aCpu'[x] = aCpu[x] \/ aCpu'[x] = Append(aCpu[x], m)
        <5>1. /\ \A y \in CPUs \ {c} : aCpu'[y] = aCpu[y]
              /\ aCpu'[c] = Append(aCpu[c], m) \/ aCpu'[c] = aCpu[c]
          BY <1>0, <3>3, EnviadoExacto
        <5>2. CASE x = c
          BY <5>1, <5>2
        <5>3. CASE x # c
          BY <5>1, <5>3
        <5> QED BY <5>2, <5>3
      <4> QED BY <4>2, <4>3, <4>4
    <3>4. \A x \in CPUs : OtraIgual(x)
      BY <2>2, <3>1, <3>2, <3>3 DEF OtraIgual, interrumpeQuantum, enKS, enCPU
    <3>5. \A x \in CPUs : TurnoDe(x)'
      <4>1. cpusLibres' = cpusLibres /\ corto' = corto
        BY <2>2 DEF interrumpeQuantum, enKS
      <4> QED BY <3>4, <4>1, TurnoDeOtra DEF TurnoCPU
    <3> QED BY <2>2, <3>5 DEF TurnoCPU, interrumpeQuantum, enKS
  <2> QED BY <1>5, <2>1, <2>2 DEF Timer
<1> QED BY <1>1, <1>3, <1>4, <1>5, TurnoCorto, TurnoManejador, TurnoModulo DEF Next

\* Nothing is connected at the beginning.
LEMMA InitTurno ==
  ASSUME Init
  PROVE  TurnoCPU
<1>1. ASSUME NEW c \in CPUs
      PROVE  TurnoDe(c)
  <2>1. /\ aCpu[c] = << >> /\ deCpu[c] = << >> /\ corto.c = Nadie /\ ~Contains(cpusLibres, c)
        /\ cpu[c].modo = "desconectada" /\ manejador[c].pc = "desconectado" /\ corto.c # c
    BY TablasAssumption DEF Init, CortoEnReposo, CPUEn, ManejadorLibre, Contains
  <2>2. Len(<< >>) = 0 /\ \A i \in 1..Len(<< >>) : FALSE
    OBVIOUS
  <2>3. /\ OrdenSocket(<< >>) /\ OrdenPedidos(<< >>)
        /\ ~HayPid(<< >>) /\ ~HayResp(<< >>) /\ ~HayBloqueado(<< >>) /\ ~Pide(<< >>)
    BY <2>2 DEF OrdenSocket, OrdenPedidos, HayPid, HayResp, HayBloqueado, Pide
  <2> QED BY <2>1, <2>2, <2>3 DEF TurnoDe, Turno, Atendiendo, Quieto, Corre
<1>2. cpusLibres = << >> /\ corto.c = Nadie
  BY DEF Init, CortoEnReposo
<1> QED BY <1>1, <1>2 DEF TurnoCPU, SinRepetir

=============================================================================
