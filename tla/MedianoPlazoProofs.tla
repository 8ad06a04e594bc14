------------------------- MODULE MedianoPlazoProofs -------------------------
(* Proofs about MedianoPlazo, for any processes, programs, devices and memory. *)
EXTENDS MedianoPlazo, SequenceTheorems, FiniteSetTheorems, WellFoundedInduction, TLAPS

-----------------------------------------------------------------------------
(* Sequences.                                                               *)

\* A set of numbers that has elements has a smallest one.
LEMMA MinimoDeNaturales ==
  ASSUME NEW T \in SUBSET Nat, T # {}
  PROVE  /\ Min(T) \in T
         /\ \A y \in T : Min(T) <= y
<1> DEFINE R == OpToRel(<, Nat)
<1>1. IsWellFoundedOn(R, Nat)
  BY NatLessThanWellFounded
<1>2. \A x, y \in Nat : <<x, y>> \in R <=> x < y
  BY DEF OpToRel
<1> HIDE DEF R
<1>3. PICK x \in T : \A y \in T : ~(<<y, x>> \in R)
  BY <1>1, WFMin
<1>4. \A y \in T : y \in Nat /\ x \in Nat
  OBVIOUS
<1>5. \A y \in T : ~(y < x)
  BY <1>2, <1>3, <1>4
<1>6. \A y \in T : x <= y
  BY <1>4, <1>5
<1> QED BY <1>6 DEF Min

\* Removing the first e of a sequence: what was before it stays in its place, and what was
\* behind it moves one place.
LEMMA QuitarPrimero ==
  ASSUME NEW S, NEW s \in Seq(S), NEW e, Contains(s, e)
  PROVE  \E n \in 1..Len(s) :
           /\ s[n] = e /\ \A m \in 1..(n - 1) : s[m] # e
           /\ RemoveFirst(s, e) \in Seq(S)
           /\ Len(RemoveFirst(s, e)) = Len(s) - 1
           /\ \A i \in 1..Len(RemoveFirst(s, e)) :
                RemoveFirst(s, e)[i] = IF i < n THEN s[i] ELSE s[i + 1]
<1> DEFINE I == {i \in 1..Len(s) : s[i] = e}
           n == Min(I)
<1>1. Len(s) \in Nat /\ I \in SUBSET Nat /\ I # {}
  BY DEF Contains
<1>2. n \in I /\ \A y \in I : n <= y
  BY <1>1, MinimoDeNaturales
<1>3. RemoveFirst(s, e) = RemoveAt(s, n)
  BY <1>1 DEF RemoveFirst, SelectInSeq
<1> HIDE DEF n
<1>4. n \in 1..Len(s) /\ s[n] = e
  BY <1>2
<1>5. \A m \in 1..(n - 1) : s[m] # e
  BY <1>1, <1>2, <1>4
<1>6. /\ SubSeq(s, 1, n - 1) \in Seq(S) /\ Len(SubSeq(s, 1, n - 1)) = n - 1
      /\ \A i \in 1..(n - 1) : SubSeq(s, 1, n - 1)[i] = s[i]
  BY <1>1, <1>4, SubSeqProperties
<1>7. /\ SubSeq(s, n + 1, Len(s)) \in Seq(S) /\ Len(SubSeq(s, n + 1, Len(s))) = Len(s) - n
      /\ \A i \in 1..(Len(s) - n) : SubSeq(s, n + 1, Len(s))[i] = s[n + i]
  BY <1>1, <1>4, SubSeqProperties
<1> DEFINE a == SubSeq(s, 1, n - 1)
           b == SubSeq(s, n + 1, Len(s))
<1>8. /\ a \o b \in Seq(S) /\ Len(a \o b) = Len(a) + Len(b)
      /\ \A i \in 1..(Len(a) + Len(b)) : (a \o b)[i] = IF i <= Len(a) THEN a[i] ELSE b[i - Len(a)]
  BY <1>6, <1>7, ConcatProperties
<1>9. RemoveFirst(s, e) = a \o b
  BY <1>3 DEF RemoveAt
<1> HIDE DEF a, b
<1>10. /\ Len(a) = n - 1 /\ Len(b) = Len(s) - n
       /\ \A i \in 1..(n - 1) : a[i] = s[i]
       /\ \A i \in 1..(Len(s) - n) : b[i] = s[n + i]
  BY <1>6, <1>7 DEF a, b
<1>11. Len(a \o b) = Len(s) - 1
  BY <1>1, <1>4, <1>8, <1>10
<1>12. \A i \in 1..Len(a \o b) : (a \o b)[i] = IF i < n THEN s[i] ELSE s[i + 1]
  <2> TAKE i \in 1..Len(a \o b)
  <2>1. i \in 1..(Len(a) + Len(b)) /\ i \in Nat /\ n \in Nat
    BY <1>1, <1>4, <1>8, <1>10
  <2>2. CASE i < n
    BY <2>1, <2>2, <1>8, <1>10
  <2>3. CASE ~(i < n)
    <3>1. i - (n - 1) \in 1..(Len(s) - n) /\ n + (i - (n - 1)) = i + 1
      BY <2>1, <2>3, <1>1, <1>4, <1>10, <1>11
    <3>2. (a \o b)[i] = b[i - Len(a)]
      BY <2>1, <2>3, <1>8, <1>10
    <3>3. b[i - (n - 1)] = s[n + (i - (n - 1))]
      BY <3>1, <1>10
    <3> QED BY <3>1, <3>2, <3>3, <2>3, <1>10
  <2> QED BY <2>2, <2>3
<1> QED BY <1>4, <1>5, <1>8, <1>9, <1>11, <1>12

\* What is left of a sequence without the first e has the same elements.
LEMMA QuitarPrimeroTipo ==
  ASSUME NEW S, NEW s \in Seq(S), NEW e
  PROVE  RemoveFirst(s, e) \in Seq(S)
<1>1. CASE Contains(s, e)
  BY <1>1, QuitarPrimero
<1>2. CASE ~Contains(s, e)
  BY <1>2 DEF RemoveFirst, Contains
<1> QED BY <1>1, <1>2

-----------------------------------------------------------------------------
(* The READY queues.                                                        *)

\* Nobody is twice in the READY queues, and the PCB of who is there says READY.
ReadyCoherente(tab) ==
  /\ \A k \in Colas : \A i \in 1..Len(tab.ready[k]) : tab.estado[tab.ready[k][i]] = "READY"
  /\ \A k, l \in Colas : \A i \in 1..Len(tab.ready[k]) : \A j \in 1..Len(tab.ready[l]) :
       tab.ready[k][i] = tab.ready[l][j] => k = l /\ i = j

FueraDeReady(tab, p) ==
  \A k \in Colas : \A i \in 1..Len(tab.ready[k]) : tab.ready[k][i] # p

\* What a critical section leaves as it was, other than the state and the lists.
MismosPCB(tab, u) ==
  u.prioridad = tab.prioridad /\ u.fdCpu = tab.fdCpu /\ u.enSwap = tab.enSwap

\* A PID removed from the READY queues is in none of them, and no PID appears twice.
LEMMA QuitarDeReadyEfecto ==
  ASSUME NEW tab \in Tabla, ReadyCoherente(tab), NEW p \in Procesos
  PROVE  LET u == QuitarDeReady(tab, p) IN
         /\ u \in Tabla /\ ReadyCoherente(u) /\ FueraDeReady(u, p)
         /\ u.estado = tab.estado /\ u.orden = tab.orden /\ u.reloj = tab.reloj
         /\ u.listas = tab.listas /\ MismosPCB(tab, u)
<1> DEFINE con == {k \in Colas : Contains(tab.ready[k], p)}
           u == QuitarDeReady(tab, p)
<1>1. CASE con = {}
  <2>1. u = tab
    BY <1>1 DEF QuitarDeReady
  <2>2. FueraDeReady(tab, p)
    BY <1>1 DEF FueraDeReady, Contains
  <2> HIDE DEF u
  <2> QED BY <2>1, <2>2 DEF MismosPCB, u
<1>2. CASE con # {}
  <2> DEFINE K == Min(con)
  <2>1. K \in Colas /\ Contains(tab.ready[K], p)
    <3>1. con \in SUBSET Nat
      BY TablasAssumption DEF Colas
    <3> QED BY <1>2, <3>1, MinimoDeNaturales
  <2> HIDE DEF K
  <2> DEFINE s == tab.ready[K]
             r == RemoveFirst(s, p)
  <2>2. tab.ready \in [Colas -> Seq(Procesos)] /\ s \in Seq(Procesos)
    BY <2>1 DEF Tabla
  <2>3. PICK n \in 1..Len(s) :
          /\ s[n] = p
          /\ r \in Seq(Procesos) /\ Len(r) = Len(s) - 1
          /\ \A i \in 1..Len(r) : r[i] = IF i < n THEN s[i] ELSE s[i + 1]
    BY <2>1, <2>2, QuitarPrimero
  <2>4. u = [tab EXCEPT !.ready[K] = r]
    BY <1>2 DEF QuitarDeReady, K
  <2> HIDE DEF u, r
  <2>5. /\ u \in Tabla
        /\ u.estado = tab.estado /\ u.orden = tab.orden /\ u.reloj = tab.reloj
        /\ u.listas = tab.listas /\ MismosPCB(tab, u)
        /\ u.ready = [tab.ready EXCEPT ![K] = r]
    BY <2>1, <2>2, <2>3, <2>4 DEF Tabla, MismosPCB
  <2>6. Len(s) \in Nat /\ Len(r) \in Nat /\ n \in Nat
    BY <2>2, <2>3, LenProperties
  <2>7. \A k \in Colas : u.ready[k] = IF k = K THEN r ELSE tab.ready[k]
    BY <2>1, <2>2, <2>5
  \* Each place of r is one of s, a different one and not n.
  <2> DEFINE f(i) == IF i < n THEN i ELSE i + 1
  <2>8. \A i \in 1..Len(r) : f(i) \in 1..Len(s) /\ f(i) # n /\ r[i] = s[f(i)]
    BY <2>3, <2>6
  <2>9. \A i, j \in 1..Len(r) : f(i) = f(j) => i = j
    BY <2>6
  <2> HIDE DEF f, s
  <2>10. \A k \in Colas : \A i \in 1..Len(u.ready[k]) :
           \E i2 \in 1..Len(tab.ready[k]) :
             u.ready[k][i] = tab.ready[k][i2] /\ (IF k = K THEN i2 = f(i) /\ i2 # n ELSE i2 = i)
    BY <2>7, <2>8 DEF s
  <2>11. tab.ready[K][n] = p /\ n \in 1..Len(tab.ready[K])
    BY <2>3 DEF s
  <2>12. FueraDeReady(u, p)
    <3> SUFFICES ASSUME NEW k \in Colas, NEW i \in 1..Len(u.ready[k]), u.ready[k][i] = p
                 PROVE  FALSE
      BY DEF FueraDeReady
    <3>1. PICK i2 \in 1..Len(tab.ready[k]) :
            u.ready[k][i] = tab.ready[k][i2] /\ (IF k = K THEN i2 = f(i) /\ i2 # n ELSE i2 = i)
      BY <2>10
    <3>2. tab.ready[k][i2] = tab.ready[K][n]
      BY <3>1, <2>11
    <3>3. k = K /\ i2 = n
      BY <3>2, <2>1, <2>11 DEF ReadyCoherente
    <3> QED BY <3>1, <3>3
  <2>13. \A k \in Colas : \A i \in 1..Len(u.ready[k]) : u.estado[u.ready[k][i]] = "READY"
    <3> TAKE k \in Colas
    <3> TAKE i \in 1..Len(u.ready[k])
    <3>1. PICK i2 \in 1..Len(tab.ready[k]) : u.ready[k][i] = tab.ready[k][i2]
      BY <2>10
    <3> QED BY <3>1, <2>5 DEF ReadyCoherente
  <2>14. ASSUME NEW k \in Colas, NEW l \in Colas,
                NEW i \in 1..Len(u.ready[k]), NEW j \in 1..Len(u.ready[l]),
                u.ready[k][i] = u.ready[l][j]
         PROVE  k = l /\ i = j
    <3>1. PICK i2 \in 1..Len(tab.ready[k]) :
            u.ready[k][i] = tab.ready[k][i2] /\ (IF k = K THEN i2 = f(i) /\ i2 # n ELSE i2 = i)
      BY <2>10
    <3>2. PICK j2 \in 1..Len(tab.ready[l]) :
            u.ready[l][j] = tab.ready[l][j2] /\ (IF l = K THEN j2 = f(j) /\ j2 # n ELSE j2 = j)
      BY <2>10
    <3>3. tab.ready[k][i2] = tab.ready[l][j2]
      BY <2>14, <3>1, <3>2
    <3>4. k = l /\ i2 = j2
      BY <3>3 DEF ReadyCoherente
    <3> HIDE DEF u
    <3>5. CASE k = K
      BY <3>1, <3>2, <3>4, <3>5, <2>7, <2>9
    <3>6. CASE k # K
      BY <3>1, <3>2, <3>4, <3>6
    <3> QED BY <3>5, <3>6
  <2> QED BY <2>5, <2>12, <2>13, <2>14 DEF ReadyCoherente, u
<1> QED BY <1>1, <1>2

\* A PID taken out of the list of its state is in no READY queue.
LEMMA RetiradoEfecto ==
  ASSUME NEW tab \in Tabla, ReadyCoherente(tab), NEW p \in Procesos
  PROVE  LET u == Retirado(tab, p) IN
         /\ u \in Tabla /\ ReadyCoherente(u) /\ FueraDeReady(u, p)
         /\ u.estado = tab.estado /\ u.orden = tab.orden /\ u.reloj = tab.reloj
         /\ MismosPCB(tab, u)
<1> DEFINE u == Retirado(tab, p)
<1>1. CASE tab.estado[p] = "READY"
  BY <1>1, QuitarDeReadyEfecto DEF Retirado
<1>2. CASE tab.estado[p] # "READY"
  <2> DEFINE e == tab.estado[p]
             lista == RemoveFirst(tab.listas[e], p)
  <2>1. u = [tab EXCEPT !.listas[e] = lista]
    BY <1>2 DEF Retirado
  <2>2. e \in ConLista => lista \in Seq(Procesos)
    BY QuitarPrimeroTipo DEF Tabla
  <2> HIDE DEF u, e, lista
  <2>3. /\ u \in Tabla /\ u.estado = tab.estado /\ u.orden = tab.orden /\ u.reloj = tab.reloj
        /\ MismosPCB(tab, u) /\ u.ready = tab.ready
    BY <2>1, <2>2 DEF Tabla, MismosPCB
  <2>4. ReadyCoherente(u)
    BY <2>3 DEF ReadyCoherente
  <2>5. FueraDeReady(u, p)
    BY <2>3, <1>2 DEF ReadyCoherente, FueraDeReady
  <2> QED BY <2>3, <2>4, <2>5 DEF u
<1> QED BY <1>1, <1>2

\* A PID that was in no READY queue and is appended to one is in that one only.
LEMMA procesoAReadyEfecto ==
  ASSUME NEW tab \in Tabla, ReadyCoherente(tab), NEW p \in Procesos,
         FueraDeReady(tab, p), tab.estado[p] = "READY"
  PROVE  LET u == procesoAReady(tab, p) IN
         /\ u \in Tabla /\ ReadyCoherente(u)
         /\ u.estado = tab.estado /\ u.orden = tab.orden /\ u.reloj = tab.reloj
         /\ MismosPCB(tab, u)
<1> DEFINE u == procesoAReady(tab, p)
           K == Nivel(tab, p)
           s == tab.ready[K]
<1>1. CASE K \notin Colas
  <2>1. u = tab
    BY <1>1 DEF procesoAReady
  <2> HIDE DEF u
  <2> QED BY <2>1 DEF MismosPCB, u
<1>2. CASE K \in Colas
  <2>1. tab.ready \in [Colas -> Seq(Procesos)] /\ s \in Seq(Procesos)
    BY <1>2 DEF Tabla
  <2>2. /\ Append(s, p) \in Seq(Procesos) /\ Len(Append(s, p)) = Len(s) + 1
        /\ \A i \in 1..Len(s) : Append(s, p)[i] = s[i]
        /\ Append(s, p)[Len(s) + 1] = p /\ Len(s) \in Nat
    BY <2>1, AppendProperties, LenProperties
  <2>3. u = [tab EXCEPT !.ready[K] = Append(s, p)]
    BY <1>2 DEF procesoAReady
  <2> DEFINE r == Append(s, p)
             N == Len(s) + 1
  <2> HIDE DEF u, r, K
  <2>4. /\ u \in Tabla
        /\ u.estado = tab.estado /\ u.orden = tab.orden /\ u.reloj = tab.reloj
        /\ MismosPCB(tab, u)
        /\ u.ready = [tab.ready EXCEPT ![K] = r]
    BY <1>2, <2>1, <2>2, <2>3 DEF Tabla, MismosPCB, r
  <2>5. \A k \in Colas : u.ready[k] = IF k = K THEN r ELSE tab.ready[k]
    BY <1>2, <2>1, <2>4
  <2>6. /\ Len(r) = N /\ N \in Nat /\ r[N] = p
        /\ \A i \in 1..Len(r) : i # N => i \in 1..Len(s) /\ r[i] = s[i]
    BY <2>2 DEF r
  <2> HIDE DEF N
  \* A place of a queue is one it had, or the last one of K, where p is.
  <2>7. \A k \in Colas : \A i \in 1..Len(u.ready[k]) :
          \/ i \in 1..Len(tab.ready[k]) /\ u.ready[k][i] = tab.ready[k][i]
             /\ tab.ready[k][i] # p
          \/ k = K /\ i = N /\ u.ready[k][i] = p
    BY <2>5, <2>6 DEF FueraDeReady
  <2>8. \A k \in Colas : \A i \in 1..Len(u.ready[k]) : u.estado[u.ready[k][i]] = "READY"
    BY <2>4, <2>7 DEF ReadyCoherente
  <2>9. ASSUME NEW k \in Colas, NEW l \in Colas,
               NEW i \in 1..Len(u.ready[k]), NEW j \in 1..Len(u.ready[l]),
               u.ready[k][i] = u.ready[l][j]
        PROVE  k = l /\ i = j
    <3>1. CASE u.ready[k][i] = p
      BY <3>1, <2>7, <2>9
    <3>2. CASE u.ready[k][i] # p
      <4>1. i \in 1..Len(tab.ready[k]) /\ j \in 1..Len(tab.ready[l])
            /\ tab.ready[k][i] = tab.ready[l][j]
        BY <3>2, <2>7, <2>9
      <4> QED BY <4>1 DEF ReadyCoherente
    <3> QED BY <3>1, <3>2
  <2> QED BY <2>4, <2>8, <2>9 DEF ReadyCoherente, u
<1> QED BY <1>1, <1>2

\* A PCB out of the queues may change of state.
LEMMA CambioDeEstado ==
  ASSUME NEW tab \in Tabla, ReadyCoherente(tab), NEW p \in Procesos,
         FueraDeReady(tab, p), NEW e \in Estados
  PROVE  LET u == [tab EXCEPT !.estado[p] = e] IN
         /\ u \in Tabla /\ ReadyCoherente(u) /\ FueraDeReady(u, p)
         /\ u.estado = [tab.estado EXCEPT ![p] = e]
         /\ u.orden = tab.orden /\ u.reloj = tab.reloj /\ MismosPCB(tab, u)
<1> DEFINE u == [tab EXCEPT !.estado[p] = e]
<1>1. /\ u \in Tabla /\ u.ready = tab.ready
      /\ u.estado = [tab.estado EXCEPT ![p] = e] /\ tab.estado \in [Procesos -> Estados]
      /\ u.orden = tab.orden /\ u.reloj = tab.reloj /\ MismosPCB(tab, u)
  BY DEF Tabla, MismosPCB
<1> HIDE DEF u
<1>2. FueraDeReady(u, p)
  BY <1>1 DEF FueraDeReady
<1>3. \A k \in Colas : \A i \in 1..Len(u.ready[k]) : u.estado[u.ready[k][i]] = "READY"
  <2> TAKE k \in Colas
  <2> TAKE i \in 1..Len(u.ready[k])
  <2>1. tab.ready[k] \in Seq(Procesos)
    BY DEF Tabla
  <2>2. tab.ready[k][i] \in Procesos \ {p}
    BY <1>1, <2>1, ElementOfSeq DEF FueraDeReady
  <2> QED BY <1>1, <2>2 DEF ReadyCoherente
<1>4. ReadyCoherente(u)
  BY <1>1, <1>3 DEF ReadyCoherente
<1> QED BY <1>1, <1>2, <1>4 DEF u

\* Whether the stamp of p changes when it enters a state.
Sella(tab, p, nuevo) == nuevo = "SUSP_BLOCK" \/ (nuevo = "SUSP_READY" /\ tab.orden[p] = 0)

\* The stamp of SUSP_READY changes the order of one process and the clock, no list.
LEMMA SelladoEfecto ==
  ASSUME NEW tab \in Tabla, NEW p \in Procesos, NEW nuevo
  PROVE  LET u == Sellado(tab, p, nuevo) IN
         /\ u \in Tabla /\ u.estado = tab.estado /\ MismosPCB(tab, u)
         /\ u.ready = tab.ready
         /\ u.listas = tab.listas
         /\ u.orden = IF Sella(tab, p, nuevo) THEN [tab.orden EXCEPT ![p] = tab.reloj]
                      ELSE tab.orden
         /\ u.reloj = IF Sella(tab, p, nuevo) THEN tab.reloj + 1 ELSE tab.reloj
<1> DEFINE u == Sellado(tab, p, nuevo)
<1>1. CASE Sella(tab, p, nuevo)
  <2>1. u = [tab EXCEPT !.orden[p] = tab.reloj, !.reloj = tab.reloj + 1]
    BY <1>1 DEF Sella, Sellado, ConSello
  <2> HIDE DEF u
  <2>2. /\ u \in Tabla /\ u.estado = tab.estado /\ MismosPCB(tab, u) /\ u.ready = tab.ready
        /\ u.listas = tab.listas
        /\ u.orden = [tab.orden EXCEPT ![p] = tab.reloj] /\ u.reloj = tab.reloj + 1
    <3> DEFINE orden == [tab.orden EXCEPT ![p] = tab.reloj]
               reloj == tab.reloj + 1
    <3>1. u = [tab EXCEPT !.orden = orden, !.reloj = reloj]
      BY <2>1
    <3>2. orden \in [Procesos -> Nat] /\ reloj \in Nat
      BY DEF Tabla
    <3> HIDE DEF orden, reloj
    <3>3. /\ u \in Tabla /\ u.estado = tab.estado /\ MismosPCB(tab, u) /\ u.ready = tab.ready
          /\ u.listas = tab.listas /\ u.orden = orden /\ u.reloj = reloj
      BY <3>1, <3>2 DEF Tabla, MismosPCB
    <3> QED BY <3>3 DEF orden, reloj
  <2> QED BY <1>1, <2>2 DEF u
<1>2. CASE ~Sella(tab, p, nuevo)
  <2>1. u = tab
    BY <1>2 DEF Sella, Sellado
  <2> HIDE DEF u
  <2> QED BY <1>2, <2>1 DEF u, MismosPCB
<1> QED BY <1>1, <1>2

\* A PID that was in no READY queue keeps them coherent when its new state lists it.
LEMMA EncoladoEfecto ==
  ASSUME NEW tab \in Tabla, ReadyCoherente(tab), NEW p \in Procesos, FueraDeReady(tab, p),
         NEW nuevo \in ConLista \cup {"READY"}, tab.estado[p] = nuevo
  PROVE  LET u == Encolado(tab, p, nuevo) IN
         /\ u \in Tabla /\ ReadyCoherente(u)
         /\ u.estado = tab.estado /\ MismosPCB(tab, u)
         /\ u.orden = IF Sella(tab, p, nuevo) THEN [tab.orden EXCEPT ![p] = tab.reloj]
                      ELSE tab.orden
         /\ u.reloj = IF Sella(tab, p, nuevo) THEN tab.reloj + 1 ELSE tab.reloj
<1> DEFINE u == Encolado(tab, p, nuevo)
<1>1. CASE nuevo = "READY"
  <2>1. u = procesoAReady(tab, p) /\ ~Sella(tab, p, nuevo)
    BY <1>1 DEF Encolado, Sella
  <2> QED BY <1>1, <2>1, procesoAReadyEfecto
<1>2. CASE nuevo # "READY"
  <2> DEFINE v == Sellado(tab, p, nuevo)
             s == v.listas[nuevo]
             lista == Append(s, p)
  <2>1. u = [v EXCEPT !.listas[nuevo] = lista]
    BY <1>2 DEF Encolado
  <2>2. /\ v \in Tabla /\ v.estado = tab.estado /\ MismosPCB(tab, v) /\ v.ready = tab.ready
        /\ v.orden = IF Sella(tab, p, nuevo) THEN [tab.orden EXCEPT ![p] = tab.reloj]
                     ELSE tab.orden
        /\ v.reloj = IF Sella(tab, p, nuevo) THEN tab.reloj + 1 ELSE tab.reloj
    BY SelladoEfecto
  <2> HIDE DEF v
  <2>3. nuevo \in ConLista /\ s \in Seq(Procesos)
    BY <1>2, <2>2 DEF Tabla
  <2>4. lista \in Seq(Procesos)
    BY <2>3, AppendProperties
  <2> HIDE DEF u, lista, s
  <2>5. /\ u \in Tabla /\ u.estado = v.estado /\ u.ready = v.ready /\ u.orden = v.orden
        /\ u.reloj = v.reloj /\ MismosPCB(v, u)
    BY <2>1, <2>2, <2>3, <2>4 DEF Tabla, MismosPCB
  <2>6. ReadyCoherente(u) /\ MismosPCB(tab, u)
    BY <2>2, <2>5 DEF ReadyCoherente, MismosPCB
  <2> QED BY <2>2, <2>5, <2>6 DEF u
<1> QED BY <1>1, <1>2

\* A stamp is older than the clock, or there is none.
SellosPasados(tab) == \A q \in Procesos : tab.orden[q] = 0 \/ tab.orden[q] < tab.reloj

\* The body of actualizarEstadoProceso: who is not in EXIT gets the new state, its stamp
\* may change with it, and the queues stay coherent.
LEMMA actualizarEstadoEfecto ==
  ASSUME NEW tab \in Tabla, ReadyCoherente(tab), NEW p \in Procesos,
         NEW nuevo \in ConLista \cup {"READY"}
  PROVE  LET u == actualizarEstado(tab, p, nuevo) IN
         /\ u \in Tabla /\ ReadyCoherente(u) /\ MismosPCB(tab, u)
         /\ u.estado = [tab.estado EXCEPT ![p] = IF @ = "EXIT" THEN @ ELSE nuevo]
         /\ \A q \in Procesos :
              q # p \/ tab.estado[p] = "EXIT" \/ ~Sella(tab, p, nuevo)
                => u.orden[q] = tab.orden[q]
         /\ tab.estado[p] # "EXIT" /\ Sella(tab, p, nuevo) => u.orden[p] = tab.reloj
         /\ SellosPasados(tab) => SellosPasados(u)
<1> DEFINE u == actualizarEstado(tab, p, nuevo)
<1>0. tab.estado \in [Procesos -> Estados] /\ tab.orden \in [Procesos -> Nat]
  BY DEF Tabla
<1>1. CASE tab.estado[p] = "EXIT"
  <2>1. u = tab
    BY <1>1 DEF actualizarEstado
  <2>2. tab.estado = [tab.estado EXCEPT ![p] = IF @ = "EXIT" THEN @ ELSE nuevo]
    BY <1>0, <1>1
  <2> HIDE DEF u
  <2> QED BY <1>1, <2>1, <2>2 DEF MismosPCB, u
<1>2. CASE tab.estado[p] # "EXIT"
  <2> DEFINE v == Retirado(tab, p)
             w == [v EXCEPT !.estado[p] = nuevo]
  <2>1. u = Encolado(w, p, nuevo)
    BY <1>2 DEF actualizarEstado
  <2>2. /\ v \in Tabla /\ ReadyCoherente(v) /\ FueraDeReady(v, p)
        /\ v.estado = tab.estado /\ v.orden = tab.orden /\ v.reloj = tab.reloj
        /\ MismosPCB(tab, v)
    BY RetiradoEfecto
  <2> HIDE DEF v
  <2>3. nuevo \in Estados
    BY DEF Estados
  <2>4. /\ w \in Tabla /\ ReadyCoherente(w) /\ FueraDeReady(w, p)
        /\ w.estado = [v.estado EXCEPT ![p] = nuevo]
        /\ w.orden = v.orden /\ w.reloj = v.reloj /\ MismosPCB(v, w)
    BY <2>2, <2>3, CambioDeEstado
  <2> HIDE DEF w
  <2>5. w.estado[p] = nuevo
    BY <1>0, <2>2, <2>4
  <2>6. /\ u \in Tabla /\ ReadyCoherente(u)
        /\ u.estado = w.estado /\ MismosPCB(w, u)
        /\ u.orden = IF Sella(w, p, nuevo) THEN [w.orden EXCEPT ![p] = w.reloj] ELSE w.orden
        /\ u.reloj = IF Sella(w, p, nuevo) THEN w.reloj + 1 ELSE w.reloj
    <3> DEFINE x == Encolado(w, p, nuevo)
    <3>1. /\ x \in Tabla /\ ReadyCoherente(x) /\ x.estado = w.estado /\ MismosPCB(w, x)
          /\ x.orden = IF Sella(w, p, nuevo) THEN [w.orden EXCEPT ![p] = w.reloj] ELSE w.orden
          /\ x.reloj = IF Sella(w, p, nuevo) THEN w.reloj + 1 ELSE w.reloj
      BY <2>4, <2>5, EncoladoEfecto
    <3> HIDE DEF x
    <3> QED BY <2>1, <3>1 DEF x
  <2> HIDE DEF u
  <2>7. MismosPCB(tab, u)
    BY <2>2, <2>4, <2>6 DEF MismosPCB
  <2>8. u.estado = [tab.estado EXCEPT ![p] = IF @ = "EXIT" THEN @ ELSE nuevo]
    BY <1>0, <1>2, <2>2, <2>4, <2>6
  <2>9. w.orden = tab.orden /\ w.reloj = tab.reloj /\ tab.reloj \in Nat
    BY <2>2, <2>4 DEF Tabla
  <2>10. Sella(w, p, nuevo) <=> Sella(tab, p, nuevo)
    BY <2>9 DEF Sella
  <2>11. /\ \A q \in Procesos : q # p \/ ~Sella(tab, p, nuevo) => u.orden[q] = tab.orden[q]
         /\ Sella(tab, p, nuevo) => u.orden[p] = tab.reloj
         /\ SellosPasados(tab) => SellosPasados(u)
    <3>1. CASE Sella(tab, p, nuevo)
      <4>1. u.orden = [tab.orden EXCEPT ![p] = tab.reloj] /\ u.reloj = tab.reloj + 1
        BY <2>6, <2>9, <2>10, <3>1
      <4>2. \A q \in Procesos : u.orden[q] = IF q = p THEN tab.reloj ELSE tab.orden[q]
        BY <1>0, <4>1
      <4>3. SellosPasados(tab) => SellosPasados(u)
        BY <1>0, <2>9, <4>1, <4>2 DEF SellosPasados
      <4> QED BY <3>1, <4>2, <4>3
    <3>2. CASE ~Sella(tab, p, nuevo)
      <4>1. u.orden = tab.orden /\ u.reloj = tab.reloj
        BY <2>6, <2>9, <2>10, <3>2
      <4> QED BY <3>2, <4>1 DEF SellosPasados
    <3> QED BY <3>1, <3>2
  <2> QED BY <1>2, <2>6, <2>7, <2>8, <2>11 DEF u
<1> QED BY <1>1, <1>2

\* The short-term scheduler takes a process whose PCB says READY.
LEMMA seleccionarProcesoReady ==
  ASSUME NEW tab \in Tabla, ReadyCoherente(tab), NEW p \in seleccionarProceso(tab)
  PROVE  p \in Procesos /\ tab.estado[p] = "READY"
<1> DEFINE llenas == {k \in Colas : tab.ready[k] # <<>>}
           K == Min(llenas)
<1>1. llenas # {} /\ p = Head(tab.ready[K])
  BY DEF seleccionarProceso
<1>2. K \in llenas
  <2>1. llenas \in SUBSET Nat
    BY TablasAssumption DEF Colas
  <2> QED BY <1>1, <2>1, MinimoDeNaturales
<1> HIDE DEF K
<1>3. K \in Colas /\ tab.ready[K] \in Seq(Procesos) /\ tab.ready[K] # <<>>
  BY <1>2 DEF Tabla
<1>4. Len(tab.ready[K]) \in Nat \ {0} /\ p = tab.ready[K][1]
  BY <1>1, <1>3, EmptySeq, LenProperties
<1>5. p \in Procesos
  BY <1>3, <1>4, ElementOfSeq
<1> QED BY <1>3, <1>4, <1>5 DEF ReadyCoherente

-----------------------------------------------------------------------------
(* Queues of processes.                                                     *)

\* Who is in a queue once another one has been put in it.
LEMMA ContieneAppend ==
  ASSUME NEW S, NEW s \in Seq(S), NEW e \in S
  PROVE  /\ \A x : Contains(Append(s, e), x) <=> Contains(s, x) \/ x = e
         /\ (\A i, j \in 1..Len(s) : s[i] = s[j] => i = j) /\ ~Contains(s, e) =>
              \A i, j \in 1..Len(Append(s, e)) : Append(s, e)[i] = Append(s, e)[j] => i = j
<1> DEFINE a == Append(s, e)
<1>1. /\ Len(s) \in Nat /\ Len(a) = Len(s) + 1 /\ a[Len(s) + 1] = e
      /\ \A i \in 1..Len(s) : a[i] = s[i]
  BY AppendProperties, LenProperties
<1> HIDE DEF a
<1>2. \A i \in 1..Len(a) : (i \in 1..Len(s) /\ a[i] = s[i]) \/ (i = Len(s) + 1 /\ a[i] = e)
  BY <1>1
<1>3. \A i \in 1..Len(s) : i \in 1..Len(a)
  BY <1>1
<1>4. Len(s) + 1 \in 1..Len(a)
  BY <1>1
<1>5. \A x : Contains(a, x) <=> Contains(s, x) \/ x = e
  BY <1>1, <1>2, <1>3, <1>4 DEF Contains
<1>6. ASSUME \A i, j \in 1..Len(s) : s[i] = s[j] => i = j, ~Contains(s, e)
      PROVE  \A i, j \in 1..Len(a) : a[i] = a[j] => i = j
  BY <1>2, <1>6 DEF Contains
<1> QED BY <1>5, <1>6 DEF a

\* Who is in a queue once its first one has left.
LEMMA ContieneTail ==
  ASSUME NEW S, NEW s \in Seq(S), s # <<>>, \A i, j \in 1..Len(s) : s[i] = s[j] => i = j
  PROVE  /\ Head(s) \in S /\ Contains(s, Head(s)) /\ Tail(s) \in Seq(S)
         /\ \A x : Contains(Tail(s), x) <=> Contains(s, x) /\ x # Head(s)
         /\ \A i, j \in 1..Len(Tail(s)) : Tail(s)[i] = Tail(s)[j] => i = j
<1> DEFINE r == Tail(s)
           h == Head(s)
<1>1. /\ h \in S /\ r \in Seq(S) /\ Len(r) = Len(s) - 1 /\ Len(s) \in Nat \ {0}
      /\ \A i \in 1..Len(r) : r[i] = s[i + 1]
  BY HeadTailProperties, EmptySeq, LenProperties
<1>2. h = s[1]
  OBVIOUS
<1> HIDE DEF r, h
<1>3. /\ 1 \in 1..Len(s)
      /\ \A i \in 1..Len(r) : i + 1 \in 1..Len(s) /\ i + 1 # 1 /\ r[i] = s[i + 1]
      /\ \A i \in 1..Len(s) : i # 1 => i - 1 \in 1..Len(r) /\ (i - 1) + 1 = i
  BY <1>1
<1>4. Contains(s, h)
  BY <1>2, <1>3 DEF Contains
<1>5. ASSUME NEW x, Contains(r, x)
      PROVE  Contains(s, x) /\ x # h
  BY <1>2, <1>3, <1>5 DEF Contains
<1>6. ASSUME NEW x, Contains(s, x), x # h
      PROVE  Contains(r, x)
  <2>1. PICK i \in 1..Len(s) : s[i] = x /\ i # 1
    BY <1>2, <1>6 DEF Contains
  <2>2. i - 1 \in 1..Len(r) /\ r[i - 1] = s[(i - 1) + 1] /\ (i - 1) + 1 = i
    BY <1>3, <2>1
  <2>3. r[i - 1] = x
    BY <2>1, <2>2
  <2> QED BY <2>2, <2>3 DEF Contains
<1>7. ASSUME NEW i \in 1..Len(r), NEW j \in 1..Len(r), r[i] = r[j]
      PROVE  i = j
  <2>1. i + 1 \in 1..Len(s) /\ j + 1 \in 1..Len(s) /\ s[i + 1] = s[j + 1]
    BY <1>3, <1>7
  <2>2. i + 1 = j + 1
    BY <2>1
  <2> QED BY <2>2, <1>1
<1> QED BY <1>1, <1>4, <1>5, <1>6, <1>7 DEF r, h

-----------------------------------------------------------------------------
(* The inductive invariant.                                                 *)

Hebra == [pc : {"ninguno", "inicio", "espera", "saca", "usa", "asegurar", "traer", "traido",
                "km", "fin", "aSuspReady", "aReady", "exitKM", "exit"},
          tipo : Tipos \cup {Nadie}, intentos : Nat]
Relevo == [pc : {"libre", "reunir", "pedir", "mover"}, cand : Seq(Procesos)]

TiposMP ==
  /\ t \in Tabla /\ ReadyCoherente(t) /\ SellosPasados(t)
  /\ km \in [mem : SUBSET Procesos, swap : SUBSET Procesos,
             perdidos : SUBSET Procesos, muertos : SUBSET Procesos]
  /\ libres \in [Tipos -> Nat] /\ sem \in [Tipos -> Nat]
  /\ hilo \in [Procesos -> Hebra]
  /\ timers \in [Procesos -> [Etapas -> Nat]]
  /\ pasadas \in [1..MaxPasadas -> Relevo]
  /\ \A i \in 1..MaxPasadas : pasadas[i].pc \in {"pedir", "mover"} => pasadas[i].cand # <<>>
  /\ corre \in SUBSET Procesos
  /\ cola \in Seq(Procesos) /\ bloqueando \in [Procesos -> Nat]
  /\ fallas \in [suspension : Nat, segFault : Nat]

\* A process is in the hands of a CPU, of the thread of a call, of the mutex or of nobody,
\* and its state says which.
UnDuenio(p) ==
  /\ t.estado[p] \notin {"NEW", "INEXISTENTE"}
  /\ p \in corre => /\ hilo[p].pc \in {"ninguno", "exitKM", "exit"} /\ ~Contains(cola, p)
                    /\ t.estado[p] \notin {"READY", "SUSP_READY", "EXIT"}
  /\ t.estado[p] \in {"READY", "SUSP_READY", "EXIT"} =>
       hilo[p].pc = "ninguno" /\ ~Contains(cola, p)
  /\ Contains(cola, p) => hilo[p].pc = "ninguno"
  /\ EnIO(p) => t.estado[p] # "EXEC"
  /\ hilo[p].pc \notin {"ninguno", "exitKM", "exit"} => hilo[p].tipo \in Tipos
  /\ p \in km.muertos => hilo[p].pc = "exit" \/ t.estado[p] = "EXIT"
UnaVezEnCola ==
  \A i, j \in 1..Len(cola) : cola[i] = cola[j] => i = j

Suspendiendo(p) == timers[p]["pedido"] + timers[p]["hecho"]

\* One suspension at a time, from the order to Kernel Memory to en_swap, and only of who is
\* suspended; the threads find the process in the state they read, and the handler of a
\* MUTEX_LOCK the waiter where it left it.
UnaSuspension(p) ==
  /\ Suspendiendo(p) <= 1
  /\ Suspendiendo(p) = 1 => ~t.enSwap[p]
  /\ p \in km.swap \/ t.enSwap[p] \/ Suspendiendo(p) = 1 =>
       t.estado[p] \in {"SUSP_BLOCK", "SUSP_READY", "EXIT"}
  /\ p \in corre \/ hilo[p].pc = "inicio" => t.estado[p] = "EXEC"
  /\ hilo[p].pc = "aReady" => t.estado[p] = "BLOCK"
  /\ hilo[p].pc = "aSuspReady" => t.estado[p] = "SUSP_BLOCK"
  /\ t.estado[p] \in {"BLOCK", "SUSP_BLOCK"} => hilo[p].pc # "ninguno" \/ Contains(cola, p)
  /\ fallas.suspension = 0 /\ t.estado[p] \in {"SUSP_BLOCK", "SUSP_READY"}
       /\ hilo[p].pc # "exit" => t.enSwap[p] \/ Suspendiendo(p) = 1
  /\ bloqueando[p] > 0 => bloqueando[p] = 1 /\ Contains(cola, p) /\ t.estado[p] = "EXEC"

Duenios == UnaVezEnCola /\ \A p \in Procesos : UnDuenio(p)
Suspensiones == SinDesvios => \A p \in Procesos : UnaSuspension(p)

IInv == TiposMP /\ Duenios /\ Suspensiones /\ TokensDeIO


-----------------------------------------------------------------------------
(* A step changes what is kept of one process.                              *)

USE DEF enMutex

Igual(q) ==
  /\ t'.estado[q] = t.estado[q] /\ t'.enSwap[q] = t.enSwap[q]
  /\ hilo'[q] = hilo[q] /\ timers'[q] = timers[q]
  /\ q \in corre' <=> q \in corre
  /\ Contains(cola', q) <=> Contains(cola, q)
  /\ bloqueando'[q] = bloqueando[q]
  /\ q \in km'.swap => q \in km.swap
  /\ q \in km'.muertos <=> q \in km.muertos

\* A step that leaves a process alone leaves it with one owner at most.
LEMMA MarcoDuenio ==
  ASSUME NEW q \in Procesos, Igual(q), UnDuenio(q)
  PROVE  UnDuenio(q)'
BY DEF Igual, UnDuenio, EnIO

\* A step that leaves a process alone leaves it with one suspension at most.
LEMMA MarcoSuspension ==
  ASSUME NEW q \in Procesos, Igual(q), UnaSuspension(q),
         fallas'.suspension = 0 => fallas.suspension = 0
  PROVE  UnaSuspension(q)'
BY DEF Igual, UnaSuspension, Suspendiendo

\* The conclusions about one process are enough.
LEMMA DeUno ==
  ASSUME Duenios, Suspensiones, NEW w \in Procesos,
         \A q \in Procesos \ {w} : Igual(q),
         SinDesvios' => SinDesvios,
         fallas'.suspension = 0 => fallas.suspension = 0,
         UnaVezEnCola', UnDuenio(w)', SinDesvios' => UnaSuspension(w)'
  PROVE  Duenios' /\ Suspensiones'
<1>1. \A q \in Procesos : UnDuenio(q)'
  BY MarcoDuenio DEF Duenios
<1>2. SinDesvios' => \A q \in Procesos : UnaSuspension(q)'
  BY MarcoSuspension DEF Suspensiones
<1> QED BY <1>1, <1>2 DEF Duenios, Suspensiones

\* A change of state in this module: the table, the stamps and the other states.
LEMMA PasarEfecto ==
  ASSUME TiposMP, NEW p \in Procesos, NEW nuevo \in ConLista \cup {"READY"}, Pasar(p, nuevo)
  PROVE  /\ t' \in Tabla /\ ReadyCoherente(t') /\ SellosPasados(t') /\ MismosPCB(t, t')
         /\ t'.estado = [t.estado EXCEPT ![p] = IF @ = "EXIT" THEN @ ELSE nuevo]
         /\ \A q \in Procesos :
              q # p \/ t.estado[p] = "EXIT" \/ ~Sella(t, p, nuevo) => t'.orden[q] = t.orden[q]
         /\ t.estado[p] # "EXIT" /\ Sella(t, p, nuevo) => t'.orden[p] = t.reloj
         /\ t.estado \in [Procesos -> Estados] /\ t'.estado \in [Procesos -> Estados]
<1>1. t \in Tabla /\ ReadyCoherente(t) /\ SellosPasados(t) /\ t' = actualizarEstado(t, p, nuevo)
  BY DEF TiposMP, Pasar
<1>2. /\ t' \in Tabla /\ ReadyCoherente(t') /\ SellosPasados(t') /\ MismosPCB(t, t')
      /\ t'.estado = [t.estado EXCEPT ![p] = IF @ = "EXIT" THEN @ ELSE nuevo]
      /\ \A q \in Procesos :
           q # p \/ t.estado[p] = "EXIT" \/ ~Sella(t, p, nuevo) => t'.orden[q] = t.orden[q]
      /\ t.estado[p] # "EXIT" /\ Sella(t, p, nuevo) => t'.orden[p] = t.reloj
  BY <1>1, actualizarEstadoEfecto
<1>3. t.estado \in [Procesos -> Estados] /\ t'.estado \in [Procesos -> Estados]
  BY <1>1, <1>2 DEF Tabla
<1> QED BY <1>2, <1>3

\* What entering BLOCK does.
LEMMA BloquearEfecto ==
  ASSUME TiposMP, NEW p \in Procesos, Bloquear(p)
  PROVE  /\ timers' \in [Procesos -> [Etapas -> Nat]]
         /\ \A q \in Procesos \ {p} : timers'[q] = timers[q]
         /\ timers'[p]["pedido"] = timers[p]["pedido"] /\ timers'[p]["hecho"] = timers[p]["hecho"]
<1>1. timers \in [Procesos -> [Etapas -> Nat]] /\ "dormido" \in Etapas
      /\ "pedido" \in Etapas /\ "hecho" \in Etapas
  BY DEF TiposMP, Etapas
<1>2. timers[p]["dormido"] + 1 \in Nat
  BY <1>1
<1>3. timers' = timers \/ timers' = [timers EXCEPT ![p]["dormido"] = timers[p]["dormido"] + 1]
  BY DEF Bloquear
<1> QED BY <1>1, <1>2, <1>3

\* A timer that goes from one stage to the next.
LEMMA AvanzaEfecto ==
  ASSUME TiposMP, NEW p \in Procesos, NEW e \in Etapas, NEW f \in Etapas, e # f,
         TimerEn(p, e), Avanza(p, e, f)
  PROVE  /\ timers' \in [Procesos -> [Etapas -> Nat]]
         /\ \A q \in Procesos \ {p} : timers'[q] = timers[q]
         /\ timers[p][e] > 0
         /\ timers'[p][e] = timers[p][e] - 1 /\ timers'[p][f] = timers[p][f] + 1
         /\ \A g \in Etapas \ {e, f} : timers'[p][g] = timers[p][g]
<1>1. timers \in [Procesos -> [Etapas -> Nat]] /\ timers[p][e] > 0
  BY DEF TiposMP, TimerEn
<1>2. timers[p][e] - 1 \in Nat /\ timers[p][f] + 1 \in Nat
  BY <1>1
<1>3. timers' = [timers EXCEPT ![p] = [timers[p] EXCEPT ![e] = @ - 1, ![f] = @ + 1]]
  BY <1>1 DEF Avanza
<1>4. [timers[p] EXCEPT ![e] = @ - 1, ![f] = @ + 1] \in [Etapas -> Nat]
  BY <1>1, <1>2
<1> QED BY <1>1, <1>3, <1>4

\* A timer that ends.
LEMMA TimerTerminaEfecto ==
  ASSUME TiposMP, NEW p \in Procesos, NEW e \in Etapas, TimerEn(p, e), TimerTermina(p, e)
  PROVE  /\ timers' \in [Procesos -> [Etapas -> Nat]]
         /\ \A q \in Procesos \ {p} : timers'[q] = timers[q]
         /\ timers[p][e] > 0
         /\ timers'[p][e] = timers[p][e] - 1
         /\ \A g \in Etapas \ {e} : timers'[p][g] = timers[p][g]
<1>1. timers \in [Procesos -> [Etapas -> Nat]] /\ timers[p][e] > 0
  BY DEF TiposMP, TimerEn
<1>2. timers[p][e] - 1 \in Nat
  BY <1>1
<1>3. timers' = [timers EXCEPT ![p] = [timers[p] EXCEPT ![e] = @ - 1]]
  BY <1>1 DEF TimerTermina
<1>4. [timers[p] EXCEPT ![e] = @ - 1] \in [Etapas -> Nat]
  BY <1>1, <1>2
<1> QED BY <1>1, <1>3, <1>4

\* A pass that starts takes a free place.
LEMMA EmpezarPasadaEfecto ==
  ASSUME TiposMP, EmpezarPasada
  PROVE  /\ pasadas' \in [1..MaxPasadas -> Relevo]
         /\ \A i \in 1..MaxPasadas : pasadas'[i].pc \in {"pedir", "mover"} => pasadas'[i].cand # <<>>
<1> DEFINE i == Min(LugaresLibres)
<1>1. pasadas \in [1..MaxPasadas -> Relevo]
  BY DEF TiposMP
<1>2. LugaresLibres \in SUBSET Nat /\ LugaresLibres # {}
  BY <1>1, MedianoPlazoAssumption DEF LugaresLibres, EmpezarPasada
<1>3. i \in LugaresLibres
  BY <1>2, MinimoDeNaturales
<1>4. i \in 1..MaxPasadas
  BY <1>1, <1>3 DEF LugaresLibres
<1>5. pasadas' = [pasadas EXCEPT ![i].pc = "reunir"]
  BY DEF EmpezarPasada
<1> HIDE DEF i
<1>6. pasadas' = [pasadas EXCEPT ![i] = [pasadas[i] EXCEPT !.pc = "reunir"]]
  BY <1>1, <1>4, <1>5
<1>7. [pasadas[i] EXCEPT !.pc = "reunir"] \in Relevo
  BY <1>1, <1>4 DEF Relevo
<1>8. [pasadas[i] EXCEPT !.pc = "reunir"].pc = "reunir"
  BY <1>1, <1>4 DEF Relevo
<1> QED BY <1>1, <1>4, <1>6, <1>7, <1>8 DEF TiposMP


PCs == {"ninguno", "inicio", "espera", "saca", "usa", "asegurar", "traer", "traido",
        "km", "fin", "aSuspReady", "aReady", "exitKM", "exit"}

\* The IO thread of a process goes to pc.
LEMMA HiloEfecto ==
  ASSUME TiposMP, NEW p \in Procesos, NEW pc \in PCs, Hilo(p, pc)
  PROVE  /\ hilo' \in [Procesos -> Hebra]
         /\ \A q \in Procesos \ {p} : hilo'[q] = hilo[q]
         /\ hilo'[p].pc = pc /\ hilo'[p].tipo = hilo[p].tipo
<1>1. hilo \in [Procesos -> Hebra] /\ hilo' = [hilo EXCEPT ![p].pc = pc]
  BY DEF TiposMP, Hilo
<1> QED BY <1>1 DEF Hebra, PCs

\* The IO thread of a process ends.
LEMMA HiloTerminaEfecto ==
  ASSUME TiposMP, NEW p \in Procesos, HiloTermina(p)
  PROVE  /\ hilo' \in [Procesos -> Hebra]
         /\ \A q \in Procesos \ {p} : hilo'[q] = hilo[q]
         /\ hilo'[p].pc = "ninguno"
<1>1. hilo \in [Procesos -> Hebra] /\ hilo' = [hilo EXCEPT ![p] = HiloLibre]
  BY DEF TiposMP, HiloTermina
<1>2. HiloLibre \in Hebra /\ HiloLibre.pc = "ninguno"
  BY DEF HiloLibre, Hebra
<1> QED BY <1>1, <1>2

-----------------------------------------------------------------------------
(* The devices.                                                             *)

\* One step of each action keeps the types, one owner and one suspension: an IO connects.
LEMMA PasoIdentificar ==
  ASSUME TiposMP, Duenios, Suspensiones, NEW d \in Tipos, identificar_io_ks(d)
  PROVE  TiposMP' /\ Duenios' /\ Suspensiones'
<1> USE DEF identificar_io_ks, enKS, enPrograma
<1>1. TiposMP'
  BY DEF TiposMP
<1>2. /\ t' = t /\ hilo' = hilo /\ timers' = timers /\ corre' = corre /\ cola' = cola
      /\ bloqueando' = bloqueando
      /\ km' = km /\ fallas' = fallas /\ desvios' = desvios
  OBVIOUS
<1>3. Duenios'
  BY <1>2 DEF Duenios, UnaVezEnCola, UnDuenio, EnIO
<1>4. Suspensiones'
  BY <1>2 DEF Suspensiones, SinDesvios, UnaSuspension, Suspendiendo
<1> QED BY <1>1, <1>3, <1>4

\* The thread of a call goes on, with its process blocked.
LEMMA SigueElHilo ==
  ASSUME Duenios, Suspensiones, NEW p \in Procesos,
         hilo[p].pc \notin {"ninguno", "inicio", "aSuspReady", "exitKM", "exit"},
         hilo'[p].pc \notin {"ninguno", "inicio", "aReady", "aSuspReady", "exit"},
         hilo'[p].tipo = hilo[p].tipo,
         \A q \in Procesos \ {p} : hilo'[q] = hilo[q],
         t' = t, timers' = timers, corre' = corre, cola' = cola, bloqueando' = bloqueando,
         desvios' = desvios,
         fallas'.suspension = fallas.suspension,
         km'.muertos = km.muertos, km'.swap \subseteq km.swap
  PROVE  Duenios' /\ Suspensiones'
<1>1. \A q \in Procesos \ {p} : Igual(q)
  BY DEF Igual
<1>2. UnaVezEnCola' /\ UnDuenio(p)'
  BY DEF Duenios, UnaVezEnCola, UnDuenio, EnIO
<1>3. SinDesvios' => UnaSuspension(p)'
  BY DEF Suspensiones, SinDesvios, UnaSuspension, Suspendiendo
<1> QED BY <1>1, <1>2, <1>3, DeUno DEF SinDesvios

\* The IO thread waits for a device of its type.
LEMMA PasoEsperar ==
  ASSUME TiposMP, Duenios, Suspensiones, NEW p \in Procesos, esperarIO(p)
  PROVE  TiposMP' /\ Duenios' /\ Suspensiones'
<1>1. hilo[p].pc = "espera" /\ Hilo(p, "saca")
  BY DEF esperarIO
<1>2. /\ hilo' \in [Procesos -> Hebra] /\ \A q \in Procesos \ {p} : hilo'[q] = hilo[q]
      /\ hilo'[p].pc = "saca" /\ hilo'[p].tipo = hilo[p].tipo
  BY <1>1, HiloEfecto DEF PCs
<1>3. hilo[p].tipo \in Tipos
  BY <1>1 DEF Duenios, UnDuenio
<1>4. sem' \in [Tipos -> Nat]
  BY <1>3 DEF esperarIO, TiposMP
<1>5. TiposMP'
  BY <1>2, <1>4 DEF esperarIO, enPrograma, TiposMP
<1> QED BY <1>1, <1>2, <1>5, SigueElHilo DEF esperarIO, enPrograma

\* The IO thread takes a device off the list.
LEMMA PasoSacar ==
  ASSUME TiposMP, Duenios, Suspensiones, NEW p \in Procesos, sacar_io_libre_por_tipo(p)
  PROVE  TiposMP' /\ Duenios' /\ Suspensiones'
<1>1. hilo[p].pc = "saca" /\ Hilo(p, "usa")
  BY DEF sacar_io_libre_por_tipo
<1>2. /\ hilo' \in [Procesos -> Hebra] /\ \A q \in Procesos \ {p} : hilo'[q] = hilo[q]
      /\ hilo'[p].pc = "usa" /\ hilo'[p].tipo = hilo[p].tipo
  BY <1>1, HiloEfecto DEF PCs
<1>3. hilo[p].tipo \in Tipos
  BY <1>1 DEF Duenios, UnDuenio
<1>4. libres' \in [Tipos -> Nat]
  BY <1>3 DEF sacar_io_libre_por_tipo, TiposMP
<1>5. TiposMP'
  BY <1>2, <1>4 DEF sacar_io_libre_por_tipo, enPrograma, TiposMP
<1> QED BY <1>1, <1>2, <1>5, SigueElHilo DEF sacar_io_libre_por_tipo, enPrograma

\* The IO thread gives its device back.
LEMMA PasoLiberar ==
  ASSUME TiposMP, Duenios, Suspensiones, NEW p \in Procesos, liberar_io(p)
  PROVE  TiposMP' /\ Duenios' /\ Suspensiones'
<1> DEFINE pc == IF hilo[p].tipo = "STDIN" THEN "asegurar" ELSE "fin"
<1>1. hilo[p].pc = "usa" /\ Hilo(p, pc) /\ pc \in {"asegurar", "fin"}
  BY DEF liberar_io
<1>2. /\ hilo' \in [Procesos -> Hebra] /\ \A q \in Procesos \ {p} : hilo'[q] = hilo[q]
      /\ hilo'[p].pc \in {"asegurar", "fin"} /\ hilo'[p].tipo = hilo[p].tipo
  BY <1>1, HiloEfecto DEF PCs
<1>3. hilo[p].tipo \in Tipos
  BY <1>1 DEF Duenios, UnDuenio
<1>4. libres' \in [Tipos -> Nat] /\ sem' \in [Tipos -> Nat]
  BY <1>3 DEF liberar_io, TiposMP
<1>5. TiposMP'
  BY <1>2, <1>4 DEF liberar_io, enPrograma, TiposMP
<1> QED BY <1>1, <1>2, <1>5, SigueElHilo DEF liberar_io, enPrograma

-----------------------------------------------------------------------------
(* The threads of the blocking calls.                                       *)

\* The IO thread looks whether its process is suspended before it touches its memory.
LEMMA PasoAsegurar ==
  ASSUME TiposMP, Duenios, Suspensiones, NEW p \in Procesos, asegurar_proceso_en_memoria(p)
  PROVE  TiposMP' /\ Duenios' /\ Suspensiones'
<1> DEFINE pc == IF t.estado[p] \in {"SUSP_BLOCK", "SUSP_READY"} THEN "traer" ELSE "km"
<1>1. hilo[p].pc = "asegurar" /\ Hilo(p, pc) /\ pc \in {"traer", "km"}
  BY DEF asegurar_proceso_en_memoria
<1>2. /\ hilo' \in [Procesos -> Hebra] /\ \A q \in Procesos \ {p} : hilo'[q] = hilo[q]
      /\ hilo'[p].pc \in {"traer", "km"} /\ hilo'[p].tipo = hilo[p].tipo
  BY <1>1, HiloEfecto DEF PCs
<1>3. TiposMP'
  BY <1>2 DEF asegurar_proceso_en_memoria, enIO, enPrograma, TiposMP
<1> QED BY <1>1, <1>2, <1>3, SigueElHilo DEF asegurar_proceso_en_memoria, enPrograma

\* Bringing a process back takes it out of the swap.
LEMMA TraidaEfecto ==
  ASSUME TiposMP, NEW p \in Procesos, km' \in {km, Traida(p)}
  PROVE  /\ km' \in [mem : SUBSET Procesos, swap : SUBSET Procesos,
                     perdidos : SUBSET Procesos, muertos : SUBSET Procesos]
         /\ km'.muertos = km.muertos /\ km'.swap \subseteq km.swap
<1>1. km \in [mem : SUBSET Procesos, swap : SUBSET Procesos,
              perdidos : SUBSET Procesos, muertos : SUBSET Procesos]
  BY DEF TiposMP
<1>2. km' = km \/ km' = [km EXCEPT !.mem = km.mem \cup {p}, !.swap = km.swap \ {p}]
  BY DEF Traida
<1>3. km.mem \cup {p} \in SUBSET Procesos /\ km.swap \ {p} \in SUBSET Procesos
  BY <1>1
<1> QED BY <1>1, <1>2, <1>3

\* The IO thread asks Kernel Memory to bring the process back.
LEMMA PasoTraer ==
  ASSUME TiposMP, Duenios, Suspensiones, NEW p \in Procesos, traer(p)
  PROVE  TiposMP' /\ Duenios' /\ Suspensiones'
<1>1. hilo[p].pc = "traer" /\ km' \in {km, Traida(p)}
  BY DEF traer
<1>2. /\ km' \in [mem : SUBSET Procesos, swap : SUBSET Procesos,
                  perdidos : SUBSET Procesos, muertos : SUBSET Procesos]
      /\ km'.muertos = km.muertos /\ km'.swap \subseteq km.swap
  BY <1>1, TraidaEfecto
<1>3. /\ hilo' \in [Procesos -> Hebra] /\ \A q \in Procesos \ {p} : hilo'[q] = hilo[q]
      /\ hilo'[p].pc \in {"traer", "traido", "fin"} /\ hilo'[p].tipo = hilo[p].tipo
  <2>1. CASE Hilo(p, "traido")
    BY <2>1, HiloEfecto DEF PCs
  <2>2. CASE hilo' = [hilo EXCEPT ![p].intentos = @ + 1,
                                  ![p].pc = IF hilo[p].intentos + 1 = Reintentos THEN "fin" ELSE @]
    <3> DEFINE pc == IF hilo[p].intentos + 1 = Reintentos THEN "fin" ELSE hilo[p].pc
               h == [hilo[p] EXCEPT !.intentos = @ + 1, !.pc = pc]
    <3>1. hilo \in [Procesos -> Hebra] /\ hilo[p].intentos + 1 \in Nat /\ pc \in {"traer", "fin"}
      BY <1>1 DEF TiposMP, Hebra
    <3>2. hilo' = [hilo EXCEPT ![p] = h]
      BY <2>2, <3>1
    <3>3. h \in Hebra /\ h.pc = pc /\ h.tipo = hilo[p].tipo
      BY <3>1 DEF Hebra
    <3> HIDE DEF h
    <3> QED BY <3>1, <3>2, <3>3
  <2> QED BY <2>1, <2>2 DEF traer
<1>4. TiposMP'
  BY <1>2, <1>3 DEF traer, enIO, enPrograma, TiposMP
<1> QED BY <1>1, <1>2, <1>3, <1>4, SigueElHilo DEF traer, enPrograma

\* The IO thread reads or writes the memory of its process.
LEMMA PasoAcceder ==
  ASSUME TiposMP, Duenios, Suspensiones, NEW p \in Procesos, accederMemoria(p)
  PROVE  TiposMP' /\ Duenios' /\ Suspensiones'
<1> DEFINE pc == IF hilo[p].tipo = "STDOUT" THEN "espera" ELSE "fin"
<1>1. hilo[p].pc = "km" /\ km' \in {km, Traida(p)}
  BY DEF accederMemoria
<1>2. /\ km' \in [mem : SUBSET Procesos, swap : SUBSET Procesos,
                  perdidos : SUBSET Procesos, muertos : SUBSET Procesos]
      /\ km'.muertos = km.muertos /\ km'.swap \subseteq km.swap
  BY <1>1, TraidaEfecto
<1>3. pc \in {"espera", "fin"}
  OBVIOUS
<1>4. Hilo(p, pc) \/ Hilo(p, "exitKM")
  BY DEF accederMemoria
<1> HIDE DEF pc
<1>5. /\ hilo' \in [Procesos -> Hebra] /\ \A q \in Procesos \ {p} : hilo'[q] = hilo[q]
      /\ hilo'[p].pc \in {"espera", "fin", "exitKM"} /\ hilo'[p].tipo = hilo[p].tipo
  BY <1>3, <1>4, HiloEfecto DEF PCs
<1>6. fallas' \in [suspension : Nat, segFault : Nat] /\ fallas'.suspension = fallas.suspension
  <2>1. fallas \in [suspension : Nat, segFault : Nat] /\ fallas.segFault + 1 \in Nat
    BY DEF TiposMP
  <2>2. fallas' = fallas \/ fallas' = [fallas EXCEPT !.segFault = fallas.segFault + 1]
    BY DEF accederMemoria
  <2> QED BY <2>1, <2>2
<1>7. TiposMP'
  BY <1>2, <1>5, <1>6 DEF accederMemoria, enIO, enPrograma, TiposMP
<1> QED BY <1>1, <1>2, <1>5, <1>6, <1>7, SigueElHilo DEF accederMemoria, enPrograma


\* The thread of the system call moves its process to BLOCK.
LEMMA PasoBloquear ==
  ASSUME TiposMP, Duenios, Suspensiones, NEW p \in Procesos, bloquear(p)
  PROVE  TiposMP' /\ Duenios' /\ Suspensiones'
<1> DEFINE pc == IF hilo[p].tipo = "STDOUT" THEN "asegurar" ELSE "espera"
<1>1. hilo[p].pc = "inicio" /\ Bloquear(p) /\ Hilo(p, pc) /\ pc \in {"asegurar", "espera"}
  BY DEF bloquear
<1>2. /\ hilo' \in [Procesos -> Hebra] /\ \A q \in Procesos \ {p} : hilo'[q] = hilo[q]
      /\ hilo'[p].pc \in {"asegurar", "espera"} /\ hilo'[p].tipo = hilo[p].tipo
  BY <1>1, HiloEfecto DEF PCs
<1>3. /\ timers' \in [Procesos -> [Etapas -> Nat]]
      /\ \A q \in Procesos \ {p} : timers'[q] = timers[q]
      /\ timers'[p]["pedido"] = timers[p]["pedido"] /\ timers'[p]["hecho"] = timers[p]["hecho"]
  BY <1>1, BloquearEfecto
<1>4. /\ t' \in Tabla /\ ReadyCoherente(t') /\ SellosPasados(t') /\ MismosPCB(t, t')
      /\ t'.estado = [t.estado EXCEPT ![p] = IF @ = "EXIT" THEN @ ELSE "BLOCK"]
      /\ t.estado \in [Procesos -> Estados]
  BY <1>1, PasarEfecto DEF Bloquear, ConLista
<1>5. UnDuenio(p)
  BY DEF Duenios
<1>6. t.estado[p] # "EXIT" /\ t'.estado[p] = "BLOCK"
  BY <1>1, <1>4, <1>5 DEF UnDuenio
<1>7. TiposMP'
  BY <1>2, <1>3, <1>4 DEF bloquear, enIO, enPrograma, TiposMP
<1>8. \A q \in Procesos \ {p} : Igual(q)
  BY <1>2, <1>3, <1>4 DEF Igual, MismosPCB, bloquear, enPrograma
<1>9. UnaVezEnCola' /\ UnDuenio(p)'
  BY <1>1, <1>2, <1>5, <1>6 DEF Duenios, UnaVezEnCola, UnDuenio, EnIO, bloquear, enPrograma
<1>10. SinDesvios' => UnaSuspension(p)'
  BY <1>1, <1>2, <1>3, <1>4, <1>5, <1>6
     DEF Suspensiones, SinDesvios, UnaSuspension, UnDuenio, Suspendiendo, MismosPCB, bloquear, enPrograma
<1> QED BY <1>7, <1>8, <1>9, <1>10, DeUno DEF bloquear, SinDesvios

\* A step after which nothing has gone astray started with nothing astray.
LEMMA DesvioEfecto ==
  ASSUME NEW hubo, NEW cual, Desvio(hubo, cual), SinDesvios'
  PROVE  SinDesvios /\ ~hubo
BY DEF Desvio, SinDesvios

\* The answer to the request for the process arrives.
LEMMA PasoTraido ==
  ASSUME TiposMP, Duenios, Suspensiones, NEW p \in Procesos, traido(p)
  PROVE  TiposMP' /\ Duenios' /\ Suspensiones'
<1>1. hilo[p].pc = "traido" /\ Bloquear(p) /\ Hilo(p, "km")
  BY DEF traido
<1>2. /\ hilo' \in [Procesos -> Hebra] /\ \A q \in Procesos \ {p} : hilo'[q] = hilo[q]
      /\ hilo'[p].pc = "km" /\ hilo'[p].tipo = hilo[p].tipo
  BY <1>1, HiloEfecto DEF PCs
<1>3. /\ timers' \in [Procesos -> [Etapas -> Nat]]
      /\ \A q \in Procesos \ {p} : timers'[q] = timers[q]
  BY <1>1, BloquearEfecto
<1>4. /\ t' \in Tabla /\ ReadyCoherente(t') /\ SellosPasados(t') /\ MismosPCB(t, t')
      /\ t'.estado = [t.estado EXCEPT ![p] = IF @ = "EXIT" THEN @ ELSE "BLOCK"]
      /\ t.estado \in [Procesos -> Estados]
  BY <1>1, PasarEfecto DEF Bloquear, ConLista
<1>5. UnDuenio(p)
  BY DEF Duenios
<1>6. t.estado[p] # "EXIT" /\ t'.estado[p] = "BLOCK"
  BY <1>1, <1>4, <1>5 DEF UnDuenio
<1>7. TiposMP'
  BY <1>2, <1>3, <1>4 DEF traido, enIO, enPrograma, TiposMP
<1>8. \A q \in Procesos \ {p} : Igual(q)
  BY <1>2, <1>3, <1>4 DEF Igual, MismosPCB, traido, enPrograma
<1>9. UnaVezEnCola' /\ UnDuenio(p)'
  BY <1>1, <1>2, <1>5, <1>6 DEF Duenios, UnaVezEnCola, UnDuenio, EnIO, traido, enPrograma
<1>10. ~SinDesvios'
  BY DesvioEfecto DEF traido
<1> QED BY <1>7, <1>8, <1>9, <1>10, DeUno DEF traido, SinDesvios

\* The device has finished.
LEMMA PasoFinalizarIO ==
  ASSUME TiposMP, Duenios, Suspensiones, NEW p \in Procesos, finalizar_io(p)
  PROVE  TiposMP' /\ Duenios' /\ Suspensiones'
<1> DEFINE pc == IF t.estado[p] = "SUSP_BLOCK" THEN "aSuspReady" ELSE "aReady"
<1>1. hilo[p].pc = "fin" /\ Hilo(p, pc) /\ pc \in {"aSuspReady", "aReady"}
  BY DEF finalizar_io
<1>2. /\ hilo' \in [Procesos -> Hebra] /\ \A q \in Procesos \ {p} : hilo'[q] = hilo[q]
      /\ hilo'[p].pc = pc /\ hilo'[p].tipo = hilo[p].tipo
  BY <1>1, HiloEfecto DEF PCs
<1>3. TiposMP'
  BY <1>2 DEF finalizar_io, enIO, enPrograma, TiposMP
<1>4. \A q \in Procesos \ {p} : Igual(q)
  BY <1>2 DEF Igual, finalizar_io, enPrograma
<1>5. UnDuenio(p) /\ t.estado[p] \in Estados
  BY DEF Duenios, TiposMP, Tabla
<1>6. pc = "aReady" => t.estado[p] = "BLOCK"
  BY <1>1, <1>5 DEF UnDuenio, EnIO, Estados, ConLista
<1>7. pc = "aSuspReady" => t.estado[p] = "SUSP_BLOCK"
  OBVIOUS
<1> HIDE DEF pc
<1>8. UnaVezEnCola' /\ UnDuenio(p)'
  BY <1>1, <1>2, <1>5 DEF Duenios, UnaVezEnCola, UnDuenio, EnIO, finalizar_io, enPrograma
<1>9. SinDesvios' => UnaSuspension(p)'
  BY <1>1, <1>2, <1>6, <1>7
     DEF Suspensiones, SinDesvios, UnaSuspension, Suspendiendo, finalizar_io, enPrograma
<1> QED BY <1>3, <1>4, <1>8, <1>9, DeUno DEF finalizar_io, SinDesvios

\* A process that is suspended goes to SUSP_READY when its IO ends.
LEMMA PasoDesbloquearSuspendido ==
  ASSUME TiposMP, Duenios, Suspensiones, NEW p \in Procesos, desbloquearSuspendido(p)
  PROVE  TiposMP' /\ Duenios' /\ Suspensiones'
<1>1. hilo[p].pc = "aSuspReady" /\ Pasar(p, "SUSP_READY") /\ HiloTermina(p) /\ EmpezarPasada
  BY DEF desbloquearSuspendido
<1>2. /\ hilo' \in [Procesos -> Hebra] /\ \A q \in Procesos \ {p} : hilo'[q] = hilo[q]
      /\ hilo'[p].pc = "ninguno"
  BY <1>1, HiloTerminaEfecto
<1>3. /\ t' \in Tabla /\ ReadyCoherente(t') /\ SellosPasados(t') /\ MismosPCB(t, t')
      /\ t'.estado = [t.estado EXCEPT ![p] = IF @ = "EXIT" THEN @ ELSE "SUSP_READY"]
      /\ t.estado \in [Procesos -> Estados]
  BY <1>1, PasarEfecto DEF ConLista
<1>4. UnDuenio(p)
  BY DEF Duenios
<1>5. t.estado[p] # "EXIT" /\ t'.estado[p] = "SUSP_READY"
  BY <1>1, <1>3, <1>4 DEF UnDuenio
<1>6. TiposMP'
  BY <1>1, <1>2, <1>3, EmpezarPasadaEfecto DEF desbloquearSuspendido, enIO, enPrograma, TiposMP
<1>7. \A q \in Procesos \ {p} : Igual(q)
  BY <1>2, <1>3 DEF Igual, MismosPCB, desbloquearSuspendido, enPrograma
<1>8. UnaVezEnCola' /\ UnDuenio(p)'
  BY <1>1, <1>2, <1>4, <1>5
     DEF Duenios, UnaVezEnCola, UnDuenio, EnIO, desbloquearSuspendido, enPrograma
<1>9. SinDesvios' => UnaSuspension(p)'
  BY <1>1, <1>2, <1>3, <1>4, <1>5 DEF Suspensiones, SinDesvios, UnaSuspension, UnDuenio,
     Suspendiendo, MismosPCB, desbloquearSuspendido, enPrograma
<1> QED BY <1>6, <1>7, <1>8, <1>9, DeUno DEF desbloquearSuspendido, SinDesvios

\* A process that is not suspended goes to READY when its IO ends.
LEMMA PasoDesbloquear ==
  ASSUME TiposMP, Duenios, Suspensiones, NEW p \in Procesos, desbloquear(p)
  PROVE  TiposMP' /\ Duenios' /\ Suspensiones'
<1>1. hilo[p].pc = "aReady" /\ Pasar(p, "READY") /\ HiloTermina(p)
  BY DEF desbloquear
<1>2. /\ hilo' \in [Procesos -> Hebra] /\ \A q \in Procesos \ {p} : hilo'[q] = hilo[q]
      /\ hilo'[p].pc = "ninguno"
  BY <1>1, HiloTerminaEfecto
<1>3. /\ t' \in Tabla /\ ReadyCoherente(t') /\ SellosPasados(t') /\ MismosPCB(t, t')
      /\ t'.estado = [t.estado EXCEPT ![p] = IF @ = "EXIT" THEN @ ELSE "READY"]
      /\ t.estado \in [Procesos -> Estados]
  BY <1>1, PasarEfecto
<1>4. UnDuenio(p)
  BY DEF Duenios
<1>5. t.estado[p] # "EXIT" /\ t'.estado[p] = "READY"
  BY <1>1, <1>3, <1>4 DEF UnDuenio
<1>6. TiposMP'
  BY <1>2, <1>3 DEF desbloquear, enIO, enPrograma, TiposMP
<1>7. \A q \in Procesos \ {p} : Igual(q)
  BY <1>2, <1>3 DEF Igual, MismosPCB, desbloquear, enPrograma
<1>8. UnaVezEnCola' /\ UnDuenio(p)'
  BY <1>1, <1>2, <1>4, <1>5 DEF Duenios, UnaVezEnCola, UnDuenio, EnIO, desbloquear, enPrograma
<1>9. SinDesvios' => UnaSuspension(p)'
  BY <1>1, <1>2, <1>3, <1>4, <1>5 DEF Suspensiones, SinDesvios, UnaSuspension, UnDuenio,
     Suspendiendo, MismosPCB, desbloquear, enPrograma
<1> QED BY <1>6, <1>7, <1>8, <1>9, DeUno DEF desbloquear, SinDesvios

\* Kernel Memory is told that the process ends because of its IO.
LEMMA PasoNotificarExit ==
  ASSUME TiposMP, Duenios, Suspensiones, NEW p \in Procesos, km_notificar_exit(p)
  PROVE  TiposMP' /\ Duenios' /\ Suspensiones'
<1>1. hilo[p].pc = "exitKM" /\ Hilo(p, "exit") /\ km' = Destruida(p)
  BY DEF km_notificar_exit
<1>2. /\ hilo' \in [Procesos -> Hebra] /\ \A q \in Procesos \ {p} : hilo'[q] = hilo[q]
      /\ hilo'[p].pc = "exit" /\ hilo'[p].tipo = hilo[p].tipo
  BY <1>1, HiloEfecto DEF PCs
<1>3. /\ km' \in [mem : SUBSET Procesos, swap : SUBSET Procesos,
                  perdidos : SUBSET Procesos, muertos : SUBSET Procesos]
      /\ km'.swap \subseteq km.swap
      /\ \A q \in Procesos \ {p} : q \in km'.muertos <=> q \in km.muertos
  <2>1. km \in [mem : SUBSET Procesos, swap : SUBSET Procesos,
                perdidos : SUBSET Procesos, muertos : SUBSET Procesos]
    BY DEF TiposMP
  <2>2. km' = [km EXCEPT !.mem = km.mem \ {p}, !.swap = km.swap \ {p},
                         !.muertos = km.muertos \cup {p}]
    BY <1>1 DEF Destruida
  <2> QED BY <2>1, <2>2
<1>4. TiposMP'
  BY <1>2, <1>3 DEF km_notificar_exit, enIO, enPrograma, TiposMP
<1>5. \A q \in Procesos \ {p} : Igual(q)
  BY <1>2, <1>3 DEF Igual, km_notificar_exit, enPrograma
<1>6. UnaVezEnCola' /\ UnDuenio(p)'
  BY <1>1, <1>2 DEF Duenios, UnaVezEnCola, UnDuenio, EnIO, km_notificar_exit, enPrograma
<1>7. SinDesvios' => UnaSuspension(p)'
  BY <1>1, <1>2, <1>3
     DEF Suspensiones, SinDesvios, UnaSuspension, Suspendiendo, km_notificar_exit, enPrograma
<1> QED BY <1>4, <1>5, <1>6, <1>7, DeUno DEF km_notificar_exit, SinDesvios

\* The process goes to EXIT because of its IO.
LEMMA PasoFinalizarProceso ==
  ASSUME TiposMP, Duenios, Suspensiones, NEW p \in Procesos, finalizar_proceso(p)
  PROVE  TiposMP' /\ Duenios' /\ Suspensiones'
<1>1. hilo[p].pc = "exit" /\ Pasar(p, "EXIT") /\ HiloTermina(p) /\ corre' = corre \ {p}
  BY DEF finalizar_proceso
<1>2. /\ hilo' \in [Procesos -> Hebra] /\ \A q \in Procesos \ {p} : hilo'[q] = hilo[q]
      /\ hilo'[p].pc = "ninguno"
  BY <1>1, HiloTerminaEfecto
<1>3. /\ t' \in Tabla /\ ReadyCoherente(t') /\ SellosPasados(t') /\ MismosPCB(t, t')
      /\ t'.estado = [t.estado EXCEPT ![p] = IF @ = "EXIT" THEN @ ELSE "EXIT"]
      /\ t.estado \in [Procesos -> Estados]
  BY <1>1, PasarEfecto DEF ConLista
<1>4. UnDuenio(p)
  BY DEF Duenios
<1>5. t'.estado[p] = "EXIT"
  BY <1>3
<1>6. TiposMP'
  BY <1>1, <1>2, <1>3 DEF finalizar_proceso, enIO, TiposMP
<1>7. \A q \in Procesos \ {p} : Igual(q)
  BY <1>1, <1>2, <1>3 DEF Igual, MismosPCB, finalizar_proceso
<1>8. UnaVezEnCola' /\ UnDuenio(p)'
  BY <1>1, <1>2, <1>4, <1>5 DEF Duenios, UnaVezEnCola, UnDuenio, EnIO, finalizar_proceso
<1>9. SinDesvios' => UnaSuspension(p)'
  BY <1>1, <1>2, <1>3, <1>4, <1>5 DEF Suspensiones, SinDesvios, UnaSuspension, UnDuenio,
     Suspendiendo, MismosPCB, finalizar_proceso
<1> QED BY <1>6, <1>7, <1>8, <1>9, DeUno DEF finalizar_proceso, SinDesvios


-----------------------------------------------------------------------------
(* The timers of suspension.                                                *)

\* The stages of a timer are told apart.
LEMMA EtapasDistintas ==
  /\ "dormido" \in Etapas /\ "visto" \in Etapas /\ "pedido" \in Etapas /\ "hecho" \in Etapas
BY DEF Etapas

\* Of two counters whose sum is at most one, one at most is not zero.
LEMMA UnoDeDos ==
  ASSUME NEW a \in Nat, NEW b \in Nat, a + b <= 1
  PROVE  /\ a > 0 => a = 1 /\ b = 0 /\ a + b = 1 /\ (a - 1) + b = 0
         /\ b > 0 => a = 0 /\ b = 1 /\ a + b = 1 /\ a + (b - 1) = 0
OBVIOUS

\* The suspension timer of a process in BLOCK expires.
LEMMA PasoVence ==
  ASSUME TiposMP, Duenios, Suspensiones, NEW p \in Procesos, venceTimer(p)
  PROVE  TiposMP' /\ Duenios' /\ Suspensiones'
<1>1. TimerEn(p, "dormido") /\ (Avanza(p, "dormido", "visto") \/ TimerTermina(p, "dormido"))
  BY DEF venceTimer
<1>2. timers \in [Procesos -> [Etapas -> Nat]]
  BY DEF TiposMP
<1>3. /\ timers' \in [Procesos -> [Etapas -> Nat]]
      /\ \A q \in Procesos \ {p} : timers'[q] = timers[q]
      /\ timers'[p]["pedido"] = timers[p]["pedido"] /\ timers'[p]["hecho"] = timers[p]["hecho"]
  <2>1. CASE Avanza(p, "dormido", "visto")
    BY <1>1, <1>2, <2>1, AvanzaEfecto, EtapasDistintas
  <2>2. CASE TimerTermina(p, "dormido")
    BY <1>1, <1>2, <2>2, TimerTerminaEfecto, EtapasDistintas
  <2> QED BY <1>1, <2>1, <2>2
<1>4. TiposMP'
  BY <1>3 DEF venceTimer, enIO, enPrograma, TiposMP
<1>5. \A q \in Procesos \ {p} : Igual(q)
  BY <1>3 DEF Igual, venceTimer, enPrograma
<1>6. UnaVezEnCola' /\ UnDuenio(p)'
  BY DEF Duenios, UnaVezEnCola, UnDuenio, EnIO, venceTimer, enPrograma
<1>7. SinDesvios' => UnaSuspension(p)'
  BY <1>3 DEF Suspensiones, SinDesvios, UnaSuspension, Suspendiendo, venceTimer, enPrograma
<1> QED BY <1>4, <1>5, <1>6, <1>7, DeUno DEF venceTimer, SinDesvios

\* The timer marks the process as suspended, if it is still the BLOCK it was started for.
LEMMA PasoSuspender ==
  ASSUME TiposMP, Duenios, Suspensiones, NEW p \in Procesos, suspender(p)
  PROVE  TiposMP' /\ Duenios' /\ Suspensiones'
<1>1. /\ TimerEn(p, "visto") /\ Avanza(p, "visto", "pedido") /\ Pasar(p, "SUSP_BLOCK")
      /\ Desvio(t.estado[p] # "BLOCK" \/ hilo[p].pc = "aReady", "timer")
  BY DEF suspender
<1>2. timers \in [Procesos -> [Etapas -> Nat]]
  BY DEF TiposMP
<1>3. /\ timers' \in [Procesos -> [Etapas -> Nat]]
      /\ \A q \in Procesos \ {p} : timers'[q] = timers[q]
      /\ timers'[p]["pedido"] = timers[p]["pedido"] + 1
      /\ timers'[p]["hecho"] = timers[p]["hecho"]
  BY <1>1, <1>2, AvanzaEfecto, EtapasDistintas
<1>4. /\ t' \in Tabla /\ ReadyCoherente(t') /\ SellosPasados(t') /\ MismosPCB(t, t')
      /\ t'.estado = [t.estado EXCEPT ![p] = IF @ = "EXIT" THEN @ ELSE "SUSP_BLOCK"]
      /\ t.estado \in [Procesos -> Estados]
  BY <1>1, PasarEfecto DEF ConLista
<1>5. UnDuenio(p)
  BY DEF Duenios
<1>6. t'.estado[p] = IF t.estado[p] = "EXIT" THEN "EXIT" ELSE "SUSP_BLOCK"
  BY <1>4
<1>7. SinDesvios' => SinDesvios /\ t.estado[p] = "BLOCK" /\ hilo[p].pc # "aReady"
  BY <1>1, DesvioEfecto
<1>8. TiposMP'
  BY <1>3, <1>4 DEF suspender, enIO, enPrograma, TiposMP
<1>9. \A q \in Procesos \ {p} : Igual(q)
  BY <1>3, <1>4 DEF Igual, MismosPCB, suspender, enPrograma
<1>10. UnaVezEnCola' /\ UnDuenio(p)'
  BY <1>5, <1>6 DEF Duenios, UnaVezEnCola, UnDuenio, EnIO, suspender, enPrograma
<1>11. SinDesvios' => UnaSuspension(p)'
  <2> SUFFICES ASSUME SinDesvios'
               PROVE  UnaSuspension(p)'
    OBVIOUS
  <2>1. UnaSuspension(p) /\ t.estado[p] = "BLOCK" /\ hilo[p].pc # "aReady" /\ ~t.enSwap[p]
    BY <1>7 DEF Suspensiones, UnaSuspension
  <2>2. Suspendiendo(p) = 0 /\ timers[p]["pedido"] \in Nat /\ timers[p]["hecho"] \in Nat
    BY <2>1, <1>2, EtapasDistintas DEF UnaSuspension, Suspendiendo
  <2>3. Suspendiendo(p)' = 1
    BY <2>2, <1>3 DEF Suspendiendo
  <2>4. t'.estado[p] = "SUSP_BLOCK" /\ ~t'.enSwap[p]
    BY <2>1, <1>4, <1>6 DEF MismosPCB
  <2> QED BY <2>1, <2>3, <2>4 DEF UnaSuspension, suspender, enPrograma
<1> QED BY <1>7, <1>8, <1>9, <1>10, <1>11, DeUno DEF suspender

\* Kernel Memory answers the order of a suspension: it was made, or it failed.
LEMMA PasoKmSuspender ==
  ASSUME TiposMP, Duenios, Suspensiones, NEW p \in Procesos, km_suspender_proceso(p)
  PROVE  TiposMP' /\ Duenios' /\ Suspensiones'
<1>1. TimerEn(p, "pedido") /\ (Avanza(p, "pedido", "hecho") \/ TimerTermina(p, "pedido"))
  BY DEF km_suspender_proceso
<1>2. timers \in [Procesos -> [Etapas -> Nat]]
      /\ timers[p]["pedido"] \in Nat /\ timers[p]["hecho"] \in Nat
  BY EtapasDistintas DEF TiposMP
<1>3. /\ timers' \in [Procesos -> [Etapas -> Nat]]
      /\ \A q \in Procesos \ {p} : timers'[q] = timers[q]
      /\ timers[p]["pedido"] > 0
      /\ timers'[p]["pedido"] = timers[p]["pedido"] - 1
      /\ timers'[p]["hecho"] \in {timers[p]["hecho"], timers[p]["hecho"] + 1}
      /\ Avanza(p, "pedido", "hecho") => timers'[p]["hecho"] = timers[p]["hecho"] + 1
  <2>1. CASE Avanza(p, "pedido", "hecho")
    BY <1>1, <1>2, <2>1, AvanzaEfecto, EtapasDistintas
  <2>2. CASE TimerTermina(p, "pedido") /\ ~Avanza(p, "pedido", "hecho")
    BY <1>1, <1>2, <2>2, TimerTerminaEfecto, EtapasDistintas
  <2> QED BY <1>1, <2>1, <2>2
<1>4. km \in [mem : SUBSET Procesos, swap : SUBSET Procesos,
              perdidos : SUBSET Procesos, muertos : SUBSET Procesos]
  BY DEF TiposMP
<1>5. /\ km' \in [mem : SUBSET Procesos, swap : SUBSET Procesos,
                  perdidos : SUBSET Procesos, muertos : SUBSET Procesos]
      /\ km'.muertos = km.muertos
      /\ \A q \in Procesos \ {p} : q \in km'.swap => q \in km.swap
  <2>1. \/ km' = km
        \/ km' = [km EXCEPT !.mem = km.mem \ {p}, !.swap = km.swap \cup {p}]
        \/ km' = [km EXCEPT !.mem = km.mem \ {p}, !.perdidos = km.perdidos \cup {p}]
    BY DEF km_suspender_proceso, Bajada
  <2>2. CASE km' = km
    BY <1>4, <2>2
  <2>3. CASE km' = [km EXCEPT !.mem = km.mem \ {p}, !.swap = km.swap \cup {p}]
    BY <1>4, <2>3
  <2>4. CASE km' = [km EXCEPT !.mem = km.mem \ {p}, !.perdidos = km.perdidos \cup {p}]
    BY <1>4, <2>4
  <2> QED BY <2>1, <2>2, <2>3, <2>4
<1>6. /\ fallas' \in [suspension : Nat, segFault : Nat]
      /\ fallas'.suspension = 0 => fallas.suspension = 0 /\ fallas' = fallas
  <2>1. fallas \in [suspension : Nat, segFault : Nat] /\ fallas.suspension + 1 \in Nat \ {0}
    BY DEF TiposMP
  <2>2. fallas' = fallas \/ fallas' = [fallas EXCEPT !.suspension = fallas.suspension + 1]
    BY DEF km_suspender_proceso
  <2> QED BY <2>1, <2>2
<1>7. UnDuenio(p)
  BY DEF Duenios
<1>8. TiposMP'
  BY <1>3, <1>5, <1>6 DEF km_suspender_proceso, enIO, enPrograma, TiposMP
<1>9. \A q \in Procesos \ {p} : Igual(q)
  BY <1>3, <1>5 DEF Igual, km_suspender_proceso, enPrograma
<1>10. UnaVezEnCola' /\ UnDuenio(p)'
  BY <1>5 DEF Duenios, UnaVezEnCola, UnDuenio, EnIO, km_suspender_proceso, enPrograma
<1>11. SinDesvios' => UnaSuspension(p)'
  <2> SUFFICES ASSUME SinDesvios'
               PROVE  UnaSuspension(p)'
    OBVIOUS
  <2>1. UnaSuspension(p)
    BY DEF Suspensiones, SinDesvios, km_suspender_proceso
  <2>2. Suspendiendo(p) = 1 /\ timers[p]["hecho"] = 0 /\ timers[p]["pedido"] = 1
    BY <2>1, <1>2, <1>3, UnoDeDos DEF UnaSuspension, Suspendiendo
  <2>3. Suspendiendo(p)' \in {0, 1} /\ (Avanza(p, "pedido", "hecho") => Suspendiendo(p)' = 1)
    BY <2>2, <1>3 DEF Suspendiendo
  <2>4. ~t.enSwap[p] /\ t.estado[p] \in {"SUSP_BLOCK", "SUSP_READY", "EXIT"}
    BY <2>1, <2>2 DEF UnaSuspension
  \* Without a failure Kernel Memory has made it, or the process has ended.
  <2>5. fallas'.suspension = 0 =>
          Avanza(p, "pedido", "hecho") \/ p \in km.muertos
    <3>1. fallas.suspension \in Nat
      BY DEF TiposMP
    <3>2. fallas' = [fallas EXCEPT !.suspension = @ + 1] => fallas'.suspension # 0
      BY <3>1 DEF TiposMP
    <3> QED BY <3>2 DEF km_suspender_proceso
  <2>6. p \in km.muertos => hilo[p].pc = "exit" \/ t.estado[p] = "EXIT"
    BY <1>7 DEF UnDuenio
  <2>7. t' = t /\ hilo' = hilo /\ corre' = corre /\ cola' = cola /\ bloqueando' = bloqueando
    BY DEF km_suspender_proceso, enPrograma
  <2> QED BY <2>1, <2>3, <2>4, <2>5, <2>6, <2>7 DEF UnaSuspension
<1> QED BY <1>6, <1>8, <1>9, <1>10, <1>11, DeUno DEF km_suspender_proceso, SinDesvios

\* Kernel Memory has suspended the process: its PCB is marked.
LEMMA PasoMarcar ==
  ASSUME TiposMP, Duenios, Suspensiones, NEW p \in Procesos, marcarEnSwap(p)
  PROVE  TiposMP' /\ Duenios' /\ Suspensiones'
<1>1. TimerEn(p, "hecho") /\ TimerTermina(p, "hecho") /\ t' = [t EXCEPT !.enSwap[p] = TRUE]
  BY DEF marcarEnSwap
<1>2. timers \in [Procesos -> [Etapas -> Nat]]
      /\ timers[p]["pedido"] \in Nat /\ timers[p]["hecho"] \in Nat
  BY EtapasDistintas DEF TiposMP
<1>3. /\ timers' \in [Procesos -> [Etapas -> Nat]]
      /\ \A q \in Procesos \ {p} : timers'[q] = timers[q]
      /\ timers[p]["hecho"] > 0
      /\ timers'[p]["pedido"] = timers[p]["pedido"]
      /\ timers'[p]["hecho"] = timers[p]["hecho"] - 1
  BY <1>1, <1>2, TimerTerminaEfecto, EtapasDistintas
<1>4. /\ t' \in Tabla /\ t'.estado = t.estado /\ t'.ready = t.ready
      /\ t'.orden = t.orden /\ t'.reloj = t.reloj
      /\ t'.enSwap = [t.enSwap EXCEPT ![p] = TRUE]
      /\ t.enSwap \in [Procesos -> BOOLEAN]
  BY <1>1 DEF TiposMP, Tabla
<1>5. ReadyCoherente(t') /\ SellosPasados(t')
  BY <1>4 DEF TiposMP, ReadyCoherente, SellosPasados
<1>6. /\ pasadas' \in [1..MaxPasadas -> Relevo]
      /\ \A i \in 1..MaxPasadas : pasadas'[i].pc \in {"pedir", "mover"} => pasadas'[i].cand # <<>>
  BY EmpezarPasadaEfecto DEF marcarEnSwap, TiposMP
<1>7. TiposMP'
  BY <1>3, <1>4, <1>5, <1>6 DEF marcarEnSwap, enIO, enPrograma, TiposMP
<1>8. \A q \in Procesos \ {p} : Igual(q)
  BY <1>3, <1>4 DEF Igual, marcarEnSwap, enPrograma
<1>9. UnaVezEnCola' /\ UnDuenio(p)'
  BY <1>4 DEF Duenios, UnaVezEnCola, UnDuenio, EnIO, marcarEnSwap, enPrograma
<1>10. SinDesvios' => UnaSuspension(p)'
  <2> SUFFICES ASSUME SinDesvios'
               PROVE  UnaSuspension(p)'
    OBVIOUS
  <2>1. UnaSuspension(p)
    BY DEF Suspensiones, SinDesvios, marcarEnSwap
  <2>2. Suspendiendo(p) = 1 /\ Suspendiendo(p)' = 0
    BY <2>1, <1>2, <1>3, UnoDeDos DEF UnaSuspension, Suspendiendo
  <2>3. t'.enSwap[p] /\ t.estado[p] \in {"SUSP_BLOCK", "SUSP_READY", "EXIT"}
    BY <2>1, <2>2, <1>4 DEF UnaSuspension
  <2> QED BY <2>1, <2>2, <2>3, <1>4 DEF UnaSuspension, marcarEnSwap, enPrograma
<1> QED BY <1>7, <1>8, <1>9, <1>10, DeUno DEF marcarEnSwap, SinDesvios


-----------------------------------------------------------------------------
(* The passes that resume suspended processes.                              *)

\* One pass of the mid-term scheduler goes to pc with the candidates left.
LEMMA PasadaEfecto ==
  ASSUME TiposMP, NEW i \in 1..MaxPasadas, NEW pc \in {"pedir", "mover"},
         NEW cand \in Seq(Procesos), Pasada(i, pc, cand)
  PROVE  /\ pasadas' \in [1..MaxPasadas -> Relevo]
         /\ \A j \in 1..MaxPasadas : pasadas'[j].pc \in {"pedir", "mover"} => pasadas'[j].cand # <<>>
<1> DEFINE r == IF cand = <<>> THEN PasadaLibre ELSE [pc |-> pc, cand |-> cand]
<1>1. pasadas \in [1..MaxPasadas -> Relevo] /\ pasadas' = [pasadas EXCEPT ![i] = r]
  BY DEF TiposMP, Pasada
<1>2. r \in Relevo
  BY DEF Relevo, PasadaLibre
<1>3. r.pc \in {"pedir", "mover"} => r.cand # <<>>
  BY DEF PasadaLibre
<1> HIDE DEF r
<1> QED BY <1>1, <1>2, <1>3 DEF TiposMP

\* The first candidate of a pass, and the others.
LEMMA Candidato ==
  ASSUME TiposMP, NEW i \in 1..MaxPasadas, pasadas[i].pc \in {"pedir", "mover"}
  PROVE  /\ Head(pasadas[i].cand) \in Procesos
         /\ pasadas[i].cand \in Seq(Procesos) /\ Tail(pasadas[i].cand) \in Seq(Procesos)
<1>1. pasadas[i].cand \in Seq(Procesos) /\ pasadas[i].cand # <<>>
  BY DEF TiposMP, Relevo
<1> QED BY <1>1, HeadTailProperties

\* The candidates of a pass, in some order, are a sequence of processes.
LEMMA PermutacionEsSecuencia ==
  ASSUME NEW S \in SUBSET Procesos, NEW s \in SetToSeqs(S)
  PROVE  s \in Seq(Procesos)
<1>1. IsFiniteSet(S)
  BY MedianoPlazoAssumption, FS_Subset
<1>2. Cardinality(S) \in Nat
  BY <1>1, FS_CardinalityType
<1>3. s \in [1..Cardinality(S) -> S]
  BY DEF SetToSeqs
<1>4. s \in Seq(S)
  BY <1>2, <1>3, IsASeq
<1> QED BY <1>4, SeqMonotonic

\* A pass gathers the candidates of SUSP_READY.
LEMMA PasoReunir ==
  ASSUME TiposMP, Duenios, Suspensiones, NEW i \in 1..MaxPasadas, reunirCandidatos(i)
  PROVE  TiposMP' /\ Duenios' /\ Suspensiones'
<1>1. PICK cand \in SetToSeqs(Candidatos) : Pasada(i, "pedir", cand)
  BY DEF reunirCandidatos
<1>2. cand \in Seq(Procesos)
  BY PermutacionEsSecuencia DEF Candidatos
<1>3. /\ pasadas' \in [1..MaxPasadas -> Relevo]
      /\ \A j \in 1..MaxPasadas : pasadas'[j].pc \in {"pedir", "mover"} => pasadas'[j].cand # <<>>
  BY <1>1, <1>2, PasadaEfecto
<1>4. /\ t' = t /\ hilo' = hilo /\ timers' = timers /\ corre' = corre /\ cola' = cola
      /\ bloqueando' = bloqueando
      /\ km' = km /\ fallas' = fallas /\ desvios' = desvios
  BY DEF reunirCandidatos, enPrograma
<1>5. TiposMP'
  BY <1>3 DEF TiposMP, reunirCandidatos, enIO, enPrograma
<1>6. Duenios'
  BY <1>4 DEF Duenios, UnaVezEnCola, UnDuenio, EnIO
<1>7. Suspensiones'
  BY <1>4 DEF Suspensiones, SinDesvios, UnaSuspension, Suspendiendo
<1> QED BY <1>5, <1>6, <1>7

\* A pass asks Kernel Memory for the memory of the first candidate.
LEMMA PasoKmDesuspender ==
  ASSUME TiposMP, Duenios, Suspensiones, NEW i \in 1..MaxPasadas, km_desuspender_proceso(i)
  PROVE  TiposMP' /\ Duenios' /\ Suspensiones'
<1>1. pasadas[i].pc = "pedir"
  BY DEF km_desuspender_proceso
<1>2. PICK p \in Procesos : p = Head(pasadas[i].cand)
  BY <1>1, Candidato
<1>3. pasadas[i].cand \in Seq(Procesos) /\ Tail(pasadas[i].cand) \in Seq(Procesos)
  BY <1>1, Candidato
<1>4. /\ pasadas' \in [1..MaxPasadas -> Relevo]
      /\ \A j \in 1..MaxPasadas : pasadas'[j].pc \in {"pedir", "mover"} => pasadas'[j].cand # <<>>
  <2>1. CASE Pasada(i, "mover", pasadas[i].cand)
    <3> DEFINE c == pasadas[i].cand
    <3> QED BY <2>1, <1>3, PasadaEfecto
  <2>2. CASE Pasada(i, "pedir", Tail(pasadas[i].cand))
    BY <2>2, <1>3, PasadaEfecto
  <2> QED BY <2>1, <2>2 DEF km_desuspender_proceso
<1>5. km' \in {km, Traida(p)}
  BY <1>2 DEF km_desuspender_proceso
<1>6. /\ km' \in [mem : SUBSET Procesos, swap : SUBSET Procesos,
                  perdidos : SUBSET Procesos, muertos : SUBSET Procesos]
      /\ km'.muertos = km.muertos /\ km'.swap \subseteq km.swap
  BY <1>5, TraidaEfecto
<1>7. /\ t' = t /\ hilo' = hilo /\ timers' = timers /\ corre' = corre /\ cola' = cola
      /\ bloqueando' = bloqueando
      /\ fallas' = fallas /\ desvios' = desvios
  BY DEF km_desuspender_proceso, enPrograma
<1>8. TiposMP'
  BY <1>4, <1>6 DEF TiposMP, km_desuspender_proceso, enIO, enPrograma
<1>9. Duenios'
  BY <1>6, <1>7 DEF Duenios, UnaVezEnCola, UnDuenio, EnIO
<1>10. Suspensiones'
  BY <1>6, <1>7 DEF Suspensiones, SinDesvios, UnaSuspension, Suspendiendo
<1> QED BY <1>8, <1>9, <1>10

\* What the resumption of a process does to the tables.
LEMMA ReanudadoEfecto ==
  ASSUME TiposMP, NEW p \in Procesos, t' = Reanudado(p)
  PROVE  /\ t' \in Tabla /\ ReadyCoherente(t') /\ SellosPasados(t')
         /\ t.estado[p] # "SUSP_READY" => t' = t
         /\ t.estado[p] = "SUSP_READY" =>
              /\ t'.estado = [t.estado EXCEPT ![p] = "READY"]
              /\ t'.enSwap = [t.enSwap EXCEPT ![p] = FALSE]
              /\ t'.orden = [t.orden EXCEPT ![p] = 0]
              /\ t'.estado[p] = "READY" /\ t'.enSwap[p] = FALSE
         /\ \A q \in Procesos \ {p} :
              /\ t'.estado[q] = t.estado[q] /\ t'.enSwap[q] = t.enSwap[q]
              /\ t'.orden[q] = t.orden[q]
<1>1. t \in Tabla /\ ReadyCoherente(t) /\ SellosPasados(t)
  BY DEF TiposMP
<1>2. CASE t.estado[p] # "SUSP_READY"
  BY <1>1, <1>2 DEF Reanudado
<1>3. CASE t.estado[p] = "SUSP_READY"
  <2> DEFINE lista == RemoveFirst(t.listas["SUSP_READY"], p)
             u == [t EXCEPT !.listas["SUSP_READY"] = lista,
                            !.estado[p] = "READY", !.enSwap[p] = FALSE, !.orden[p] = 0]
  <2>1. t' = procesoAReady(u, p)
    BY <1>3 DEF Reanudado
  <2>2. lista \in Seq(Procesos)
    BY <1>1, QuitarPrimeroTipo DEF Tabla, ConLista
  <2> HIDE DEF lista
  <2>3. /\ u \in Tabla /\ u.ready = t.ready
        /\ u.estado = [t.estado EXCEPT ![p] = "READY"]
        /\ u.enSwap = [t.enSwap EXCEPT ![p] = FALSE]
        /\ u.orden = [t.orden EXCEPT ![p] = 0] /\ u.reloj = t.reloj
    <3>1. [t.estado EXCEPT ![p] = "READY"] \in [Procesos -> Estados]
      BY <1>1 DEF Tabla, Estados
    <3> QED BY <1>1, <2>2, <3>1 DEF Tabla, ConLista
  <2> HIDE DEF u
  <2>4. FueraDeReady(t, p)
    BY <1>1, <1>3 DEF ReadyCoherente, FueraDeReady
  <2>5. FueraDeReady(u, p)
    BY <2>3, <2>4 DEF FueraDeReady
  <2>6. t.estado \in [Procesos -> Estados] /\ t.enSwap \in [Procesos -> BOOLEAN]
        /\ t.orden \in [Procesos -> Nat]
    BY <1>1 DEF Tabla
  <2>7. \A k \in Colas : \A j \in 1..Len(u.ready[k]) : u.estado[u.ready[k][j]] = "READY"
    <3> TAKE k \in Colas
    <3> TAKE j \in 1..Len(u.ready[k])
    <3>1. u.ready[k] \in Seq(Procesos)
      BY <2>3 DEF Tabla
    <3>2. u.ready[k][j] \in Procesos
      BY <3>1, ElementOfSeq
    <3>3. t.estado[u.ready[k][j]] = "READY"
      BY <1>1, <2>3 DEF ReadyCoherente
    <3> QED BY <2>3, <2>6, <3>2, <3>3
  <2>8. ReadyCoherente(u)
    BY <1>1, <2>3, <2>7 DEF ReadyCoherente
  <2>9. u.estado[p] = "READY"
    BY <2>3, <2>6
  <2>10. /\ t' \in Tabla /\ ReadyCoherente(t') /\ t'.estado = u.estado /\ t'.orden = u.orden
         /\ t'.reloj = u.reloj /\ t'.enSwap = u.enSwap
    <3> DEFINE v == procesoAReady(u, p)
    <3>1. /\ v \in Tabla /\ ReadyCoherente(v) /\ v.estado = u.estado /\ v.orden = u.orden
          /\ v.reloj = u.reloj /\ MismosPCB(u, v)
      BY <2>3, <2>5, <2>8, <2>9, procesoAReadyEfecto
    <3> HIDE DEF v
    <3>2. t' = v
      BY <2>1 DEF v
    <3> QED BY <3>1, <3>2 DEF MismosPCB
  <2>11. SellosPasados(t')
    <3>1. \A q \in Procesos : t'.orden[q] = IF q = p THEN 0 ELSE t.orden[q]
      BY <2>3, <2>6, <2>10
    <3> QED BY <1>1, <2>3, <2>10, <3>1 DEF SellosPasados
  <2> QED BY <1>3, <2>3, <2>6, <2>10, <2>11
<1> QED BY <1>2, <1>3

\* A pass moves the candidate to READY.
LEMMA PasoMover ==
  ASSUME TiposMP, Duenios, Suspensiones, NEW i \in 1..MaxPasadas, moverAReady(i)
  PROVE  TiposMP' /\ Duenios' /\ Suspensiones'
<1>1. pasadas[i].pc = "mover"
  BY DEF moverAReady
<1>2. PICK p \in Procesos : p = Head(pasadas[i].cand)
  BY <1>1, Candidato
<1>3. /\ t' = Reanudado(p) /\ Pasada(i, "pedir", Tail(pasadas[i].cand))
      /\ Desvio(t.estado[p] = "SUSP_READY" /\ (p \in km.swap \/ ~t.enSwap[p]), "pasada")
  BY <1>2 DEF moverAReady
<1>4. /\ t' \in Tabla /\ ReadyCoherente(t') /\ SellosPasados(t')
      /\ t.estado[p] # "SUSP_READY" => t' = t
      /\ t.estado[p] = "SUSP_READY" => t'.estado[p] = "READY" /\ t'.enSwap[p] = FALSE
      /\ \A q \in Procesos \ {p} : t'.estado[q] = t.estado[q] /\ t'.enSwap[q] = t.enSwap[q]
  BY <1>3, ReanudadoEfecto
<1>5. /\ pasadas' \in [1..MaxPasadas -> Relevo]
      /\ \A j \in 1..MaxPasadas : pasadas'[j].pc \in {"pedir", "mover"} => pasadas'[j].cand # <<>>
  BY <1>1, <1>3, Candidato, PasadaEfecto
<1>6. SinDesvios' => SinDesvios /\ ~(t.estado[p] = "SUSP_READY" /\ (p \in km.swap \/ ~t.enSwap[p]))
  BY <1>3, DesvioEfecto
<1>7. UnDuenio(p)
  BY DEF Duenios
<1>8. TiposMP'
  BY <1>4, <1>5 DEF moverAReady, enIO, enPrograma, TiposMP
<1>9. \A q \in Procesos \ {p} : Igual(q)
  BY <1>4 DEF Igual, moverAReady, enPrograma
<1>10. UnaVezEnCola' /\ UnDuenio(p)'
  BY <1>4, <1>7 DEF Duenios, UnaVezEnCola, UnDuenio, EnIO, moverAReady, enPrograma
<1>11. SinDesvios' => UnaSuspension(p)'
  <2> SUFFICES ASSUME SinDesvios'
               PROVE  UnaSuspension(p)'
    OBVIOUS
  <2>1. UnaSuspension(p)
    BY <1>6 DEF Suspensiones
  <2>2. CASE t.estado[p] # "SUSP_READY"
    BY <2>1, <2>2, <1>4 DEF UnaSuspension, Suspendiendo, moverAReady, enPrograma
  <2>3. CASE t.estado[p] = "SUSP_READY"
    <3>1. p \notin km.swap /\ t.enSwap[p] /\ hilo[p].pc = "ninguno" /\ p \notin corre
      BY <2>3, <1>6, <1>7 DEF UnDuenio
    <3>2. Suspendiendo(p) # 1 /\ Suspendiendo(p) <= 1 /\ Suspendiendo(p)' = Suspendiendo(p)
      BY <2>1, <3>1 DEF UnaSuspension, Suspendiendo, moverAReady
    <3>3. ~(bloqueando[p] > 0)
      BY <2>1, <2>3 DEF UnaSuspension
    <3> QED BY <2>3, <3>1, <3>2, <3>3, <1>4 DEF UnaSuspension, moverAReady, enPrograma
  <2> QED BY <2>2, <2>3
<1> QED BY <1>6, <1>8, <1>9, <1>10, <1>11, DeUno DEF moverAReady


-----------------------------------------------------------------------------
(* The programs.                                                            *)

\* The process is dispatched.
LEMMA PasoDespachar ==
  ASSUME TiposMP, Duenios, Suspensiones, NEW p \in Procesos, despachar(p)
  PROVE  TiposMP' /\ Duenios' /\ Suspensiones'
<1>1. p \in seleccionarProceso(t) /\ Pasar(p, "EXEC") /\ corre' = corre \cup {p}
  BY DEF despachar
<1>2. t.estado[p] = "READY"
  BY <1>1, seleccionarProcesoReady DEF TiposMP
<1>3. /\ t' \in Tabla /\ ReadyCoherente(t') /\ SellosPasados(t') /\ MismosPCB(t, t')
      /\ t'.estado = [t.estado EXCEPT ![p] = IF @ = "EXIT" THEN @ ELSE "EXEC"]
      /\ t.estado \in [Procesos -> Estados]
  BY <1>1, PasarEfecto DEF ConLista
<1>4. UnDuenio(p)
  BY DEF Duenios
<1>5. t'.estado[p] = "EXEC"
  BY <1>2, <1>3
<1>6. TiposMP'
  BY <1>1, <1>3 DEF despachar, enIO, TiposMP
<1>7. \A q \in Procesos \ {p} : Igual(q)
  BY <1>1, <1>3 DEF Igual, MismosPCB, despachar
<1>8. UnaVezEnCola' /\ UnDuenio(p)'
  BY <1>1, <1>2, <1>4, <1>5 DEF Duenios, UnaVezEnCola, UnDuenio, EnIO, despachar
<1>9. SinDesvios' => UnaSuspension(p)'
  BY <1>1, <1>2, <1>3, <1>4, <1>5 DEF Suspensiones, SinDesvios, UnaSuspension, UnDuenio,
     Suspendiendo, MismosPCB, despachar
<1> QED BY <1>6, <1>7, <1>8, <1>9, DeUno DEF despachar, SinDesvios

\* The process asks for an IO: its thread and its timer start.
LEMMA PasoPedirIO ==
  ASSUME TiposMP, Duenios, Suspensiones, NEW p \in Procesos, NEW d \in Tipos, pedirIO(p, d)
  PROVE  TiposMP' /\ Duenios' /\ Suspensiones'
<1> DEFINE h == [HiloLibre EXCEPT !.pc = "inicio", !.tipo = d]
<1>1. /\ p \in corre /\ hilo[p].pc = "ninguno" /\ corre' = corre \ {p}
      /\ hilo' = [hilo EXCEPT ![p] = h]
  BY DEF pedirIO, Llama
<1>2. /\ hilo' \in [Procesos -> Hebra] /\ \A q \in Procesos \ {p} : hilo'[q] = hilo[q]
      /\ hilo'[p].pc = "inicio" /\ hilo'[p].tipo \in Tipos
  <2>1. hilo \in [Procesos -> Hebra] /\ HiloLibre \in Hebra
    BY DEF TiposMP, Hebra, HiloLibre
  <2>2. h \in Hebra /\ h.pc = "inicio" /\ h.tipo = d
    BY <2>1 DEF Hebra
  <2> HIDE DEF h
  <2> QED BY <1>1, <2>1, <2>2
<1>3. UnDuenio(p)
  BY DEF Duenios
<1>4. TiposMP'
  BY <1>1, <1>2 DEF pedirIO, enIO, TiposMP
<1>5. \A q \in Procesos \ {p} : Igual(q)
  BY <1>1, <1>2 DEF Igual, pedirIO
<1>6. UnaVezEnCola' /\ UnDuenio(p)'
  BY <1>1, <1>2, <1>3 DEF Duenios, UnaVezEnCola, UnDuenio, EnIO, pedirIO
<1>7. SinDesvios' => UnaSuspension(p)'
  BY <1>1, <1>2, <1>3 DEF Suspensiones, SinDesvios, UnaSuspension, UnDuenio, Suspendiendo, pedirIO
<1> QED BY <1>4, <1>5, <1>6, <1>7, DeUno DEF pedirIO, SinDesvios

\* A request or a release of memory touches no process that is out of it.
LEMMA PasoMemoria ==
  ASSUME TiposMP, Duenios, Suspensiones, NEW p \in Procesos, mem_alloc(p) \/ mem_free(p)
  PROVE  TiposMP' /\ Duenios' /\ Suspensiones'
<1>1. /\ km' \in [mem : SUBSET Procesos, swap : SUBSET Procesos,
                  perdidos : SUBSET Procesos, muertos : SUBSET Procesos]
      /\ km'.muertos = km.muertos /\ km'.swap = km.swap
  <2>1. km \in [mem : SUBSET Procesos, swap : SUBSET Procesos,
                perdidos : SUBSET Procesos, muertos : SUBSET Procesos]
    BY DEF TiposMP
  <2>2. CASE km' = [km EXCEPT !.mem = km.mem \cup {p}]
    BY <2>1, <2>2
  <2>3. CASE km' = [km EXCEPT !.mem = km.mem \ {p}]
    BY <2>1, <2>3
  <2> QED BY <2>2, <2>3 DEF mem_alloc, mem_free
<1>2. /\ pasadas' \in [1..MaxPasadas -> Relevo]
      /\ \A i \in 1..MaxPasadas : pasadas'[i].pc \in {"pedir", "mover"} => pasadas'[i].cand # <<>>
  <2>1. EmpezarPasada \/ pasadas' = pasadas
    BY DEF mem_alloc, mem_free, enKS
  <2> QED BY <2>1, EmpezarPasadaEfecto DEF TiposMP
<1>3. /\ t' = t /\ hilo' = hilo /\ timers' = timers /\ corre' = corre /\ cola' = cola
      /\ bloqueando' = bloqueando
      /\ fallas' = fallas /\ desvios' = desvios
  BY DEF mem_alloc, mem_free, enKS
<1>4. TiposMP'
  BY <1>1, <1>2, <1>3 DEF TiposMP, mem_alloc, mem_free, enIO
<1>5. Duenios'
  BY <1>1, <1>3 DEF Duenios, UnaVezEnCola, UnDuenio, EnIO
<1>6. Suspensiones'
  BY <1>1, <1>3 DEF Suspensiones, SinDesvios, UnaSuspension, Suspendiendo
<1> QED BY <1>4, <1>5, <1>6

\* The process asks for a mutex, and is queued if another one has it.
LEMMA PasoMutexLock ==
  ASSUME TiposMP, Duenios, Suspensiones, NEW p \in Procesos, mutex_lock(p)
  PROVE  TiposMP' /\ Duenios' /\ Suspensiones'
<1>1. p \in corre /\ hilo[p].pc = "ninguno"
  BY DEF mutex_lock, Llama
<1>2. /\ t' = t /\ hilo' = hilo /\ timers' = timers /\ km' = km /\ fallas' = fallas
      /\ desvios' = desvios /\ pasadas' = pasadas /\ UNCHANGED enIO
  BY DEF mutex_lock, enKS
<1>3. CASE tomador = Nadie
  <2>1. corre' = corre /\ cola' = cola /\ bloqueando' = bloqueando
    BY <1>3 DEF mutex_lock
  <2>2. TiposMP'
    BY <1>2, <2>1 DEF TiposMP, enIO
  <2>3. Duenios'
    BY <1>2, <2>1 DEF Duenios, UnaVezEnCola, UnDuenio, EnIO
  <2>4. Suspensiones'
    BY <1>2, <2>1 DEF Suspensiones, SinDesvios, UnaSuspension, Suspendiendo
  <2> QED BY <2>2, <2>3, <2>4
<1>4. CASE tomador # Nadie
  <2>1. /\ cola' = Append(cola, p) /\ corre' = corre \ {p}
        /\ bloqueando' = [bloqueando EXCEPT ![p] = @ + 1]
    BY <1>4 DEF mutex_lock
  <2>2. cola \in Seq(Procesos) /\ UnaVezEnCola /\ UnDuenio(p) /\ ~Contains(cola, p)
    BY <1>1 DEF TiposMP, Duenios, UnDuenio
  <2>3. /\ cola' \in Seq(Procesos)
        /\ \A q \in Procesos : Contains(cola', q) <=> Contains(cola, q) \/ q = p
        /\ UnaVezEnCola'
    <3>1. cola' \in Seq(Procesos)
      BY <2>1, <2>2, AppendProperties
    <3> QED BY <2>1, <2>2, <3>1, ContieneAppend DEF UnaVezEnCola
  <2>4. /\ bloqueando' \in [Procesos -> Nat] /\ bloqueando'[p] = bloqueando[p] + 1
        /\ bloqueando[p] \in Nat
        /\ \A q \in Procesos \ {p} : bloqueando'[q] = bloqueando[q]
    BY <2>1 DEF TiposMP
  <2>5. TiposMP'
    BY <1>2, <2>1, <2>3, <2>4 DEF enIO, TiposMP
  <2>6. \A q \in Procesos \ {p} : Igual(q)
    BY <1>2, <2>1, <2>3, <2>4 DEF Igual
  <2>7. UnDuenio(p)'
    BY <1>1, <1>2, <2>1, <2>2, <2>3 DEF UnDuenio, EnIO
  <2>8. SinDesvios' => UnaSuspension(p)'
    <3> SUFFICES ASSUME SinDesvios'
                 PROVE  UnaSuspension(p)'
      OBVIOUS
    <3>1. UnaSuspension(p)
      BY <1>2 DEF Suspensiones, SinDesvios
    <3>2. t.estado[p] = "EXEC" /\ bloqueando[p] = 0
      BY <1>1, <2>2, <2>4, <3>1 DEF UnaSuspension
    <3>3. p \notin corre' /\ Contains(cola', p) /\ bloqueando'[p] = 1
      BY <2>1, <2>3, <2>4, <3>2
    <3> QED BY <1>1, <1>2, <3>1, <3>2, <3>3 DEF UnaSuspension, Suspendiendo
  <2> QED BY <1>2, <2>3, <2>5, <2>6, <2>7, <2>8, DeUno DEF SinDesvios
<1> QED BY <1>3, <1>4

\* The handler of a MUTEX_LOCK puts the waiter in BLOCK, with its timer started; unless it
\* was woken up in between, it is still the one that it queued.
LEMMA PasoBloquearPorMutex ==
  ASSUME TiposMP, Duenios, Suspensiones, NEW p \in Procesos, bloquearPorMutex(p)
  PROVE  TiposMP' /\ Duenios' /\ Suspensiones'
<1>1. /\ bloqueando[p] > 0 /\ bloqueando' = [bloqueando EXCEPT ![p] = @ - 1] /\ Bloquear(p)
      /\ hilo' = hilo /\ pasadas' = pasadas /\ km' = km /\ corre' = corre /\ cola' = cola
      /\ fallas' = fallas /\ desvios' = desvios /\ UNCHANGED enIO
  BY DEF bloquearPorMutex
<1>2. /\ bloqueando' \in [Procesos -> Nat] /\ bloqueando'[p] = bloqueando[p] - 1
      /\ bloqueando[p] \in Nat
      /\ \A q \in Procesos \ {p} : bloqueando'[q] = bloqueando[q]
  BY <1>1 DEF TiposMP
<1>3. /\ timers' \in [Procesos -> [Etapas -> Nat]]
      /\ \A q \in Procesos \ {p} : timers'[q] = timers[q]
      /\ timers'[p]["pedido"] = timers[p]["pedido"] /\ timers'[p]["hecho"] = timers[p]["hecho"]
  BY <1>1, BloquearEfecto
<1>4. /\ t' \in Tabla /\ ReadyCoherente(t') /\ SellosPasados(t') /\ MismosPCB(t, t')
      /\ t'.estado = [t.estado EXCEPT ![p] = IF @ = "EXIT" THEN @ ELSE "BLOCK"]
      /\ t.estado \in [Procesos -> Estados]
  BY <1>1, PasarEfecto DEF Bloquear, ConLista
<1>5. UnDuenio(p)
  BY DEF Duenios
<1>6. t'.estado[p] = IF t.estado[p] = "EXIT" THEN "EXIT" ELSE "BLOCK"
  BY <1>4
<1>7. TiposMP'
  BY <1>1, <1>2, <1>3, <1>4 DEF enIO, TiposMP
<1>8. \A q \in Procesos \ {p} : Igual(q)
  BY <1>1, <1>2, <1>3, <1>4 DEF Igual, MismosPCB
<1>9. UnaVezEnCola' /\ UnDuenio(p)'
  BY <1>1, <1>5, <1>6 DEF Duenios, UnaVezEnCola, UnDuenio, EnIO
<1>10. SinDesvios' => UnaSuspension(p)'
  <2> SUFFICES ASSUME SinDesvios'
               PROVE  UnaSuspension(p)'
    OBVIOUS
  <2>1. UnaSuspension(p)
    BY <1>1 DEF Suspensiones, SinDesvios
  <2>2. bloqueando'[p] = 0 /\ Contains(cola, p) /\ t.estado[p] = "EXEC" /\ t'.estado[p] = "BLOCK"
    BY <1>1, <1>2, <1>6, <2>1 DEF UnaSuspension
  <2>3. hilo[p].pc = "ninguno" /\ p \notin corre
    BY <1>5, <2>2 DEF UnDuenio
  <2>4. t'.enSwap[p] = t.enSwap[p] /\ Suspendiendo(p)' = Suspendiendo(p)
    BY <1>3, <1>4 DEF MismosPCB, Suspendiendo
  <2> QED BY <1>1, <2>1, <2>2, <2>3, <2>4 DEF UnaSuspension
<1> QED BY <1>1, <1>7, <1>8, <1>9, <1>10, DeUno DEF SinDesvios

\* The process gives the mutex to the one that waits.
LEMMA PasoMutexUnlock ==
  ASSUME TiposMP, Duenios, Suspensiones, NEW p \in Procesos, mutex_unlock(p)
  PROVE  TiposMP' /\ Duenios' /\ Suspensiones'
<1>1. CASE cola = <<>>
  <2>1. /\ t' = t /\ hilo' = hilo /\ timers' = timers /\ corre' = corre /\ cola' = cola
        /\ bloqueando' = bloqueando
        /\ km' = km /\ fallas' = fallas /\ desvios' = desvios
    BY <1>1 DEF mutex_unlock
  <2>2. TiposMP'
    BY <2>1 DEF TiposMP, mutex_unlock, enIO
  <2>3. Duenios'
    BY <2>1 DEF Duenios, UnaVezEnCola, UnDuenio, EnIO
  <2>4. Suspensiones'
    BY <2>1 DEF Suspensiones, SinDesvios, UnaSuspension, Suspendiendo
  <2> QED BY <2>2, <2>3, <2>4
<1>2. CASE cola # <<>>
  <2>1. cola \in Seq(Procesos) /\ UnaVezEnCola
    BY DEF TiposMP, Duenios
  <2>2. /\ Head(cola) \in Procesos /\ Contains(cola, Head(cola)) /\ Tail(cola) \in Seq(Procesos)
        /\ \A x : Contains(Tail(cola), x) <=> Contains(cola, x) /\ x # Head(cola)
        /\ \A i, j \in 1..Len(Tail(cola)) : Tail(cola)[i] = Tail(cola)[j] => i = j
    BY <1>2, <2>1, ContieneTail DEF UnaVezEnCola
  <2>3. PICK w \in Procesos : w = Head(cola)
    BY <2>2
  <2>4. /\ cola' = Tail(cola) /\ Pasar(w, "READY")
        /\ Desvio(t.estado[w] # "BLOCK", IF bloqueando[w] > 0 THEN "bloqueo" ELSE "mutex")
    BY <1>2, <2>3 DEF mutex_unlock
  <2>5. /\ cola' \in Seq(Procesos) /\ Contains(cola, w) /\ UnaVezEnCola'
        /\ \A q \in Procesos : Contains(cola', q) <=> Contains(cola, q) /\ q # w
    BY <2>2, <2>3, <2>4 DEF UnaVezEnCola
  <2>6. UnDuenio(w)
    BY DEF Duenios
  <2>7. /\ t' \in Tabla /\ ReadyCoherente(t') /\ SellosPasados(t') /\ MismosPCB(t, t')
        /\ t'.estado = [t.estado EXCEPT ![w] = IF @ = "EXIT" THEN @ ELSE "READY"]
        /\ t.estado \in [Procesos -> Estados]
    BY <2>4, PasarEfecto
  <2>8. t.estado[w] # "EXIT" /\ t'.estado[w] = "READY" /\ hilo[w].pc = "ninguno" /\ w \notin corre
    BY <2>5, <2>6, <2>7 DEF UnDuenio
  <2>9. SinDesvios' => SinDesvios /\ t.estado[w] = "BLOCK"
    BY <2>4, DesvioEfecto
  <2>10. TiposMP'
    BY <2>5, <2>7 DEF mutex_unlock, enIO, TiposMP
  <2>11. \A q \in Procesos \ {w} : Igual(q)
    BY <2>5, <2>7 DEF Igual, MismosPCB, mutex_unlock
  <2>12. UnDuenio(w)'
    BY <2>5, <2>6, <2>8 DEF UnDuenio, EnIO, mutex_unlock
  <2>13. SinDesvios' => UnaSuspension(w)'
    BY <2>5, <2>7, <2>8, <2>9 DEF Suspensiones, UnaSuspension, Suspendiendo, MismosPCB, mutex_unlock
  <2> QED BY <2>5, <2>9, <2>10, <2>11, <2>12, <2>13, DeUno DEF mutex_unlock
<1> QED BY <1>1, <1>2

\* The process ends.
LEMMA PasoExit ==
  ASSUME TiposMP, Duenios, Suspensiones, NEW p \in Procesos, exit(p)
  PROVE  TiposMP' /\ Duenios' /\ Suspensiones'
<1>1. p \in corre /\ hilo[p].pc = "ninguno" /\ Hilo(p, "exitKM")
  BY DEF exit, Llama
<1>2. /\ hilo' \in [Procesos -> Hebra] /\ \A q \in Procesos \ {p} : hilo'[q] = hilo[q]
      /\ hilo'[p].pc = "exitKM"
  BY <1>1, HiloEfecto DEF PCs
<1>3. UnDuenio(p)
  BY DEF Duenios
<1>4. TiposMP'
  BY <1>2 DEF exit, enIO, TiposMP
<1>5. \A q \in Procesos \ {p} : Igual(q)
  BY <1>2 DEF Igual, exit
<1>6. UnaVezEnCola' /\ UnDuenio(p)'
  BY <1>1, <1>2, <1>3 DEF Duenios, UnaVezEnCola, UnDuenio, EnIO, exit
<1>7. SinDesvios' => UnaSuspension(p)'
  BY <1>1, <1>2, <1>3 DEF Suspensiones, SinDesvios, UnaSuspension, UnDuenio, Suspendiendo, exit
<1> QED BY <1>4, <1>5, <1>6, <1>7, DeUno DEF exit, SinDesvios


-----------------------------------------------------------------------------
(* The tokens of the devices.                                               *)

Saca(d) == {p \in Procesos : hilo[p].pc = "saca" /\ hilo[p].tipo = d}
Usa(d) == {p \in Procesos : hilo[p].pc = "usa" /\ hilo[p].tipo = d}

\* The accounting of the devices, with a name for each set of threads.
LEMMA TokensConNombre ==
  TokensDeIO <=> \A d \in Tipos : /\ libres[d] = sem[d] + Cardinality(Saca(d))
                                  /\ libres[d] + Cardinality(Usa(d)) <= Dispositivos[d]
BY DEF TokensDeIO, Saca, Usa

\* The processes are finitely many, and so are those that take or use a device.
LEMMA CuentaDeProcesos ==
  ASSUME NEW S \in SUBSET Procesos
  PROVE  /\ Cardinality(S) \in Nat
         /\ \A p \in Procesos \ S : Cardinality(S \cup {p}) = Cardinality(S) + 1
         /\ \A p \in S : Cardinality(S \ {p}) = Cardinality(S) - 1
<1>1. IsFiniteSet(S)
  BY MedianoPlazoAssumption, FS_Subset
<1> QED BY <1>1, FS_CardinalityType, FS_AddElement, FS_RemoveElement

\* A thread that neither takes nor uses a device, before or after, counts for nothing.
LEMMA TokensIguales ==
  ASSUME TokensDeIO, UNCHANGED <<libres, sem>>,
         \A q \in Procesos : \/ hilo'[q] = hilo[q]
                             \/ hilo[q].pc \notin {"saca", "usa"} /\ hilo'[q].pc \notin {"saca", "usa"}
  PROVE  TokensDeIO'
<1>1. \A d \in Tipos : Saca(d)' = Saca(d) /\ Usa(d)' = Usa(d)
  BY DEF Saca, Usa
<1> QED BY <1>1, TokensConNombre DEF TokensDeIO, Saca, Usa

\* The accounting of the devices, a device that connects.
LEMMA TokensIdentificar ==
  ASSUME TiposMP, TokensDeIO, NEW d \in Tipos, identificar_io_ks(d)
  PROVE  TokensDeIO'
<1>1. /\ libres' = [libres EXCEPT ![d] = @ + 1] /\ sem' = [sem EXCEPT ![d] = @ + 1]
      /\ libres[d] + Cardinality(Usa(d)) < Dispositivos[d]
      /\ hilo' = hilo
  BY DEF identificar_io_ks, Usa, enKS
<1>2. libres \in [Tipos -> Nat] /\ sem \in [Tipos -> Nat]
  BY DEF TiposMP
<1>3. \A e \in Tipos : Saca(e)' = Saca(e) /\ Usa(e)' = Usa(e)
  BY <1>1 DEF Saca, Usa
<1>4. \A e \in Tipos : libres'[e] = sem'[e] + Cardinality(Saca(e))
                       /\ libres'[e] + Cardinality(Usa(e)) <= Dispositivos[e]
  <2> TAKE e \in Tipos
  <2>1. /\ Cardinality(Saca(e)) \in Nat /\ Cardinality(Usa(e)) \in Nat
        /\ Dispositivos[e] \in Nat /\ libres[e] \in Nat /\ sem[e] \in Nat
    BY <1>2, CuentaDeProcesos, MedianoPlazoAssumption DEF Saca, Usa
  <2>2. libres[e] = sem[e] + Cardinality(Saca(e)) /\ libres[e] + Cardinality(Usa(e)) <= Dispositivos[e]
    BY TokensConNombre
  <2>3. CASE e = d
    <3>1. libres'[e] = libres[e] + 1 /\ sem'[e] = sem[e] + 1
      BY <1>1, <1>2, <2>3
    <3> QED BY <1>1, <2>1, <2>2, <2>3, <3>1
  <2>4. CASE e # d
    BY <1>1, <1>2, <2>2, <2>4
  <2> QED BY <2>3, <2>4
<1> QED BY <1>3, <1>4 DEF TokensDeIO, Saca, Usa

\* A thread that waits takes a token.
LEMMA TokensEsperar ==
  ASSUME TiposMP, Duenios, TokensDeIO, NEW p \in Procesos, esperarIO(p)
  PROVE  TokensDeIO'
<1>1. PICK d \in Tipos : d = hilo[p].tipo
  BY DEF Duenios, UnDuenio, esperarIO
<1>2. /\ hilo[p].pc = "espera" /\ Hilo(p, "saca") /\ sem[d] > 0 /\ sem' = [sem EXCEPT ![d] = @ - 1]
      /\ libres' = libres
  BY <1>1 DEF esperarIO
<1>3. /\ \A q \in Procesos \ {p} : hilo'[q] = hilo[q]
      /\ hilo'[p].pc = "saca" /\ hilo'[p].tipo = d
  BY <1>1, <1>2, HiloEfecto DEF PCs
<1>4. libres \in [Tipos -> Nat] /\ sem \in [Tipos -> Nat]
  BY DEF TiposMP
<1>5. /\ Saca(d)' = Saca(d) \cup {p} /\ p \in Procesos \ Saca(d)
      /\ \A e \in Tipos : Usa(e)' = Usa(e) /\ (e # d => Saca(e)' = Saca(e))
  BY <1>2, <1>3 DEF Saca, Usa
<1>6. \A e \in Tipos : libres'[e] = sem'[e] + Cardinality(Saca(e)')
                       /\ libres'[e] + Cardinality(Usa(e)') <= Dispositivos[e]
  <2> TAKE e \in Tipos
  <2>1. /\ Cardinality(Saca(e)) \in Nat /\ libres[e] \in Nat /\ sem[e] \in Nat
        /\ Saca(e) \in SUBSET Procesos
    BY <1>4, CuentaDeProcesos DEF Saca, Usa
  <2>2. libres[e] = sem[e] + Cardinality(Saca(e)) /\ libres[e] + Cardinality(Usa(e)) <= Dispositivos[e]
    BY TokensConNombre
  <2>3. CASE e = d
    <3>1. sem'[e] = sem[e] - 1 /\ Cardinality(Saca(e)') = Cardinality(Saca(e)) + 1
      BY <1>2, <1>4, <1>5, <2>1, <2>3, CuentaDeProcesos
    <3>2. sem'[e] + Cardinality(Saca(e)') = sem[e] + Cardinality(Saca(e))
      BY <2>1, <3>1
    <3> QED BY <1>2, <1>5, <2>2, <3>2
  <2>4. CASE e # d
    BY <1>2, <1>4, <1>5, <2>2, <2>4
  <2> QED BY <2>3, <2>4
<1> QED BY <1>6 DEF TokensDeIO, Saca, Usa

\* A thread with a token takes a device off the list.
LEMMA TokensSacar ==
  ASSUME TiposMP, Duenios, TokensDeIO, NEW p \in Procesos, sacar_io_libre_por_tipo(p)
  PROVE  TokensDeIO'
<1>1. PICK d \in Tipos : d = hilo[p].tipo
  BY DEF Duenios, UnDuenio, sacar_io_libre_por_tipo
<1>2. /\ hilo[p].pc = "saca" /\ Hilo(p, "usa") /\ libres' = [libres EXCEPT ![d] = @ - 1]
      /\ sem' = sem
  BY <1>1 DEF sacar_io_libre_por_tipo
<1>3. /\ \A q \in Procesos \ {p} : hilo'[q] = hilo[q]
      /\ hilo'[p].pc = "usa" /\ hilo'[p].tipo = d
  BY <1>1, <1>2, HiloEfecto DEF PCs
<1>4. libres \in [Tipos -> Nat] /\ sem \in [Tipos -> Nat]
  BY DEF TiposMP
<1>5. /\ Saca(d)' = Saca(d) \ {p} /\ p \in Saca(d)
      /\ Usa(d)' = Usa(d) \cup {p} /\ p \in Procesos \ Usa(d)
      /\ \A e \in Tipos : e # d => Saca(e)' = Saca(e) /\ Usa(e)' = Usa(e)
  BY <1>1, <1>2, <1>3 DEF Saca, Usa
<1>6. \A e \in Tipos : libres'[e] = sem'[e] + Cardinality(Saca(e)')
                       /\ libres'[e] + Cardinality(Usa(e)') <= Dispositivos[e]
  <2> TAKE e \in Tipos
  <2>1. /\ Cardinality(Saca(e)) \in Nat /\ Cardinality(Usa(e)) \in Nat
        /\ libres[e] \in Nat /\ sem[e] \in Nat /\ Dispositivos[e] \in Nat
        /\ Saca(e) \in SUBSET Procesos /\ Usa(e) \in SUBSET Procesos
    BY <1>4, CuentaDeProcesos, MedianoPlazoAssumption DEF Saca, Usa
  <2>2. libres[e] = sem[e] + Cardinality(Saca(e)) /\ libres[e] + Cardinality(Usa(e)) <= Dispositivos[e]
    BY TokensConNombre
  <2>3. CASE e = d
    <3>1. /\ libres'[e] = libres[e] - 1 /\ sem'[e] = sem[e]
          /\ Cardinality(Saca(e)') = Cardinality(Saca(e)) - 1
          /\ Cardinality(Usa(e)') = Cardinality(Usa(e)) + 1
      BY <1>2, <1>4, <1>5, <2>1, <2>3, CuentaDeProcesos
    <3> QED BY <2>1, <2>2, <3>1
  <2>4. CASE e # d
    BY <1>2, <1>4, <1>5, <2>2, <2>4
  <2> QED BY <2>3, <2>4
<1> QED BY <1>6 DEF TokensDeIO, Saca, Usa

\* A thread that is done puts its device and its token back.
LEMMA TokensLiberar ==
  ASSUME TiposMP, Duenios, TokensDeIO, NEW p \in Procesos, liberar_io(p)
  PROVE  TokensDeIO'
<1>1. PICK d \in Tipos : d = hilo[p].tipo
  BY DEF Duenios, UnDuenio, liberar_io
<1> DEFINE pc == IF d = "STDIN" THEN "asegurar" ELSE "fin"
<1>2. /\ hilo[p].pc = "usa" /\ Hilo(p, pc) /\ libres' = [libres EXCEPT ![d] = @ + 1]
      /\ sem' = [sem EXCEPT ![d] = @ + 1] /\ pc \in {"asegurar", "fin"}
  BY <1>1 DEF liberar_io
<1>3. /\ \A q \in Procesos \ {p} : hilo'[q] = hilo[q]
      /\ hilo'[p].pc \in {"asegurar", "fin"} /\ hilo'[p].tipo = d
  BY <1>1, <1>2, HiloEfecto DEF PCs
<1>4. libres \in [Tipos -> Nat] /\ sem \in [Tipos -> Nat]
  BY DEF TiposMP
<1>5. /\ Usa(d)' = Usa(d) \ {p} /\ p \in Usa(d)
      /\ \A e \in Tipos : Saca(e)' = Saca(e) /\ (e # d => Usa(e)' = Usa(e))
  BY <1>1, <1>2, <1>3 DEF Saca, Usa
<1>6. \A e \in Tipos : libres'[e] = sem'[e] + Cardinality(Saca(e)')
                       /\ libres'[e] + Cardinality(Usa(e)') <= Dispositivos[e]
  <2> TAKE e \in Tipos
  <2>1. /\ Cardinality(Saca(e)) \in Nat /\ Cardinality(Usa(e)) \in Nat
        /\ libres[e] \in Nat /\ sem[e] \in Nat /\ Dispositivos[e] \in Nat
        /\ Usa(e) \in SUBSET Procesos
    BY <1>4, CuentaDeProcesos, MedianoPlazoAssumption DEF Saca, Usa
  <2>2. libres[e] = sem[e] + Cardinality(Saca(e)) /\ libres[e] + Cardinality(Usa(e)) <= Dispositivos[e]
    BY TokensConNombre
  <2>3. CASE e = d
    <3>1. /\ libres'[e] = libres[e] + 1 /\ sem'[e] = sem[e] + 1
          /\ Cardinality(Saca(e)') = Cardinality(Saca(e))
          /\ Cardinality(Usa(e)') = Cardinality(Usa(e)) - 1
      BY <1>2, <1>4, <1>5, <2>1, <2>3, CuentaDeProcesos
    <3> QED BY <2>1, <2>2, <3>1
  <2>4. CASE e # d
    BY <1>2, <1>4, <1>5, <2>2, <2>4
  <2> QED BY <2>3, <2>4
<1> QED BY <1>6 DEF TokensDeIO, Saca, Usa


\* A thread that goes from one step to another without a device.
LEMMA TokensHilo ==
  ASSUME TiposMP, TokensDeIO, NEW p \in Procesos, NEW pc \in PCs, Hilo(p, pc),
         hilo[p].pc \notin {"saca", "usa"}, pc \notin {"saca", "usa"}, UNCHANGED enIO
  PROVE  TokensDeIO'
BY HiloEfecto, TokensIguales DEF enIO

\* A thread that ends without a device.
LEMMA TokensTermina ==
  ASSUME TiposMP, TokensDeIO, NEW p \in Procesos, HiloTermina(p),
         hilo[p].pc \notin {"saca", "usa"}, UNCHANGED enIO
  PROVE  TokensDeIO'
BY HiloTerminaEfecto, TokensIguales DEF enIO

\* The accounting of the devices, every step of an IO thread.
LEMMA TokensDelHilo ==
  ASSUME TiposMP, Duenios, TokensDeIO, NEW p \in Procesos, HiloIO(p)
  PROVE  TokensDeIO'
<1>1. CASE esperarIO(p)
  BY <1>1, TokensEsperar
<1>2. CASE sacar_io_libre_por_tipo(p)
  BY <1>2, TokensSacar
<1>3. CASE liberar_io(p)
  BY <1>3, TokensLiberar
<1>4. CASE bloquear(p)
  <2> DEFINE pc == IF hilo[p].tipo = "STDOUT" THEN "asegurar" ELSE "espera"
  <2>1. hilo[p].pc = "inicio" /\ Hilo(p, pc) /\ pc \in {"asegurar", "espera"} /\ UNCHANGED enIO
    BY <1>4 DEF bloquear
  <2> HIDE DEF pc
  <2> QED BY <2>1, TokensHilo DEF PCs
<1>5. CASE asegurar_proceso_en_memoria(p)
  <2> DEFINE pc == IF t.estado[p] \in {"SUSP_BLOCK", "SUSP_READY"} THEN "traer" ELSE "km"
  <2>1. hilo[p].pc = "asegurar" /\ Hilo(p, pc) /\ pc \in {"traer", "km"} /\ UNCHANGED enIO
    BY <1>5 DEF asegurar_proceso_en_memoria
  <2> HIDE DEF pc
  <2> QED BY <2>1, TokensHilo DEF PCs
<1>6. CASE traer(p)
  <2>1. CASE Hilo(p, "traido")
    <3>1. hilo[p].pc = "traer" /\ UNCHANGED enIO
      BY <1>6 DEF traer
    <3> QED BY <2>1, <3>1, TokensHilo DEF PCs
  <2>2. CASE hilo' = [hilo EXCEPT ![p].intentos = @ + 1,
                                  ![p].pc = IF hilo[p].intentos + 1 = Reintentos THEN "fin" ELSE @]
    <3>1. hilo[p].pc = "traer" /\ UNCHANGED enIO
      BY <1>6 DEF traer
    <3>2. hilo \in [Procesos -> Hebra]
      BY DEF TiposMP
    <3>3. \A q \in Procesos \ {p} : hilo'[q] = hilo[q]
      BY <2>2, <3>2
    <3>4. hilo'[p].pc \in {"fin", "traer"}
      BY <2>2, <3>1, <3>2 DEF Hebra
    <3> QED BY <3>1, <3>3, <3>4, TokensIguales DEF enIO
  <2> QED BY <1>6, <2>1, <2>2 DEF traer
<1>7. CASE traido(p)
  <2>1. hilo[p].pc = "traido" /\ Hilo(p, "km") /\ UNCHANGED enIO
    BY <1>7 DEF traido
  <2> QED BY <2>1, TokensHilo DEF PCs
<1>8. CASE accederMemoria(p)
  <2> DEFINE pc == IF hilo[p].tipo = "STDOUT" THEN "espera" ELSE "fin"
  <2>1. hilo[p].pc = "km" /\ (Hilo(p, pc) \/ Hilo(p, "exitKM")) /\ pc \in {"espera", "fin"}
        /\ UNCHANGED enIO
    BY <1>8 DEF accederMemoria
  <2> HIDE DEF pc
  <2> QED BY <2>1, TokensHilo DEF PCs
<1>9. CASE finalizar_io(p)
  <2> DEFINE pc == IF t.estado[p] = "SUSP_BLOCK" THEN "aSuspReady" ELSE "aReady"
  <2>1. hilo[p].pc = "fin" /\ Hilo(p, pc) /\ pc \in {"aSuspReady", "aReady"} /\ UNCHANGED enIO
    BY <1>9 DEF finalizar_io
  <2> HIDE DEF pc
  <2> QED BY <2>1, TokensHilo DEF PCs
<1>10. CASE desbloquearSuspendido(p)
  <2>1. hilo[p].pc = "aSuspReady" /\ HiloTermina(p) /\ UNCHANGED enIO
    BY <1>10 DEF desbloquearSuspendido
  <2> QED BY <2>1, TokensTermina
<1>11. CASE desbloquear(p)
  <2>1. hilo[p].pc = "aReady" /\ HiloTermina(p) /\ UNCHANGED enIO
    BY <1>11 DEF desbloquear
  <2> QED BY <2>1, TokensTermina
<1>12. CASE km_notificar_exit(p)
  <2>1. hilo[p].pc = "exitKM" /\ Hilo(p, "exit") /\ UNCHANGED enIO
    BY <1>12 DEF km_notificar_exit
  <2> QED BY <2>1, TokensHilo DEF PCs
<1>13. CASE finalizar_proceso(p)
  <2>1. hilo[p].pc = "exit" /\ HiloTermina(p) /\ UNCHANGED enIO
    BY <1>13 DEF finalizar_proceso
  <2> QED BY <2>1, TokensTermina
<1> QED BY <1>1, <1>2, <1>3, <1>4, <1>5, <1>6, <1>7, <1>8, <1>9, <1>10, <1>11, <1>12, <1>13
        DEF HiloIO

\* The calls that take no device.
LEMMA TokensDelPrograma ==
  ASSUME TiposMP, TokensDeIO, NEW p \in Procesos, Programar(p)
  PROVE  TokensDeIO'
<1>1. CASE \/ despachar(p) \/ mem_alloc(p) \/ mem_free(p)
           \/ mutex_lock(p) \/ bloquearPorMutex(p) \/ mutex_unlock(p)
  <2>1. hilo' = hilo /\ UNCHANGED <<libres, sem>>
    BY <1>1 DEF despachar, mem_alloc, mem_free, mutex_lock, bloquearPorMutex, mutex_unlock, enKS, enIO
  <2> QED BY <2>1, TokensIguales
<1>2. CASE exit(p)
  <2>1. hilo[p].pc = "ninguno" /\ Hilo(p, "exitKM") /\ UNCHANGED enIO
    BY <1>2 DEF exit, Llama
  <2> QED BY <2>1, TokensHilo DEF PCs
<1>3. CASE \E d \in Tipos : pedirIO(p, d)
  <2>1. PICK d \in Tipos : pedirIO(p, d)
    BY <1>3
  <2>2. /\ hilo[p].pc = "ninguno" /\ UNCHANGED enIO
        /\ hilo' = [hilo EXCEPT ![p] = [HiloLibre EXCEPT !.pc = "inicio", !.tipo = d]]
    BY <2>1 DEF pedirIO, Llama
  <2>3. hilo \in [Procesos -> Hebra] /\ HiloLibre \in Hebra
    BY DEF TiposMP, Hebra, HiloLibre
  <2>4. hilo'[p].pc = "inicio" /\ \A q \in Procesos \ {p} : hilo'[q] = hilo[q]
    BY <2>2, <2>3 DEF Hebra
  <2> QED BY <2>2, <2>4, TokensIguales DEF enIO
<1> QED BY <1>1, <1>2, <1>3 DEF Programar

-----------------------------------------------------------------------------
(* The first state, and every step.                                         *)

\* In the initial READY queues every PID is in one place.
LEMMA ColasInicialesCoherentes ==
  ASSUME NEW listos \in ColasIniciales
  PROVE  /\ listos \in [Colas -> Seq(Procesos)]
         /\ \A k, l \in Colas : \A i \in 1..Len(listos[k]) : \A j \in 1..Len(listos[l]) :
              /\ listos[k][i] \in Procesos
              /\ listos[k][i] = listos[l][j] => k = l /\ i = j
<1>1. ASSUME NEW k \in Colas
      PROVE  /\ listos[k] \in Seq(Procesos)
             /\ \A i, j \in 1..Len(listos[k]) : listos[k][i] = listos[k][j] => i = j
             /\ \A i \in 1..Len(listos[k]) :
                  listos[k][i] \in Procesos /\ (Algoritmo = "CMN" => PrioridadOriginal[listos[k][i]] = k)
  <2>1. listos[k] \in SetToAllKPermutations(Procesos)
    BY DEF ColasIniciales
  <2>2. PICK S \in SUBSET Procesos : listos[k] \in SetToSeqs(S)
    BY <2>1 DEF SetToAllKPermutations
  <2>3. listos[k] \in Seq(Procesos)
    BY <2>2, PermutacionEsSecuencia
  <2>4. DOMAIN listos[k] = 1..Len(listos[k])
    BY <2>3
  <2>5. \A i, j \in DOMAIN listos[k] : i # j => listos[k][i] # listos[k][j]
    BY <2>2 DEF SetToSeqs
  <2>6. ToSet(listos[k]) = {p \in Procesos : Algoritmo = "CMN" => PrioridadOriginal[p] = k}
    BY DEF ColasIniciales
  <2>7. \A i \in 1..Len(listos[k]) : listos[k][i] \in ToSet(listos[k])
    BY <2>4 DEF ToSet
  <2> QED BY <2>3, <2>4, <2>5, <2>6, <2>7
<1>2. listos \in [Colas -> Seq(Procesos)]
  BY <1>1 DEF ColasIniciales
<1>3. ASSUME NEW k \in Colas, NEW l \in Colas,
             NEW i \in 1..Len(listos[k]), NEW j \in 1..Len(listos[l])
      PROVE  /\ listos[k][i] \in Procesos
             /\ listos[k][i] = listos[l][j] => k = l /\ i = j
  <2>1. listos[k][i] = listos[l][j] => k = l
    BY <1>1 DEF Colas
  <2> QED BY <1>1, <2>1
<1> QED BY <1>2, <1>3

\* The inductive invariant holds initially.
LEMMA Inicio ==
  ASSUME Init
  PROVE  IInv
<1>1. PICK listos \in ColasIniciales :
        t = [ estado    |-> [p \in Procesos |-> "READY"],
              prioridad |-> PrioridadOriginal,
              fdCpu     |-> [p \in Procesos |-> Nadie],
              orden     |-> [p \in Procesos |-> 0],
              enSwap    |-> [p \in Procesos |-> FALSE],
              listas    |-> [l \in ConLista |-> <<>>],
              ready     |-> listos,
              reloj     |-> 0 ]
  BY DEF Init
<1>2. /\ listos \in [Colas -> Seq(Procesos)]
      /\ \A k, l \in Colas : \A i \in 1..Len(listos[k]) : \A j \in 1..Len(listos[l]) :
           listos[k][i] \in Procesos /\ (listos[k][i] = listos[l][j] => k = l /\ i = j)
  BY ColasInicialesCoherentes
<1>3. t \in Tabla
  BY <1>1, <1>2, TablasAssumption DEF Tabla, Estados
<1>4. /\ t.ready = listos /\ t.estado = [p \in Procesos |-> "READY"]
      /\ t.enSwap = [p \in Procesos |-> FALSE]
  BY <1>1
<1>5. ReadyCoherente(t)
  BY <1>2, <1>4 DEF ReadyCoherente
<1>6. HiloLibre \in Hebra /\ HiloLibre.pc = "ninguno" /\ PasadaLibre \in Relevo
      /\ PasadaLibre.pc = "libre"
  BY DEF HiloLibre, Hebra, PasadaLibre, Relevo
<1>7. TiposMP
  <2>1. SellosPasados(t)
    BY <1>1 DEF SellosPasados
  <2> QED BY <1>3, <1>5, <1>6, <2>1 DEF Init, TiposMP
<1>8. /\ \A p \in Procesos : hilo[p].pc = "ninguno" /\ t.estado[p] = "READY" /\ ~t.enSwap[p]
                             /\ timers[p]["pedido"] = 0 /\ timers[p]["hecho"] = 0
                             /\ bloqueando[p] = 0
      /\ cola = <<>> /\ corre = {} /\ km.swap = {} /\ km.muertos = {}
  BY <1>4, <1>6, EtapasDistintas DEF Init
<1>9. Duenios
  BY <1>8 DEF Duenios, UnaVezEnCola, UnDuenio, EnIO, Contains
<1>10. Suspensiones
  BY <1>8 DEF Suspensiones, UnaSuspension, Suspendiendo, Contains
<1>11. TokensDeIO
  <2>1. \A d \in Tipos : Saca(d) = {} /\ Usa(d) = {}
    BY <1>8 DEF Saca, Usa
  <2>2. \A d \in Tipos : libres[d] = 0 /\ sem[d] = 0 /\ Dispositivos[d] \in Nat
    BY MedianoPlazoAssumption DEF Init
  <2>3. Cardinality({}) = 0
    BY FS_EmptySet
  <2> QED BY <2>1, <2>2, <2>3, TokensConNombre
<1> QED BY <1>7, <1>9, <1>10, <1>11 DEF IInv

\* And every step keeps it.
LEMMA Paso ==
  ASSUME IInv, [Next]_vars
  PROVE  IInv'
<1> USE DEF IInv
<1>1. CASE UNCHANGED vars
  <2> USE DEF vars, enKS, enIO, enPrograma
  <2>1. TiposMP'
    BY <1>1 DEF TiposMP
  <2>2. Duenios'
    BY <1>1 DEF Duenios, UnaVezEnCola, UnDuenio, EnIO
  <2>3. Suspensiones'
    BY <1>1 DEF Suspensiones, SinDesvios, UnaSuspension, Suspendiendo
  <2>4. TokensDeIO'
    BY <1>1 DEF TokensDeIO
  <2> QED BY <2>1, <2>2, <2>3, <2>4
<1>2. ASSUME NEW d \in Tipos, identificar_io_ks(d)
      PROVE  IInv'
  BY <1>2, PasoIdentificar, TokensIdentificar
<1>3. ASSUME NEW p \in Procesos, HiloIO(p)
      PROVE  IInv'
  <2>1. TiposMP' /\ Duenios' /\ Suspensiones'
    BY <1>3, PasoBloquear, PasoEsperar, PasoSacar, PasoLiberar, PasoAsegurar, PasoTraer,
       PasoTraido, PasoAcceder, PasoFinalizarIO, PasoDesbloquearSuspendido, PasoDesbloquear,
       PasoNotificarExit, PasoFinalizarProceso DEF HiloIO
  <2> QED BY <1>3, <2>1, TokensDelHilo
<1>4. ASSUME NEW p \in Procesos, Timer(p)
      PROVE  IInv'
  <2>1. TiposMP' /\ Duenios' /\ Suspensiones'
    BY <1>4, PasoVence, PasoSuspender, PasoKmSuspender, PasoMarcar DEF Timer
  <2>2. hilo' = hilo /\ UNCHANGED <<libres, sem>>
    BY <1>4 DEF Timer, venceTimer, suspender, km_suspender_proceso, marcarEnSwap, enIO
  <2> QED BY <2>1, <2>2, TokensIguales
<1>5. ASSUME NEW p \in Procesos, Programar(p)
      PROVE  IInv'
  <2>1. TiposMP' /\ Duenios' /\ Suspensiones'
    BY <1>5, PasoDespachar, PasoPedirIO, PasoMemoria, PasoMutexLock, PasoBloquearPorMutex,
       PasoMutexUnlock, PasoExit
       DEF Programar
  <2> QED BY <1>5, <2>1, TokensDelPrograma
<1>6. ASSUME NEW i \in DOMAIN pasadas, IntentarDesuspender(i)
      PROVE  IInv'
  <2>1. i \in 1..MaxPasadas
    BY DEF TiposMP
  <2>2. TiposMP' /\ Duenios' /\ Suspensiones'
    BY <1>6, <2>1, PasoReunir, PasoKmDesuspender, PasoMover DEF IntentarDesuspender
  <2>3. hilo' = hilo /\ UNCHANGED <<libres, sem>>
    BY <1>6 DEF IntentarDesuspender, reunirCandidatos, km_desuspender_proceso, moverAReady, enIO
  <2> QED BY <2>2, <2>3, TokensIguales
<1> QED BY <1>1, <1>2, <1>3, <1>4, <1>5, <1>6 DEF Next

-----------------------------------------------------------------------------
(* The theorems.                                                            *)

\* The invariant of the mid-term scheduler holds of every behaviour.
THEOREM MedianoPlazoInductivo == Spec => []IInv
BY Inicio, Paso, PTL DEF Spec

\* Whatever the threads and the timers do, a token of a type of device stands for a free
\* device, so sacar_io_libre_por_tipo finds one and none is lost or listed twice.
THEOREM TokensDeIOSiempre == Spec => []TokensDeIO
<1>1. IInv => TokensDeIO
  BY DEF IInv
<1> QED BY <1>1, MedianoPlazoInductivo, PTL

\* No CPU runs a process, and it is not READY, while the thread of one of its calls is not
\* done with it (atender_sleep_ks, atender_stdin_ks, atender_stdout_ks).
THEOREM NadieCorreConIOEnCursoSiempre == Spec => []NadieCorreConIOEnCurso
<1>1. IInv => NadieCorreConIOEnCurso
  BY DEF IInv, Duenios, UnDuenio, NadieCorreConIOEnCurso, EnIO
<1> QED BY <1>1, MedianoPlazoInductivo, PTL

\* As long as no timer or pass acts on what it read earlier, no IO or mutex ends on a process
\* that is suspended, and no mutex is handed to a waiter that its mutex_lock has yet to put in
\* BLOCK, what is READY or running is in memory and no suspension of it is on its way to Kernel
\* Memory (timer_suspension).
THEOREM ListoEnMemoriaSiempre == Spec => []ListoEnMemoria
<1>1. IInv => ListoEnMemoria
  <2> SUFFICES ASSUME IInv, SinDesvios, NEW p \in Procesos,
                      t.estado[p] = "READY" \/ p \in corre
               PROVE  p \notin km.swap /\ timers[p]["pedido"] = 0
    BY DEF ListoEnMemoria
  <2>1. UnaSuspension(p)
    BY DEF IInv, Suspensiones
  <2>2. t.estado[p] \in {"READY", "EXEC"}
    BY <2>1 DEF UnaSuspension
  <2>3. p \notin km.swap /\ Suspendiendo(p) <= 1 /\ Suspendiendo(p) # 1
    BY <2>1, <2>2 DEF UnaSuspension
  <2>4. timers[p]["pedido"] \in Nat /\ timers[p]["hecho"] \in Nat
    BY EtapasDistintas DEF IInv, TiposMP
  <2> QED BY <2>3, <2>4 DEF Suspendiendo
<1> QED BY <1>1, MedianoPlazoInductivo, PTL

\* With the same reserve, a blocked process has a thread that will unblock it or waits in
\* the queue of the mutex (finalizar_io_y_desbloquear, mutex_unlock).
THEOREM BloqueadoEsperaAlgoSiempre == Spec => []BloqueadoEsperaAlgo
<1>1. IInv => BloqueadoEsperaAlgo
  BY DEF IInv, Suspensiones, UnaSuspension, BloqueadoEsperaAlgo
<1> QED BY <1>1, MedianoPlazoInductivo, PTL

\* With the same reserve and no failed suspension, a process in SUSP_READY is one the next
\* pass of intentar_desuspender_procesos takes, or its timer will make that pass.
THEOREM SuspReadyConReintentoSiempre == Spec => []SuspReadyConReintento
<1>1. IInv => SuspReadyConReintento
  <2> SUFFICES ASSUME IInv, SinDesvios, fallas.suspension = 0, NEW p \in Procesos,
                      t.estado[p] = "SUSP_READY"
               PROVE  t.enSwap[p] \/ EnSuspension(p)
    BY DEF SuspReadyConReintento
  <2>1. UnaSuspension(p) /\ UnDuenio(p)
    BY DEF IInv, Suspensiones, Duenios
  <2>2. t.enSwap[p] \/ Suspendiendo(p) = 1
    BY <2>1 DEF UnaSuspension, UnDuenio
  <2> QED BY <2>2 DEF EnSuspension, Suspendiendo
<1> QED BY <1>1, MedianoPlazoInductivo, PTL


-----------------------------------------------------------------------------
(* The order of the suspensions.                                            *)

\* Who stays suspended keeps the stamp of its suspension; the stamp 0 is replaced by the
\* clock when the process changes of list.
PasaElSello ==
  \A q \in Procesos :
    Suspendido(t, q) /\ Suspendido(t', q)
      => t'.orden[q] = IF t.orden[q] = 0 /\ t.estado[q] # t'.estado[q] THEN t.reloj ELSE t.orden[q]

\* A change of state stamps who enters SUSP_BLOCK, and who enters SUSP_READY with no stamp.
LEMMA SelloAlPasar ==
  ASSUME TiposMP, NEW p \in Procesos, NEW nuevo \in ConLista \cup {"READY"}, Pasar(p, nuevo),
         nuevo = "SUSP_BLOCK" => t.estado[p] = "BLOCK",
         nuevo = "SUSP_READY" => t.estado[p] = "SUSP_BLOCK"
  PROVE  PasaElSello
<1>1. /\ \A q \in Procesos :
           q # p \/ t.estado[p] = "EXIT" \/ ~Sella(t, p, nuevo) => t'.orden[q] = t.orden[q]
      /\ t.estado[p] # "EXIT" /\ Sella(t, p, nuevo) => t'.orden[p] = t.reloj
      /\ t'.estado = [t.estado EXCEPT ![p] = IF @ = "EXIT" THEN @ ELSE nuevo]
      /\ t.estado \in [Procesos -> Estados]
  BY PasarEfecto
<1>2. ASSUME NEW q \in Procesos, Suspendido(t, q), Suspendido(t', q)
      PROVE  t'.orden[q] = IF t.orden[q] = 0 /\ t.estado[q] # t'.estado[q] THEN t.reloj ELSE t.orden[q]
  <2>0. t'.estado[q] = IF q = p /\ t.estado[p] # "EXIT" THEN nuevo ELSE t.estado[q]
    BY <1>1
  <2>1. CASE q # p
    BY <1>1, <2>0, <2>1
  <2>2. CASE q = p
    <3>1. nuevo = "SUSP_READY" /\ t.estado[p] = "SUSP_BLOCK" /\ t'.estado[p] = "SUSP_READY"
      BY <1>2, <2>0, <2>2 DEF Suspendido
    <3>2. Sella(t, p, nuevo) <=> t.orden[p] = 0
      BY <3>1 DEF Sella
    <3> QED BY <1>1, <2>2, <3>1, <3>2
  <2> QED BY <2>1, <2>2
<1> QED BY <1>2 DEF PasaElSello

\* A step that changes no state and no stamp.
LEMMA SelloIgual ==
  ASSUME t'.orden = t.orden, t'.estado = t.estado
  PROVE  PasaElSello
BY DEF PasaElSello

\* The threads of IO, the timers, the programs and the passes.
LEMMA SelloDelHilo ==
  ASSUME IInv, NEW p \in Procesos, HiloIO(p), SinDesvios'
  PROVE  PasaElSello
<1>0. TiposMP
  BY DEF IInv
<1>1. CASE bloquear(p) \/ traido(p)
  <2>1. Pasar(p, "BLOCK")
    BY <1>1 DEF bloquear, traido, Bloquear
  <2> QED BY <1>0, <2>1, SelloAlPasar DEF ConLista
<1>2. CASE desbloquearSuspendido(p)
  <2>1. SinDesvios /\ hilo[p].pc = "aSuspReady" /\ Pasar(p, "SUSP_READY")
    BY <1>2 DEF desbloquearSuspendido, SinDesvios
  <2>2. t.estado[p] = "SUSP_BLOCK"
    BY <2>1 DEF IInv, Suspensiones, UnaSuspension
  <2> QED BY <1>0, <2>1, <2>2, SelloAlPasar DEF ConLista
<1>3. CASE desbloquear(p)
  BY <1>0, <1>3, SelloAlPasar DEF desbloquear
<1>4. CASE finalizar_proceso(p)
  BY <1>0, <1>4, SelloAlPasar DEF finalizar_proceso, ConLista
<1>5. CASE \/ esperarIO(p) \/ sacar_io_libre_por_tipo(p) \/ liberar_io(p)
           \/ asegurar_proceso_en_memoria(p) \/ traer(p) \/ accederMemoria(p)
           \/ finalizar_io(p) \/ km_notificar_exit(p)
  <2>1. t' = t
    BY <1>5 DEF esperarIO, sacar_io_libre_por_tipo, liberar_io, asegurar_proceso_en_memoria,
       traer, accederMemoria, finalizar_io, km_notificar_exit
  <2> QED BY <2>1, SelloIgual
<1> QED BY <1>1, <1>2, <1>3, <1>4, <1>5 DEF HiloIO

\* A timer stamps the process that it suspends, and no other.
LEMMA SelloDelTimer ==
  ASSUME TiposMP, NEW p \in Procesos, Timer(p), SinDesvios'
  PROVE  PasaElSello
<1>1. CASE suspender(p)
  <2>1. t.estado[p] = "BLOCK"
    BY <1>1, DesvioEfecto DEF suspender
  <2> QED BY <1>1, <2>1, SelloAlPasar DEF suspender, ConLista
<1>2. CASE marcarEnSwap(p)
  <2>1. t'.orden = t.orden /\ t'.estado = t.estado
    BY <1>2 DEF marcarEnSwap, TiposMP, Tabla
  <2> QED BY <2>1, SelloIgual
<1>3. CASE venceTimer(p) \/ km_suspender_proceso(p)
  BY <1>3, SelloIgual DEF venceTimer, km_suspender_proceso
<1> QED BY <1>1, <1>2, <1>3 DEF Timer

\* The programs move processes to EXEC, BLOCK and READY.
LEMMA SelloDelPrograma ==
  ASSUME TiposMP, NEW p \in Procesos, Programar(p)
  PROVE  PasaElSello
<1>1. CASE despachar(p)
  BY <1>1, SelloAlPasar DEF despachar, ConLista
<1>2. CASE bloquearPorMutex(p)
  BY <1>2, SelloAlPasar DEF bloquearPorMutex, Bloquear, ConLista
<1>3. CASE mutex_unlock(p)
  <2>1. CASE cola = <<>>
    BY <1>3, <2>1, SelloIgual DEF mutex_unlock
  <2>2. CASE cola # <<>>
    <3>1. Head(cola) \in Procesos
      BY <2>2 DEF TiposMP
    <3> QED BY <1>3, <2>2, <3>1, SelloAlPasar DEF mutex_unlock
  <2> QED BY <2>1, <2>2
<1>4. CASE mem_alloc(p) \/ mem_free(p) \/ mutex_lock(p) \/ exit(p) \/ \E d \in Tipos : pedirIO(p, d)
  <2>1. t' = t
    BY <1>4 DEF mem_alloc, mem_free, mutex_lock, exit, pedirIO, enKS
  <2> QED BY <2>1, SelloIgual
<1> QED BY <1>1, <1>2, <1>3, <1>4 DEF Programar

\* A pass of the mid-term scheduler stamps nothing.
LEMMA SelloDeLaPasada ==
  ASSUME TiposMP, NEW i \in 1..MaxPasadas, IntentarDesuspender(i)
  PROVE  PasaElSello
<1>1. CASE reunirCandidatos(i) \/ km_desuspender_proceso(i)
  BY <1>1, SelloIgual DEF reunirCandidatos, km_desuspender_proceso
<1>2. CASE moverAReady(i)
  <2>1. PICK p \in Procesos : p = Head(pasadas[i].cand)
    BY <1>2, Candidato DEF moverAReady
  <2>2. t' = Reanudado(p)
    BY <1>2, <2>1 DEF moverAReady
  <2>3. /\ t.estado[p] # "SUSP_READY" => t' = t
        /\ t.estado[p] = "SUSP_READY" => t'.estado[p] = "READY"
        /\ \A q \in Procesos \ {p} : t'.orden[q] = t.orden[q] /\ t'.estado[q] = t.estado[q]
    BY <2>2, ReanudadoEfecto
  <2> QED BY <2>3 DEF PasaElSello, Suspendido
<1> QED BY <1>1, <1>2 DEF IntentarDesuspender

\* What every step does to the stamps of who stays suspended.
LEMMA PasoPasaElSello ==
  ASSUME IInv, [Next]_vars, SinDesvios'
  PROVE  PasaElSello
<1>0. TiposMP
  BY DEF IInv
<1>1. CASE UNCHANGED vars
  BY <1>1, SelloIgual DEF vars, enKS
<1>2. ASSUME NEW d \in Tipos, identificar_io_ks(d)
      PROVE  PasaElSello
  BY <1>2, SelloIgual DEF identificar_io_ks, enKS
<1>3. ASSUME NEW i \in DOMAIN pasadas, IntentarDesuspender(i)
      PROVE  PasaElSello
  BY <1>0, <1>3, SelloDeLaPasada DEF TiposMP
<1> QED BY <1>0, <1>1, <1>2, <1>3, SelloDelHilo, SelloDelTimer, SelloDelPrograma DEF Next

\* While two processes stay suspended, who was suspended first stays first, but for the one
\* whose stamp is 0: the end of its wait stamps it again (procesoASuspReady), and leaves it
\* behind everybody.
THEOREM AntiguedadEstableSiempre == Spec => AntiguedadEstable
<1>1. ASSUME IInv, [Next]_vars
      PROVE  SinDesvios' =>
               \A p, q \in Procesos :
                 /\ Suspendido(t, p) /\ Suspendido(t', p) /\ Suspendido(t, q) /\ Suspendido(t', q)
                 /\ t.orden[p] < t.orden[q]
                 => IF t.orden[p] = 0 /\ t.estado[p] # t'.estado[p]
                    THEN t'.orden[q] < t'.orden[p]
                    ELSE t'.orden[p] < t'.orden[q]
  <2> SUFFICES ASSUME SinDesvios', NEW p \in Procesos, NEW q \in Procesos,
                      Suspendido(t, p), Suspendido(t', p), Suspendido(t, q), Suspendido(t', q),
                      t.orden[p] < t.orden[q]
               PROVE  IF t.orden[p] = 0 /\ t.estado[p] # t'.estado[p]
                      THEN t'.orden[q] < t'.orden[p]
                      ELSE t'.orden[p] < t'.orden[q]
    OBVIOUS
  <2>1. t.orden[p] \in Nat /\ t.orden[q] \in Nat /\ t.reloj \in Nat
    BY <1>1 DEF IInv, TiposMP, Tabla
  <2>2. t.orden[q] # 0
    BY <2>1
  <2>3. t.orden[q] < t.reloj
    BY <1>1, <2>2 DEF IInv, TiposMP, SellosPasados
  <2>4. /\ t'.orden[q] = t.orden[q]
        /\ t'.orden[p] = IF t.orden[p] = 0 /\ t.estado[p] # t'.estado[p] THEN t.reloj ELSE t.orden[p]
    <3>1. PasaElSello
      BY <1>1, PasoPasaElSello
    <3> QED BY <2>2, <3>1 DEF PasaElSello
  <2> QED BY <2>3, <2>4
<1> QED BY <1>1, MedianoPlazoInductivo, PTL DEF Spec, AntiguedadEstable

=============================================================================
