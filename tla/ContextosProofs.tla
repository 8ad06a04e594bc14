-------------------------- MODULE ContextosProofs ---------------------------
(* Proofs about the contexts of the processes of SesionCPU: where each one is,  *)
(* and that the CPU which runs it has the last one and its table.               *)
EXTENDS SesionCPUProofs

-----------------------------------------------------------------------------
(* Where the context of each process is.                                    *)

\* The processes that the messages of s of the types of T are about, and the contexts of
\* s, which have the program counter their processes have reached.
De(s, T) == {p \in Procesos : \E i \in 1..Len(s) : s[i].t \in T /\ s[i].pid = p}
AlDiaEn(s, r) == \A i \in 1..Len(s) : s[i].t = "contexto" => s[i].pc = r[s[i].pid]

\* The process whose context a CPU executes, or is about to take; those whose context it
\* has still to save, or Kernel Memory to read; and those which, for what the CPU and the
\* scheduler say to each other, run nowhere.
Cicladas == {"respuesta", "instruccion", "tabla", "segmentos", "ejecuta", "respKS", "interrupciones"}
Lleva(k, f) ==
  IF k.pc \in Cicladas \/ (k.pc = "contexto" /\ De(f, {"contexto"}) # {}) THEN {k.pid} ELSE {}
PorGuardar(k, q, d) ==
  De(q, {"contexto"}) \cup (IF k.pc = "respKS" /\ Hay(d, "BLOQUEADO") THEN {k.pid} ELSE {})
Duermen(k, a, d) ==
  De(d, {"PID"}) \cup De(a, {"SLEEP", "ATENDIDA"})
    \cup (IF k.pc \in {"mapaCod", "mapaBuf", "contexto"} \/ (k.pc = "okGuarda" /\ k.tras # "BLOQUEADO")
          THEN {k.pid} ELSE {})
Copia(k, q, f, r) ==
  /\ k.pc \in Cicladas => k.ctx = r[k.pid]
  /\ k.pc = "contexto" => AlDiaEn(f, r)
  /\ AlDiaEn(q, r)

LlevaDe(c) == Lleva(cpu[c], Flujo(c))
PorGuardarDe(c) == PorGuardar(cpu[c], aKM[c], deKS[c])
DuermenDe(c) == Duermen(cpu[c], aKS[c], deKS[c])
\* The state of each process, where one that has been answered that it is blocked is blocked
\* from then on.
Visto(plan) ==
  [p \in Procesos |-> IF \E c \in CPUs : plan.manejador[c].pc = "bloquear" /\ plan.manejador[c].pid = p
                      THEN "BLOCK" ELSE plan.estado[p]]
Dormido(p) == Visto(ks)[p] \in {"READY", "BLOCK"} \/ \E c \in CPUs : p \in DuermenDe(c)

\* A context that Kernel Memory will not take is the one of a process that ends.
Sale(q, a, estado) ==
  q # <<>> /\ q[1].t # "INTERRUPT" =>
    \A p \in De(q, {"contexto"}) : estado[p] = "EXIT" \/ p \in De(a, {"DONE"})
Salidas == \A c \in CPUs : Sale(aKM[c], aKS[c], Visto(ks))
AlDia ==
  /\ \A c \in CPUs : Copia(cpu[c], aKM[c], Flujo(c), real)
  /\ \A c, d \in CPUs : c # d => LlevaDe(c) \cap PorGuardarDe(d) = {}
  /\ \A p \in Procesos :
       km[p].vivo /\ Dormido(p) => km[p].pc = real[p] \/ \E c \in CPUs : p \in PorGuardarDe(c)
Contextuales == Salidas /\ ("mutex" \notin desvios => AlDia)

\* Who runs on each CPU, with those states.
LEMMA VistoEs ==
  ASSUME NEW plan, Esperas(plan)
  PROVE  /\ \A c \in CPUs : \A p \in Procesos :
              p \in Suyos(plan, c) <=> Visto(plan)[p] = "EXEC" /\ plan.en[p] = c /\ c \notin Libres(plan)
         /\ \A p \in Procesos : plan.estado[p] # "EXEC" => Visto(plan)[p] = plan.estado[p]
<1> DEFINE Espera(p) == \E c \in CPUs : plan.manejador[c].pc = "bloquear" /\ plan.manejador[c].pid = p
<1>1. \A p \in Procesos : Visto(plan)[p] = IF Espera(p) THEN "BLOCK" ELSE plan.estado[p]
  BY DEF Visto
<1>2. \A p \in Procesos : Espera(p) => plan.estado[p] = "EXEC" /\ plan.en[p] \in Libres(plan)
  BY DEF Esperas, Libres
<1> HIDE DEF Espera
<1> QED BY <1>1, <1>2 DEF Suyos

\* They are states.
LEMMA VistoTipo == ASSUME Tipos PROVE Visto(ks) \in [Procesos -> Estados]
<1>1. ks.estado \in [Procesos -> Estados] /\ "BLOCK" \in Estados
  BY DEF Tipos, TiposDeProceso, Planes, Estados
<1> QED BY <1>1 DEF Visto

\* Who runs on a CPU is in EXEC, and on that one.
LEMMA SuyoVisto ==
  ASSUME Turnos, NEW c \in CPUs, NEW p \in Suyos(ks, c)
  PROVE  p \in Procesos /\ Visto(ks)[p] = "EXEC" /\ ks.en[p] = c /\ c \notin Libres(ks)
<1>1. p \in Procesos /\ Esperas(ks)
  BY DEF Suyos, Turnos
<1> QED BY <1>1, VistoEs


\* What a message that is read, or written, and the messages that follow others, do to these.
LEMMA DeCola ==
  ASSUME NEW S, NEW s \in Seq(S), s # <<>>, NEW T
  PROVE  /\ De(s, T) = De(Tail(s), T) \cup {p \in Procesos : Head(s).t \in T /\ Head(s).pid = p}
         /\ \A r : AlDiaEn(s, r) => /\ AlDiaEn(Tail(s), r)
                                    /\ Head(s).t = "contexto" => Head(s).pc = r[Head(s).pid]
<1> DEFINE u == Tail(s)
           n == Len(s)
<1>1. /\ Len(u) = n - 1
      /\ \A i \in 1..Len(u) : u[i] = s[i + 1]
  BY HeadTailProperties
<1>2. n \in Nat /\ n # 0 /\ Head(s) = s[1]
  BY LenProperties, EmptySeq
<1>3. 1 \in 1..n /\ \A i \in 1..(n - 1) : i + 1 \in 1..n
  BY <1>2
<1>4. \A i \in 1..n : i = 1 \/ (i - 1 \in 1..(n - 1) /\ (i - 1) + 1 = i)
  BY <1>2
<1> HIDE DEF u, n
<1>5. ASSUME NEW p \in Procesos
      PROVE  p \in De(s, T) <=> p \in De(u, T) \/ (Head(s).t \in T /\ Head(s).pid = p)
  <2>1. p \in De(s, T) => p \in De(u, T) \/ (Head(s).t \in T /\ Head(s).pid = p)
    <3> SUFFICES ASSUME NEW i \in 1..n, s[i].t \in T, s[i].pid = p, i # 1 PROVE p \in De(u, T)
      BY <1>2 DEF De, n
    <3>1. i - 1 \in 1..(n - 1) /\ u[i - 1] = s[i]
      BY <1>1, <1>4
    <3> QED BY <3>1, <1>1 DEF De
  <2>2. p \in De(u, T) => p \in De(s, T)
    <3> SUFFICES ASSUME NEW i \in 1..(n - 1), u[i].t \in T, u[i].pid = p PROVE p \in De(s, T)
      BY <1>1 DEF De
    <3>1. i + 1 \in 1..n /\ u[i] = s[i + 1]
      BY <1>1, <1>3
    <3> QED BY <3>1 DEF De, n
  <2>3. Head(s).t \in T /\ Head(s).pid = p => p \in De(s, T)
    BY <1>2, <1>3 DEF De, n
  <2> QED BY <2>1, <2>2, <2>3
<1>6. ASSUME NEW r, AlDiaEn(s, r)
      PROVE  AlDiaEn(u, r) /\ (Head(s).t = "contexto" => Head(s).pc = r[Head(s).pid])
  BY <1>1, <1>2, <1>3, <1>6 DEF AlDiaEn, n
<1>7. De(s, T) = De(u, T) \cup {p \in Procesos : Head(s).t \in T /\ Head(s).pid = p}
  <2>1. De(s, T) \subseteq Procesos /\ De(u, T) \subseteq Procesos
    BY DEF De
  <2> QED BY <1>5, <2>1
<1> QED BY <1>6, <1>7 DEF u

\* What two runs of frames say, one after the other, is what each says.
LEMMA DeJuntas ==
  ASSUME NEW S, NEW s \in Seq(S), NEW v \in Seq(S), NEW T
  PROVE  /\ De(s \o v, T) = De(s, T) \cup De(v, T)
         /\ \A r : AlDiaEn(s \o v, r) <=> AlDiaEn(s, r) /\ AlDiaEn(v, r)
<1> DEFINE u == s \o v
           n == Len(s)
           m == Len(v)
<1>1. /\ Len(u) = n + m /\ n \in Nat /\ m \in Nat
      /\ \A i \in 1..(n + m) : u[i] = IF i <= n THEN s[i] ELSE v[i - n]
  BY ConcatProperties, LenProperties
<1>2. \A i \in 1..n : i \in 1..(n + m) /\ i <= n
  BY <1>1
<1>3. \A i \in 1..m : i + n \in 1..(n + m) /\ ~(i + n <= n) /\ (i + n) - n = i
  BY <1>1
<1>4. \A i \in 1..(n + m) : i \in 1..n \/ (~(i <= n) /\ i - n \in 1..m)
  BY <1>1
<1> HIDE DEF u, n, m
<1>5. \A i \in 1..n : u[i] = s[i]
  BY <1>1, <1>2
<1>6. \A i \in 1..m : u[i + n] = v[i]
  BY <1>1, <1>3
<1>7. \A i \in 1..(n + m) : i \in 1..n \/ (i - n \in 1..m /\ u[i] = v[i - n])
  BY <1>1, <1>4
<1>8. ASSUME NEW p \in Procesos
      PROVE  p \in De(u, T) <=> p \in De(s, T) \/ p \in De(v, T)
  <2>1. p \in De(u, T) => p \in De(s, T) \/ p \in De(v, T)
    <3> SUFFICES ASSUME NEW i \in 1..(n + m), u[i].t \in T, u[i].pid = p
                 PROVE  p \in De(s, T) \/ p \in De(v, T)
      BY <1>1 DEF De
    <3>1. CASE i \in 1..n
      BY <3>1, <1>5 DEF De, n
    <3>2. CASE i - n \in 1..m /\ u[i] = v[i - n]
      BY <3>2 DEF De, m
    <3> QED BY <1>7, <3>1, <3>2
  <2>2. p \in De(s, T) => p \in De(u, T)
    BY <1>1, <1>2, <1>5 DEF De, n
  <2>3. p \in De(v, T) => p \in De(u, T)
    BY <1>1, <1>3, <1>6 DEF De, m
  <2> QED BY <2>1, <2>2, <2>3
<1>9. ASSUME NEW r PROVE AlDiaEn(u, r) <=> AlDiaEn(s, r) /\ AlDiaEn(v, r)
  <2>1. AlDiaEn(u, r) => AlDiaEn(s, r)
    BY <1>1, <1>2, <1>5 DEF AlDiaEn, n
  <2>2. AlDiaEn(u, r) => AlDiaEn(v, r)
    BY <1>1, <1>3, <1>6 DEF AlDiaEn, m
  <2>3. AlDiaEn(s, r) /\ AlDiaEn(v, r) => AlDiaEn(u, r)
    <3> SUFFICES ASSUME AlDiaEn(s, r), AlDiaEn(v, r), NEW i \in 1..(n + m), u[i].t = "contexto"
                 PROVE  u[i].pc = r[u[i].pid]
      BY <1>1 DEF AlDiaEn
    <3>1. CASE i \in 1..n
      BY <3>1, <1>5 DEF AlDiaEn, n
    <3>2. CASE i - n \in 1..m /\ u[i] = v[i - n]
      BY <3>2 DEF AlDiaEn, m
    <3> QED BY <1>7, <3>1, <3>2
  <2> QED BY <2>1, <2>2, <2>3
<1>10. De(u, T) = De(s, T) \cup De(v, T)
  <2>1. De(s, T) \subseteq Procesos /\ De(u, T) \subseteq Procesos /\ De(v, T) \subseteq Procesos
    BY DEF De
  <2> QED BY <1>8, <2>1
<1> QED BY <1>9, <1>10 DEF u

\* What one frame says.
LEMMA DeUna ==
  ASSUME NEW m, NEW T
  PROVE  /\ De(<<m>>, T) = {p \in Procesos : m.t \in T /\ m.pid = p}
         /\ \A r : AlDiaEn(<<m>>, r) <=> (m.t = "contexto" => m.pc = r[m.pid])
<1> DEFINE v == <<m>>
<1>1. Len(v) = 1 /\ v[1] = m /\ 1..1 = {1}
  OBVIOUS
<1> HIDE DEF v
<1>2. De(v, T) = {p \in Procesos : m.t \in T /\ m.pid = p}
  BY <1>1 DEF De
<1>3. \A r : AlDiaEn(v, r) <=> (m.t = "contexto" => m.pc = r[m.pid])
  BY <1>1 DEF AlDiaEn
<1> QED BY <1>2, <1>3 DEF v

\* No frame says nothing.
LEMMA DeNada == ASSUME NEW T PROVE De(<<>>, T) = {} /\ \A r : AlDiaEn(<<>>, r)
<1> DEFINE v == <<>>
<1>1. 1..Len(v) = {}
  OBVIOUS
<1> HIDE DEF v
<1>2. De(v, T) = {} /\ \A r : AlDiaEn(v, r)
  BY <1>1 DEF De, AlDiaEn
<1> QED BY <1>2 DEF v

\* One more frame adds what it says.
LEMMA DeMas ==
  ASSUME NEW S, NEW s \in Seq(S), NEW m \in S, NEW T
  PROVE  /\ De(Append(s, m), T) = De(s, T) \cup {p \in Procesos : m.t \in T /\ m.pid = p}
         /\ \A r : AlDiaEn(Append(s, m), r) <=> AlDiaEn(s, r) /\ (m.t = "contexto" => m.pc = r[m.pid])
<1> DEFINE v == <<m>>
<1>1. v \in Seq(S) /\ Append(s, m) = s \o v
  BY AppendIsConcat
<1>2. /\ De(v, T) = {p \in Procesos : m.t \in T /\ m.pid = p}
      /\ \A r : AlDiaEn(v, r) <=> (m.t = "contexto" => m.pc = r[m.pid])
  BY DeUna
<1> HIDE DEF v
<1>3. De(s \o v, T) = De(s, T) \cup De(v, T) /\ \A r : AlDiaEn(s \o v, r) <=> AlDiaEn(s, r) /\ AlDiaEn(v, r)
  BY <1>1, DeJuntas
<1> QED BY <1>1, <1>2, <1>3

\* Noise carries no context, and neither do the answers to a FETCH.
LEMMA SinContexto ==
  ASSUME NEW f
  PROVE  /\ EsRuido(f) => De(f, {"contexto"}) = {} /\ \A r : AlDiaEn(f, r)
         /\ \A p, n : Acaba(f, InstruccionDe(p, n), {"OK", "ERROR"}) =>
              De(f, {"contexto"}) = {} /\ \A r : AlDiaEn(f, r)
<1>1. ASSUME \A i \in 1..Len(f) : f[i].t # "contexto"
      PROVE  De(f, {"contexto"}) = {} /\ \A r : AlDiaEn(f, r)
  BY <1>1 DEF De, AlDiaEn
<1>2. EsRuido(f) => \A i \in 1..Len(f) : f[i].t # "contexto"
  BY DEF EsRuido, Ruido
<1>3. ASSUME NEW p, NEW n, Acaba(f, InstruccionDe(p, n), {"OK", "ERROR"})
      PROVE  \A i \in 1..Len(f) : f[i].t # "contexto"
  BY <1>3 DEF Acaba, Ruido, InstruccionDe
<1> QED BY <1>1, <1>2, <1>3


\* Who a CPU carries it runs, or it has still to save.
LEMMA LlevaEs ==
  ASSUME TiposDeCPU, Turnos, NEW c \in CPUs, NEW p \in LlevaDe(c)
  PROVE  /\ p = cpu[c].pid
         /\ \/ Corre(cpu[c], deKS[c]) /\ p \in Suyos(ks, c)
            \/ p \in PorGuardarDe(c) /\ cpu[c].pc = "respKS" /\ Hay(deKS[c], "BLOQUEADO")
<1> DEFINE k == cpu[c]
           d == deKS[c]
<1>1. Turno(k, aKS[c], d, Suyos(ks, c), Libres(ks) \cap {c})
  BY TurnoEs
<1>2. p = k.pid /\ k.pc \in Cicladas \cup {"contexto"}
  BY DEF LlevaDe, Lleva
<1>3. Corre(k, d) \/ (k.pc = "respKS" /\ Hay(d, "BLOQUEADO"))
  BY <1>2 DEF Corre, EnMarcha, Cicladas
<1>4. Corre(k, d) => k.pid \in Suyos(ks, c)
  BY <1>1 DEF Turno
<1>5. k.pc = "respKS" /\ Hay(d, "BLOQUEADO") => p \in PorGuardarDe(c)
  BY <1>2 DEF PorGuardarDe, PorGuardar
<1> QED BY <1>2, <1>3, <1>4, <1>5

\* No two CPUs carry the same process.
LEMMA LlevaUno ==
  ASSUME TiposDeCPU, Turnos, AlDia, NEW c \in CPUs, NEW e \in CPUs, c # e
  PROVE  LlevaDe(c) \cap LlevaDe(e) = {}
<1> SUFFICES ASSUME NEW p \in LlevaDe(c), p \in LlevaDe(e) PROVE FALSE
  OBVIOUS
<1>1. ~(p \in Suyos(ks, c) /\ p \in Suyos(ks, e))
  BY DEF Suyos
<1>2. p \notin PorGuardarDe(c) /\ p \notin PorGuardarDe(e)
  BY DEF AlDia
<1> QED BY <1>1, <1>2, LlevaEs

\* Who is dispatched, or has not said that it leaves, is running for the scheduler.
LEMMA DuermeSuyo ==
  ASSUME TiposDeCPU, Turnos, NEW c \in CPUs, NEW p \in DuermenDe(c)
  PROVE  p \in Suyos(ks, c)
<1> DEFINE k == cpu[c]
           a == aKS[c]
           d == deKS[c]
           S == Suyos(ks, c)
<1>1. Turno(k, a, d, S, Libres(ks) \cap {c}) /\ a \in Seq(Avisados) /\ d \in Seq(Ordenes)
  BY TurnoEs
<1>2. p \in De(d, {"PID"}) \/ p \in De(a, {"SLEEP", "ATENDIDA"})
      \/ (p = k.pid /\ (k.pc \in {"mapaCod", "mapaBuf", "contexto"} \/ (k.pc = "okGuarda" /\ k.tras # "BLOQUEADO")))
  BY DEF DuermenDe, Duermen
<1>3. CASE p \in De(d, {"PID"})
  BY <1>1, <1>3 DEF De, Turno, ConPID
<1>4. CASE p \in De(a, {"SLEEP", "ATENDIDA"})
  BY <1>1, <1>4 DEF De, Turno, Pendientes
<1>5. CASE p = k.pid /\ (k.pc \in {"mapaCod", "mapaBuf", "contexto"} \/ (k.pc = "okGuarda" /\ k.tras # "BLOQUEADO"))
  <2>1. Corre(k, d)
    BY <1>5 DEF Corre, EnMarcha
  <2> QED BY <1>1, <1>5, <2>1 DEF Turno
<1> QED BY <1>2, <1>3, <1>4, <1>5

\* A message to a CPU, or from it, of some type.
LEMMA DeHay ==
  ASSUME NEW s, NEW T, NEW p \in De(s, T)
  PROVE  \E t \in T : Hay(s, t)
BY DEF De, Hay

\* A process that a CPU executes does not sleep.
LEMMA NoDuerme ==
  ASSUME TiposDeCPU, Turnos, NEW c \in CPUs, cpu[c].pc \in {"ejecuta", "respKS"},
         Corre(cpu[c], deKS[c])
  PROVE  ~Dormido(cpu[c].pid)
<1> DEFINE k == cpu[c]
           a == aKS[c]
           d == deKS[c]
           p == k.pid
<1>1. Turno(k, a, d, Suyos(ks, c), Libres(ks) \cap {c})
  BY TurnoEs
<1>2. p \in Suyos(ks, c)
  BY <1>1 DEF Turno
<1>3. Visto(ks)[p] \notin {"READY", "BLOCK"}
  BY <1>2, SuyoVisto
<1>4. \A e \in CPUs : p \in DuermenDe(e) => e = c
  BY <1>2, DuermeSuyo DEF Suyos
<1>5. ~Hay(d, "PID") /\ ~Hay(a, "SLEEP") /\ ~Hay(a, "ATENDIDA")
  BY <1>1 DEF Turno
<1>6. p \notin De(d, {"PID"}) /\ p \notin De(a, {"SLEEP", "ATENDIDA"})
  BY <1>5, DeHay
<1>7. p \notin DuermenDe(c)
  BY <1>6 DEF DuermenDe, Duermen
<1> QED BY <1>3, <1>4, <1>7 DEF Dormido

\* The context a CPU waits for is that of the process it was told to run.
LEMMA ContextoSuyo ==
  ASSUME NEW k, NEW s, NEW q, NEW f \in Seq(Tramas), Fase(k, s, q, f), k.pc = "contexto"
  PROVE  De(f, {"contexto"}) \subseteq {k.pid}
<1>1. EsRuido(f) \/ Acaba(f, Contextos(k.pid), {})
  BY DEF Fase, EnContexto
<1>2. EsRuido(f) => De(f, {"contexto"}) = {}
  BY SinContexto
<1>3. Acaba(f, Contextos(k.pid), {}) => De(f, {"contexto"}) \subseteq {k.pid}
  BY DEF Acaba, Contextos, Ruido, De
<1> QED BY <1>1, <1>2, <1>3

\* A process that goes on leaves the contexts of others up to date.
LEMMA AlDiaDeOtros ==
  ASSUME NEW s \in Seq(Tramas), NEW r, NEW z, AlDiaEn(s, r), NEW p,
         p \notin De(s, {"contexto"}), \A x \in Procesos \ {p} : z[x] = r[x]
  PROVE  AlDiaEn(s, z)
<1> SUFFICES ASSUME NEW i \in 1..Len(s), s[i].t = "contexto" PROVE s[i].pc = z[s[i].pid]
  BY DEF AlDiaEn
<1>1. s[i] \in Tramas
  BY ElementOfSeq
<1>2. s[i].pid \in Procesos
  BY <1>1 DEF Tramas
<1>3. s[i].pid # p
  BY <1>2 DEF De
<1> QED BY <1>2, <1>3 DEF AlDiaEn

-----------------------------------------------------------------------------
(* What a step has to keep.                                                 *)

\* A step of CPU c, that goes on to record k with q, a, d and f in its sockets, keeps it if
\* it carries no other process, saves no other, and puts none to sleep without saving it.
LEMMA ContextosDeCPU ==
  ASSUME TiposDeCPU, real \in [Procesos -> Nat], Fases, Turnos, Contextuales, NEW c \in CPUs,
         UNCHANGED <<km, ks, sesion>>, "mutex" \in desvios => "mutex" \in desvios',
         NEW k, cpu' = [cpu EXCEPT ![c] = k],
         NEW q, (aKM' = aKM /\ q = aKM[c]) \/ aKM' = [aKM EXCEPT ![c] = q],
         NEW a, (aKS' = aKS /\ a = aKS[c]) \/ aKS' = [aKS EXCEPT ![c] = a],
         NEW d, (deKS' = deKS /\ d = deKS[c]) \/ deKS' = [deKS EXCEPT ![c] = d],
         NEW f, \/ deKM' = deKM /\ f = Flujo(c)
                \/ deKM[c] # <<>> /\ deKM' = [deKM EXCEPT ![c] = Tail(@)] /\ f = Tail(Flujo(c)),
         Sale(q, a, Visto(ks)),
         Lleva(k, f) \subseteq LlevaDe(c),
         PorGuardarDe(c) \subseteq PorGuardar(k, q, d),
         PorGuardar(k, q, d) \subseteq PorGuardarDe(c) \cup LlevaDe(c),
         Duermen(k, a, d) \subseteq DuermenDe(c) \cup PorGuardar(k, q, d),
         "mutex" \notin desvios => Copia(k, q, f, real'),
         \/ real' = real
         \/ /\ cpu[c].pc \in {"ejecuta", "respKS"}
            /\ \E n \in Nat : real' = [real EXCEPT ![cpu[c].pid] = n]
            /\ ~Corre(cpu[c], deKS[c]) => cpu[c].pid \in PorGuardar(k, q, d)
  PROVE  Contextuales'
<1> DEFINE p == cpu[c].pid
<1>9. cpu'[c] = k /\ \A e \in CPUs \ {c} : cpu'[e] = cpu[e]
  BY DEF TiposDeCPU
<1>10. aKM'[c] = q /\ \A e \in CPUs \ {c} : aKM'[e] = aKM[e]
  BY DEF TiposDeCPU
<1>11. aKS'[c] = a /\ \A e \in CPUs \ {c} : aKS'[e] = aKS[e]
  BY DEF TiposDeCPU
<1>12. deKS'[c] = d /\ \A e \in CPUs \ {c} : deKS'[e] = deKS[e]
  BY DEF TiposDeCPU
<1>13. Flujo(c)' = f /\ \A e \in CPUs \ {c} : Flujo(e)' = Flujo(e)
  <2>1. CASE deKM' = deKM /\ f = Flujo(c)
    BY <2>1 DEF Flujo
  <2>2. CASE deKM[c] # <<>> /\ deKM' = [deKM EXCEPT ![c] = Tail(@)] /\ f = Tail(Flujo(c))
    <3>1. deKM'[c] = Tail(deKM[c]) /\ \A e \in CPUs \ {c} : deKM'[e] = deKM[e]
      BY <2>2 DEF TiposDeCPU
    <3>2. Tail(deKM[c]) \o sesion[c].envio = f
      BY <2>2, Lectura
    <3> QED BY <3>1, <3>2 DEF Flujo
  <2> QED BY <2>1, <2>2
<1>1. /\ LlevaDe(c)' = Lleva(k, f) /\ PorGuardarDe(c)' = PorGuardar(k, q, d)
      /\ DuermenDe(c)' = Duermen(k, a, d)
  BY <1>9, <1>10, <1>11, <1>12, <1>13 DEF LlevaDe, PorGuardarDe, DuermenDe
<1>2. \A e \in CPUs \ {c} : /\ LlevaDe(e)' = LlevaDe(e) /\ PorGuardarDe(e)' = PorGuardarDe(e)
                            /\ DuermenDe(e)' = DuermenDe(e)
  BY <1>9, <1>10, <1>11, <1>12, <1>13 DEF LlevaDe, PorGuardarDe, DuermenDe
<1>3. Salidas'
  <2> SUFFICES ASSUME NEW e \in CPUs PROVE Sale(aKM'[e], aKS'[e], Visto(ks))
    BY DEF Salidas
  <2>1. CASE e = c
    BY <2>1, <1>10, <1>11
  <2>2. CASE e # c
    BY <2>2, <1>10, <1>11 DEF Contextuales, Salidas
  <2> QED BY <2>1, <2>2
<1> SUFFICES ASSUME "mutex" \notin desvios' PROVE AlDia'
  BY <1>3 DEF Contextuales
<1>4. "mutex" \notin desvios /\ AlDia
  BY DEF Contextuales
<1>5. real' # real => p \in LlevaDe(c) /\ \A x \in Procesos \ {p} : real'[x] = real[x]
  BY DEF LlevaDe, Lleva, Cicladas
<1>6. \A e \in CPUs : Copia(cpu'[e], aKM'[e], Flujo(e)', real')
  <2> SUFFICES ASSUME NEW e \in CPUs, e # c PROVE Copia(cpu[e], aKM[e], Flujo(e), real')
    BY <1>4, <1>9, <1>10, <1>13
  <2>1. Copia(cpu[e], aKM[e], Flujo(e), real)
    BY <1>4 DEF AlDia
  <2>2. CASE real' = real
    BY <2>1, <2>2
  <2>3. CASE real' # real
    <3>1. p \notin LlevaDe(e) /\ p \notin PorGuardarDe(e)
      BY <1>4, <1>5, <2>3, LlevaUno DEF AlDia
    <3>2. cpu[e].pc \in Cicladas => cpu[e].pid \in Procesos /\ cpu[e].pid # p
      <4>1. cpu[e].pc \in Cicladas => cpu[e].pid \in LlevaDe(e)
        BY DEF LlevaDe, Lleva
      <4>2. cpu[e].pc = "respKS" /\ Hay(deKS[e], "BLOQUEADO") => cpu[e].pid \in PorGuardarDe(e)
        BY DEF PorGuardarDe, PorGuardar
      <4>3. cpu[e].pc \in Cicladas => cpu[e].pid \in Procesos
        BY DEF Fases, Fase, Cicladas
      <4> QED BY <4>1, <4>3, <3>1
    <3>3. aKM[e] \in Seq(Tramas) /\ Flujo(e) \in Seq(Tramas)
      BY TiposDe
    <3>4. p \notin De(aKM[e], {"contexto"})
      BY <3>1 DEF PorGuardarDe, PorGuardar
    <3>5. AlDiaEn(aKM[e], real')
      BY <2>1, <2>3, <3>3, <3>4, <1>5, AlDiaDeOtros DEF Copia
    <3>6. ASSUME cpu[e].pc = "contexto" PROVE AlDiaEn(Flujo(e), real')
      <4>1. De(Flujo(e), {"contexto"}) \subseteq {cpu[e].pid}
        BY <3>3, <3>6, ContextoSuyo DEF Fases
      <4>2. p \notin De(Flujo(e), {"contexto"})
        BY <4>1, <3>1, <3>6 DEF LlevaDe, Lleva
      <4> QED BY <4>2, <2>1, <2>3, <3>3, <3>6, <1>5, AlDiaDeOtros DEF Copia
    <3> QED BY <2>1, <2>3, <3>2, <3>5, <3>6, <1>5 DEF Copia
  <2> QED BY <2>2, <2>3
<1>7. ASSUME NEW e \in CPUs, NEW x \in CPUs, e # x PROVE LlevaDe(e)' \cap PorGuardarDe(x)' = {}
  <2>1. LlevaDe(e) \cap PorGuardarDe(x) = {} /\ LlevaDe(e) \cap LlevaDe(x) = {}
    BY <1>4, <1>7, LlevaUno DEF AlDia
  <2>2. LlevaDe(e)' \subseteq LlevaDe(e)
    BY <1>1, <1>2
  <2>3. PorGuardarDe(x)' \subseteq PorGuardarDe(x) \cup LlevaDe(x)
    BY <1>1, <1>2
  <2> QED BY <2>1, <2>2, <2>3
<1>8. ASSUME NEW x \in Procesos, km[x].vivo, Dormido(x)'
      PROVE  km[x].pc = real'[x] \/ \E e \in CPUs : x \in PorGuardarDe(e)'
  <2>1. CASE x \in PorGuardarDe(c)'
    BY <2>1
  <2>2. CASE x \notin PorGuardarDe(c)'
    <3>1. Dormido(x)
      BY <1>1, <1>2, <1>8, <2>2 DEF Dormido
    <3>2. km[x].pc = real[x] \/ \E e \in CPUs : x \in PorGuardarDe(e)
      BY <1>4, <1>8, <3>1 DEF AlDia
    <3>3. \A e \in CPUs : PorGuardarDe(e) \subseteq PorGuardarDe(e)'
      BY <1>1, <1>2
    <3>4. real' # real => x # p
      BY <1>1, <2>2, <3>1, NoDuerme
    <3> QED BY <1>5, <3>2, <3>3, <3>4
  <2> QED BY <2>1, <2>2
<1> QED BY <1>6, <1>7, <1>8 DEF AlDia


-----------------------------------------------------------------------------
(* The steps of a CPU.                                                      *)

Base == TiposDeCPU /\ real \in [Procesos -> Nat] /\ Fases /\ Turnos /\ Contextuales

\* A CPU whose socket has no request with a context.
LEMMA SinGuardarAun ==
  ASSUME NEW k, NEW s, NEW q, NEW f, Fase(k, s, q, f),
         \/ k.pc \in {"ocioso", "mapaCod", "mapaBuf", "contexto", "respuesta", "instruccion", "respKS",
                      "interrupciones", "ackSegFault"}
         \/ k.pc = "ejecuta" /\ k.instr.t = "instruccion"
  PROVE  De(q, {"contexto"}) = {}
<1>1. \A i \in 1..Len(q) : q[i].t # "contexto"
  <2>1. ASSUME q = <<>> PROVE FALSE \/ \A i \in 1..Len(q) : q[i].t # "contexto"
    <3> DEFINE v == <<>>
    <3>1. 1..Len(v) = {}
      OBVIOUS
    <3>2. q = v
      BY <2>1
    <3> HIDE DEF v
    <3> QED BY <3>1, <3>2
  <2>2. \/ q = <<>>
        \/ Len(q) = 1 /\ q[1].t # "contexto"
        \/ Len(q) = 2 /\ q[1].t # "contexto" /\ q[2].t # "contexto"
        \/ Len(q) = 3 /\ q[1].t # "contexto" /\ q[2].t # "contexto" /\ q[3].t # "contexto"
    BY DEF Fase, EnOcioso, EnMapa, EnContexto, EnRespuesta, Quieto
  <2>3. CASE q = <<>>
    BY <2>1, <2>3
  <2>4. CASE q # <<>>
    BY <2>2, <2>4
  <2> QED BY <2>3, <2>4
<1> QED BY <1>1 DEF De

\* A step in which the CPU neither ends an instruction nor saves its context.
LEMMA ContextosSigue ==
  ASSUME Base, NEW c \in CPUs, UNCHANGED <<km, ks, sesion, real>>,
         "mutex" \in desvios => "mutex" \in desvios',
         NEW k, cpu' = [cpu EXCEPT ![c] = k],
         NEW q, (aKM' = aKM /\ q = aKM[c]) \/ aKM' = [aKM EXCEPT ![c] = q],
         NEW a, (aKS' = aKS /\ a = aKS[c]) \/ aKS' = [aKS EXCEPT ![c] = a],
         NEW d, (deKS' = deKS /\ d = deKS[c]) \/ deKS' = [deKS EXCEPT ![c] = d],
         NEW f, \/ deKM' = deKM /\ f = Flujo(c)
                \/ deKM[c] # <<>> /\ deKM' = [deKM EXCEPT ![c] = Tail(@)] /\ f = Tail(Flujo(c)),
         q = aKM[c] \/ (De(aKM[c], {"contexto"}) = {} /\ De(q, {"contexto"}) = {}),
         \A r : AlDiaEn(aKM[c], r) => AlDiaEn(q, r),
         De(aKS[c], {"DONE"}) \subseteq De(a, {"DONE"}),
         De(d, {"PID"}) \subseteq DuermenDe(c), De(a, {"SLEEP", "ATENDIDA"}) \subseteq DuermenDe(c),
         k.pc \in {"mapaCod", "mapaBuf", "contexto"} => k.pid \in DuermenDe(c),
         k.pc # "okGuarda",
         cpu[c].pc = "respKS" /\ Hay(deKS[c], "BLOQUEADO") <=> k.pc = "respKS" /\ Hay(d, "BLOQUEADO"),
         k.pc = "respKS" => k.pid = cpu[c].pid,
         Lleva(k, f) \subseteq LlevaDe(c),
         "mutex" \notin desvios /\ k.pc \in Cicladas => k.ctx = real[k.pid],
         "mutex" \notin desvios /\ k.pc = "contexto" => AlDiaEn(f, real)
  PROVE  Contextuales'
<1>2. De(q, {"contexto"}) = De(aKM[c], {"contexto"})
  OBVIOUS
<1>3. PorGuardar(k, q, d) = PorGuardarDe(c)
  BY <1>2 DEF PorGuardar, PorGuardarDe
<1>4. Duermen(k, a, d) \subseteq DuermenDe(c)
  <2>1. k.pc \in {"mapaCod", "mapaBuf", "contexto"} \/ (k.pc = "okGuarda" /\ k.tras # "BLOQUEADO")
          => k.pid \in DuermenDe(c)
    OBVIOUS
  <2> QED BY <2>1 DEF Duermen
<1>5. Sale(q, a, Visto(ks))
  <2>1. Sale(aKM[c], aKS[c], Visto(ks))
    BY DEF Base, Contextuales, Salidas
  <2>2. CASE q = aKM[c]
    BY <2>1, <2>2 DEF Sale
  <2>3. CASE De(q, {"contexto"}) = {}
    BY <2>3 DEF Sale
  <2> QED BY <2>2, <2>3
<1>6. "mutex" \notin desvios => Copia(k, q, f, real')
  <2>1. "mutex" \notin desvios => AlDiaEn(aKM[c], real)
    BY DEF Base, Contextuales, AlDia, Copia
  <2> QED BY <2>1 DEF Copia
<1>7. /\ PorGuardarDe(c) \subseteq PorGuardar(k, q, d)
      /\ PorGuardar(k, q, d) \subseteq PorGuardarDe(c) \cup LlevaDe(c)
      /\ Duermen(k, a, d) \subseteq DuermenDe(c) \cup PorGuardar(k, q, d)
  BY <1>3, <1>4
<1>8. TiposDeCPU /\ real \in [Procesos -> Nat] /\ Fases /\ Turnos /\ Contextuales
  BY DEF Base
<1>9. UNCHANGED <<km, ks, sesion>> /\ real' = real
  OBVIOUS
<1> QED BY <1>5, <1>6, <1>7, <1>8, <1>9, ContextosDeCPU


\* The last request of a process has its context and no other.
LEMMA UltimaEs ==
  ASSUME NEW x \in Registros, x.pid \in Procesos, NEW tipo \in {"INTERRUPT", "EXIT_CPU"}
  PROVE  /\ De(Ultima(tipo, x), {"contexto"}) = {x.pid} /\ Ultima(tipo, x)[1].t = tipo
         /\ \A r : AlDiaEn(Ultima(tipo, x), r) <=> x.ctx = r[x.pid]
<1> DEFINE a == Trama(tipo)
           b == [Trama("pid") EXCEPT !.pid = x.pid]
           e == [Trama("contexto") EXCEPT !.pid = x.pid, !.pc = x.ctx]
           u == <<a, b, e>>
<1>1. a.t = tipo /\ b.t = "pid" /\ e.t = "contexto" /\ e.pid = x.pid /\ e.pc = x.ctx
  BY DEF Trama
<1> HIDE DEF a, b, e
<1>2. Len(u) = 3 /\ u[1] = a /\ u[2] = b /\ u[3] = e /\ 1..3 = {1, 2, 3}
  OBVIOUS
<1> HIDE DEF u
<1>3. De(u, {"contexto"}) = {x.pid}
  BY <1>1, <1>2 DEF De
<1>4. \A r : AlDiaEn(u, r) <=> x.ctx = r[x.pid]
  BY <1>1, <1>2 DEF AlDiaEn
<1> QED BY <1>1, <1>2, <1>3, <1>4 DEF u, a, b, e, Ultima

\* A CPU that sends its context, with the program counter that its process has reached.
LEMMA ContextosGuarda ==
  ASSUME Base, NEW c \in CPUs, UNCHANGED <<km, ks, sesion, deKM>>,
         "mutex" \in desvios => "mutex" \in desvios',
         cpu[c].pc \in {"ejecuta", "respKS", "interrupciones"}, cpu[c].pid \in Procesos, aKM[c] = <<>>,
         NEW k, cpu' = [cpu EXCEPT ![c] = k], k.pc \in {"okGuarda", "okExit"}, k.pid = cpu[c].pid,
         NEW x \in Registros, x.pid = cpu[c].pid, NEW tipo \in {"INTERRUPT", "EXIT_CPU"},
         aKM' = [aKM EXCEPT ![c] = Ultima(tipo, x)],
         NEW a, (aKS' = aKS /\ a = aKS[c]) \/ aKS' = [aKS EXCEPT ![c] = a],
         tipo = "INTERRUPT" \/ x.pid \in De(a, {"DONE"}),
         NEW d, (deKS' = deKS /\ d = deKS[c]) \/ deKS' = [deKS EXCEPT ![c] = d],
         De(d, {"PID"}) \subseteq DuermenDe(c), De(a, {"SLEEP", "ATENDIDA"}) \subseteq DuermenDe(c),
         "mutex" \notin desvios => x.ctx = real'[x.pid],
         \/ real' = real
         \/ /\ cpu[c].pc \in {"ejecuta", "respKS"}
            /\ \E n \in Nat : real' = [real EXCEPT ![cpu[c].pid] = n]
  PROVE  Contextuales'
<1> DEFINE q == Ultima(tipo, x)
           p == cpu[c].pid
           f == Flujo(c)
<1>1. /\ De(q, {"contexto"}) = {p} /\ q[1].t = tipo
      /\ \A r : AlDiaEn(q, r) <=> x.ctx = r[p]
  BY UltimaEs
<1>2. aKM' = [aKM EXCEPT ![c] = q]
  OBVIOUS
<1> HIDE DEF q
<1>3. PorGuardar(k, q, d) = {p}
  BY <1>1 DEF PorGuardar
<1>4. PorGuardarDe(c) \subseteq {p}
  <2>1. De(aKM[c], {"contexto"}) = {}
    BY DeNada
  <2> QED BY <2>1 DEF PorGuardarDe, PorGuardar
<1>5. LlevaDe(c) = {p}
  BY DEF LlevaDe, Lleva, Cicladas
<1>6. Lleva(k, f) = {}
  BY DEF Lleva, Cicladas
<1>7. Duermen(k, a, d) \subseteq DuermenDe(c) \cup {p}
  BY DEF Duermen
<1>8. Sale(q, a, Visto(ks))
  BY <1>1 DEF Sale
<1>9. "mutex" \notin desvios => Copia(k, q, f, real')
  BY <1>1 DEF Copia, Cicladas
<1>10. /\ PorGuardarDe(c) \subseteq PorGuardar(k, q, d)
       /\ PorGuardar(k, q, d) \subseteq PorGuardarDe(c) \cup LlevaDe(c)
       /\ Duermen(k, a, d) \subseteq DuermenDe(c) \cup PorGuardar(k, q, d)
       /\ Lleva(k, f) \subseteq LlevaDe(c)
  BY <1>3, <1>4, <1>5, <1>6, <1>7
<1>11. TiposDeCPU /\ real \in [Procesos -> Nat] /\ Fases /\ Turnos /\ Contextuales
  BY DEF Base
<1>12. UNCHANGED <<km, ks, sesion>> /\ deKM' = deKM /\ p \in PorGuardar(k, q, d)
  BY <1>3
<1> HIDE DEF f
<1>13. f = Flujo(c)
  BY DEF f
<1> QED BY <1>2, <1>8, <1>9, <1>10, <1>11, <1>12, <1>13, ContextosDeCPU

\* A CPU that goes on with the next instruction.
LEMMA ContextosAvanza ==
  ASSUME Base, NEW c \in CPUs, UNCHANGED <<km, ks, sesion, deKM>>,
         "mutex" \in desvios => "mutex" \in desvios',
         cpu[c].pc \in {"ejecuta", "respKS"}, cpu[c].pid \in Procesos, aKM[c] = <<>>,
         Corre(cpu[c], deKS[c]), noop(c),
         NEW d, (deKS' = deKS /\ d = deKS[c]) \/ deKS' = [deKS EXCEPT ![c] = d],
         De(d, {"PID"}) \subseteq DuermenDe(c)
  PROVE  Contextuales'
<1> DEFINE x == Avanzada(c)
           k == [x EXCEPT !.pc = "interrupciones"]
           p == cpu[c].pid
           q == aKM[c]
           f == Flujo(c)
<1>1. /\ x \in Registros /\ x.pid = p /\ x.ctx = cpu[c].ctx + 1 /\ cpu[c].ctx + 1 \in Nat
  BY AvanzadaTipo, TiposDe DEF Base, Registros
<1>2. cpu' = [cpu EXCEPT ![c] = k] /\ aKM' = aKM /\ aKS' = aKS
      /\ real' = [real EXCEPT ![p] = cpu[c].ctx + 1]
  BY DEF noop, Avanza
<1> HIDE DEF x
<1>3. k.pc = "interrupciones" /\ k.pid = p /\ k.ctx = cpu[c].ctx + 1
  BY <1>1 DEF Registros
<1>4. real'[p] = cpu[c].ctx + 1 /\ \E n \in Nat : real' = [real EXCEPT ![p] = n]
  BY <1>1, <1>2 DEF Base
<1>5. De(q, {"contexto"}) = {} /\ AlDiaEn(q, real')
  BY DeNada
<1> HIDE DEF k, p, q, f
<1>6. PorGuardar(k, q, d) = {} /\ PorGuardarDe(c) = {}
  BY <1>3, <1>5 DEF PorGuardar, PorGuardarDe, Corre, EnMarcha, q
<1>7. LlevaDe(c) = {p} /\ Lleva(k, f) = {p}
  BY <1>3 DEF LlevaDe, Lleva, Cicladas, p
<1>8. Duermen(k, aKS[c], d) \subseteq DuermenDe(c)
  <2>1. De(aKS[c], {"SLEEP", "ATENDIDA"}) \subseteq DuermenDe(c)
    BY DEF DuermenDe, Duermen
  <2> QED BY <2>1, <1>3 DEF Duermen
<1>9. Sale(q, aKS[c], Visto(ks))
  BY <1>5 DEF Sale
<1>10. Copia(k, q, f, real')
  BY <1>3, <1>4, <1>5 DEF Copia, Cicladas
<1>11. /\ PorGuardarDe(c) \subseteq PorGuardar(k, q, d)
       /\ PorGuardar(k, q, d) \subseteq PorGuardarDe(c) \cup LlevaDe(c)
       /\ Duermen(k, aKS[c], d) \subseteq DuermenDe(c) \cup PorGuardar(k, q, d)
       /\ Lleva(k, f) \subseteq LlevaDe(c)
  BY <1>6, <1>7, <1>8
<1>12. TiposDeCPU /\ real \in [Procesos -> Nat] /\ Fases /\ Turnos /\ Contextuales
  BY DEF Base
<1>13. q = aKM[c] /\ f = Flujo(c) /\ p = cpu[c].pid
  BY DEF q, f, p
<1> QED BY <1>2, <1>4, <1>9, <1>10, <1>11, <1>12, <1>13, ContextosDeCPU


\* The processes that sleep in the sockets of a CPU, when it has read a message or not.
LEMMA DuermenEnCola ==
  ASSUME TiposDeCPU, NEW c \in CPUs
  PROVE  /\ De(deKS[c], {"PID"}) \subseteq DuermenDe(c)
         /\ De(aKS[c], {"SLEEP", "ATENDIDA"}) \subseteq DuermenDe(c)
         /\ deKS[c] # <<>> => De(Tail(deKS[c]), {"PID"}) \subseteq DuermenDe(c)
<1>1. De(deKS[c], {"PID"}) \subseteq DuermenDe(c) /\ De(aKS[c], {"SLEEP", "ATENDIDA"}) \subseteq DuermenDe(c)
  BY DEF DuermenDe, Duermen
<1>2. ASSUME deKS[c] # <<>> PROVE De(Tail(deKS[c]), {"PID"}) \subseteq De(deKS[c], {"PID"})
  BY <1>2, TiposDe, DeCola
<1> QED BY <1>1, <1>2

\* Requests without a context, after others without one.
LEMMA PideSinContexto ==
  ASSUME NEW q \in Seq(Tramas), De(q, {"contexto"}) = {}, NEW a \in Tramas, a.t # "contexto",
         NEW b \in Tramas, b.t # "contexto"
  PROVE  /\ De(q \o <<a>>, {"contexto"}) = {} /\ De(q \o <<a, b>>, {"contexto"}) = {}
         /\ \A r : AlDiaEn(q, r) => AlDiaEn(q \o <<a>>, r) /\ AlDiaEn(q \o <<a, b>>, r)
<1>1. ASSUME NEW v \in Seq(Tramas), \A i \in 1..Len(v) : v[i].t # "contexto"
      PROVE  De(q \o v, {"contexto"}) = {} /\ \A r : AlDiaEn(q, r) => AlDiaEn(q \o v, r)
  <2>1. De(v, {"contexto"}) = {} /\ \A r : AlDiaEn(v, r)
    BY <1>1 DEF De, AlDiaEn
  <2> QED BY <2>1, DeJuntas
<1> DEFINE u == <<a>>
           v == <<a, b>>
<1>2. u \in Seq(Tramas) /\ \A i \in 1..Len(u) : u[i].t # "contexto"
  OBVIOUS
<1>3. v \in Seq(Tramas) /\ \A i \in 1..Len(v) : v[i].t # "contexto"
  OBVIOUS
<1> HIDE DEF u, v
<1>4. /\ De(q \o u, {"contexto"}) = {} /\ De(q \o v, {"contexto"}) = {}
      /\ \A r : AlDiaEn(q, r) => AlDiaEn(q \o u, r) /\ AlDiaEn(q \o v, r)
  BY <1>1, <1>2, <1>3
<1> QED BY <1>4 DEF u, v

\* The CPU reads a frame, or goes on with what it has, and may ask for something.
LEMMA ContextosLee ==
  ASSUME Base, NEW c \in CPUs, UNCHANGED <<km, ks, sesion, real, aKS>>,
         "mutex" \in desvios => "mutex" \in desvios',
         NEW k, cpu' = [cpu EXCEPT ![c] = k],
         NEW q, (aKM' = aKM /\ q = aKM[c]) \/ aKM' = [aKM EXCEPT ![c] = q],
         q = aKM[c] \/ (De(aKM[c], {"contexto"}) = {} /\ De(q, {"contexto"}) = {}),
         \A r : AlDiaEn(aKM[c], r) => AlDiaEn(q, r),
         NEW d, (deKS' = deKS /\ d = deKS[c]) \/ (deKS[c] # <<>> /\ deKS' = [deKS EXCEPT ![c] = d] /\ d = Tail(deKS[c])),
         NEW f, \/ deKM' = deKM /\ f = Flujo(c)
                \/ deKM[c] # <<>> /\ deKM' = [deKM EXCEPT ![c] = Tail(@)] /\ f = Tail(Flujo(c)),
         cpu[c].pc # "respKS", k.pc \notin {"respKS", "okGuarda"},
         k.pc \in {"mapaCod", "mapaBuf", "contexto"} => k.pid \in DuermenDe(c),
         Lleva(k, f) \subseteq LlevaDe(c),
         "mutex" \notin desvios /\ k.pc \in Cicladas => k.ctx = real[k.pid],
         "mutex" \notin desvios /\ k.pc = "contexto" => AlDiaEn(f, real)
  PROVE  Contextuales'
<1>1. De(d, {"PID"}) \subseteq DuermenDe(c) /\ De(aKS[c], {"SLEEP", "ATENDIDA"}) \subseteq DuermenDe(c)
  BY DuermenEnCola DEF Base
<1>2. (deKS' = deKS /\ d = deKS[c]) \/ deKS' = [deKS EXCEPT ![c] = d]
  OBVIOUS
<1>3. k.pc # "okGuarda" /\ k.pc # "respKS" /\ UNCHANGED <<km, ks, sesion, real>> /\ aKS' = aKS
  OBVIOUS
<1> QED BY <1>1, <1>2, <1>3, ContextosSigue

\* Taking a process makes nobody late: the context it will read is the one Kernel Memory has.
LEMMA Contextos_esperar_pid ==
  ASSUME Base, NEW c \in CPUs, UNCHANGED <<km, ks, sesion, real, desvios>>, esperar_pid(c)
  PROVE  Contextuales'
<1> DEFINE x == cpu[c]
           d == deKS[c]
           m == Head(d)
           r == [CPUOciosa EXCEPT !.pc = "mapaCod", !.pid = m.pid]
           v == <<Trama("INIT")>>
           q == aKM[c] \o v
           z == Tail(d)
           f == Flujo(c)
<1>1. /\ x.pc = "ocioso" /\ d # <<>> /\ deKS' = [deKS EXCEPT ![c] = z] /\ aKS' = aKS /\ deKM' = deKM
      /\ \/ m.t = "PID" /\ cpu' = [cpu EXCEPT ![c] = r] /\ aKM' = [aKM EXCEPT ![c] = q]
         \/ cpu' = [cpu EXCEPT ![c] = x] /\ aKM' = aKM
  BY DEF esperar_pid, LeeKS, EnPC, EscribeKM, Base, TiposDeCPU
<1>2. r.pc = "mapaCod" /\ r.pid = m.pid
  BY DEF CPUOciosa
<1>3. aKM[c] \in Seq(Tramas) /\ d \in Seq(Ordenes) /\ De(aKM[c], {"contexto"}) = {}
  BY <1>1, TiposDe, SinGuardarAun DEF Base, Fases
<1>4. De(q, {"contexto"}) = {} /\ \A y : AlDiaEn(aKM[c], y) => AlDiaEn(q, y)
  <2>0. "INIT" \in TiposDeTrama \ {"pid", "contexto", "instruccion"}
    BY DEF TiposDeTrama
  <2>1. Trama("INIT") \in Tramas /\ Trama("INIT").t # "contexto"
    BY <2>0, TramasHechas DEF Trama
  <2> DEFINE a == Trama("INIT")
  <2>2. a \in Tramas /\ a.t # "contexto"
    BY <2>1
  <2> HIDE DEF a
  <2>3. De(aKM[c] \o <<a>>, {"contexto"}) = {} /\ \A y : AlDiaEn(aKM[c], y) => AlDiaEn(aKM[c] \o <<a>>, y)
    BY <1>3, <2>2, PideSinContexto
  <2> QED BY <2>3 DEF a
<1>5. m.t = "PID" => m.pid \in DuermenDe(c)
  <2>1. ASSUME m.t = "PID" PROVE m.pid \in De(d, {"PID"})
    <3>0. m \in Ordenes
      BY <1>1, <1>3, HeadTailProperties
    <3>1. m.pid \in Procesos
      BY <3>0 DEF Ordenes
    <3> QED BY <1>1, <1>3, <2>1, <3>1, DeCola
  <2> QED BY <2>1, DuermenEnCola DEF Base
<1>6. UNCHANGED <<km, ks, sesion, real, aKS>> /\ ("mutex" \in desvios => "mutex" \in desvios') /\ z = Tail(deKS[c])
      /\ f = Flujo(c)
  BY <1>1
<1> HIDE DEF r, v, q, z, f
<1>7. CASE m.t = "PID" /\ cpu' = [cpu EXCEPT ![c] = r] /\ aKM' = [aKM EXCEPT ![c] = q]
  <2>1. Lleva(r, f) = {} /\ r.pc \notin Cicladas /\ r.pc # "contexto"
    BY <1>2 DEF Lleva, Cicladas
  <2>2. r.pc \notin {"respKS", "okGuarda"} /\ r.pid \in DuermenDe(c) /\ Lleva(r, f) \subseteq LlevaDe(c)
    BY <1>2, <1>5, <1>7, <2>1
  <2> QED BY <1>1, <1>3, <1>4, <1>6, <1>7, <2>1, <2>2, ContextosLee
<1>8. CASE cpu' = [cpu EXCEPT ![c] = x] /\ aKM' = aKM
  <2>1. Lleva(x, f) = {} /\ x.pc \notin Cicladas /\ x.pc # "contexto"
    BY <1>1 DEF Lleva, Cicladas
  <2>2. x.pc \notin {"respKS", "okGuarda"} /\ x.pc \notin {"mapaCod", "mapaBuf", "contexto"}
        /\ Lleva(x, f) \subseteq LlevaDe(c)
    BY <1>1, <2>1
  <2> HIDE DEF x
  <2> QED BY <1>1, <1>6, <1>8, <2>1, <2>2, ContextosLee DEF x
<1> QED BY <1>1, <1>7, <1>8

\* The map read before the context, or another frame in its place, takes no context away.
LEMMA Contextos_recibir_mapa ==
  ASSUME Base, NEW c \in CPUs, UNCHANGED <<km, ks, sesion, real, desvios>>, recibir_mapa(c)
  PROVE  Contextuales'
<1> DEFINE x == cpu[c]
           r == [x EXCEPT !.pc = "mapaBuf"]
           w == [x EXCEPT !.pc = "fin"]
           o == [x EXCEPT !.pc = "contexto"]
           v == <<[Trama("pid") EXCEPT !.pid = x.pid]>>
           q == aKM[c] \o v
           f == Tail(Flujo(c))
           d == deKS[c]
<1>1. /\ x.pc \in {"mapaCod", "mapaBuf"} /\ deKM[c] # <<>> /\ deKM' = [deKM EXCEPT ![c] = Tail(@)]
      /\ UNCHANGED <<aKS, deKS>>
      /\ \/ aKM' = aKM /\ (cpu' = [cpu EXCEPT ![c] = r] \/ cpu' = [cpu EXCEPT ![c] = w])
         \/ aKM' = [aKM EXCEPT ![c] = q] /\ cpu' = [cpu EXCEPT ![c] = o]
  BY DEF recibir_mapa, LeeKM, EnPC, EscribeKM, Va, SoloKM, Base, TiposDeCPU
<1>2. x \in Registros /\ x.pid \in Procesos /\ EsRuido(Flujo(c)) /\ Flujo(c) \in Seq(Tramas) /\ aKM[c] \in Seq(Tramas)
  BY <1>1, TiposDe DEF Base, Fases, Fase, EnMapa
<1>3. /\ r.pc = "mapaBuf" /\ r.pid = x.pid /\ w.pc = "fin" /\ o.pc = "contexto" /\ o.pid = x.pid
  BY <1>2 DEF Registros
<1>4. De(aKM[c], {"contexto"}) = {}
  BY <1>1, SinGuardarAun DEF Base, Fases
<1>5. De(q, {"contexto"}) = {} /\ \A y : AlDiaEn(aKM[c], y) => AlDiaEn(q, y)
  <2>1. [Trama("pid") EXCEPT !.pid = x.pid] \in Tramas /\ [Trama("pid") EXCEPT !.pid = x.pid].t # "contexto"
    BY <1>2, TramasHechas DEF Trama
  <2> DEFINE a == [Trama("pid") EXCEPT !.pid = x.pid]
  <2>2. a \in Tramas /\ a.t # "contexto"
    BY <2>1
  <2> HIDE DEF a
  <2>3. De(aKM[c] \o <<a>>, {"contexto"}) = {} /\ \A y : AlDiaEn(aKM[c], y) => AlDiaEn(aKM[c] \o <<a>>, y)
    BY <1>2, <1>4, <2>2, PideSinContexto
  <2> QED BY <2>3 DEF a
<1>6. De(f, {"contexto"}) = {} /\ AlDiaEn(f, real)
  <2>1. Flujo(c) # <<>>
    BY <1>1, Lectura DEF Base
  <2>2. EsRuido(f)
    BY <1>2, <2>1, RuidoCola
  <2> QED BY <2>2, SinContexto
<1>7. x.pid \in DuermenDe(c)
  BY <1>1 DEF DuermenDe, Duermen
<1>8. UNCHANGED <<km, ks, sesion, real, aKS>> /\ ("mutex" \in desvios => "mutex" \in desvios')
      /\ f = Tail(Flujo(c)) /\ deKS' = deKS /\ d = deKS[c] /\ x.pc # "respKS"
  BY <1>1
<1> HIDE DEF r, v, q, f, w, o, d
<1>9. ASSUME NEW k \in {r, w, o} PROVE /\ Lleva(k, f) \subseteq LlevaDe(c) /\ k.pc \notin Cicladas
                                       /\ k.pc \notin {"respKS", "okGuarda"}
                                       /\ k.pc \in {"mapaCod", "mapaBuf", "contexto"} => k.pid \in DuermenDe(c)
  BY <1>3, <1>6, <1>7 DEF Lleva, Cicladas
<1>10. CASE aKM' = aKM /\ (cpu' = [cpu EXCEPT ![c] = r] \/ cpu' = [cpu EXCEPT ![c] = w])
  BY <1>1, <1>6, <1>8, <1>9, <1>10, ContextosLee
<1>11. CASE aKM' = [aKM EXCEPT ![c] = q] /\ cpu' = [cpu EXCEPT ![c] = o]
  BY <1>1, <1>4, <1>5, <1>6, <1>8, <1>9, <1>11, ContextosLee
<1> QED BY <1>1, <1>10, <1>11


\* A request for an instruction has no context.
LEMMA FetchSinContexto ==
  ASSUME NEW q \in Seq(Tramas), De(q, {"contexto"}) = {}, NEW n \in Nat
  PROVE  LET u == q \o <<Trama("FETCH"), [Trama("pc") EXCEPT !.pc = n]>> IN
         De(u, {"contexto"}) = {} /\ \A r : AlDiaEn(q, r) => AlDiaEn(u, r)
<1> DEFINE a == Trama("FETCH")
           b == [Trama("pc") EXCEPT !.pc = n]
<1>1. "FETCH" \in TiposDeTrama \ {"pid", "contexto", "instruccion"}
  BY DEF TiposDeTrama
<1>2. a \in Tramas /\ a.t # "contexto"
  BY <1>1, TramaSimple
<1>3. b \in Tramas /\ b.t # "contexto"
  BY TramasHechas
<1> HIDE DEF a, b
<1>4. De(q \o <<a, b>>, {"contexto"}) = {} /\ \A r : AlDiaEn(q, r) => AlDiaEn(q \o <<a, b>>, r)
  BY <1>2, <1>3, PideSinContexto
<1> QED BY <1>4 DEF a, b

\* recibirContexto: the context is that of the process, and it is the one of its last stop.
LEMMA Contextos_recibirContexto ==
  ASSUME Base, NEW c \in CPUs, UNCHANGED <<km, ks, sesion, real, desvios>>, recibirContexto(c)
  PROVE  Contextuales'
<1> DEFINE x == cpu[c]
           m == Lee(c)
           k == [x EXCEPT !.ctx = m.pc, !.tabla = m.tabla]
           r == [k EXCEPT !.pc = "respuesta"]
           w == [x EXCEPT !.pc = "fin"]
           q == aKM[c] \o <<Trama("FETCH"), [Trama("pc") EXCEPT !.pc = m.pc]>>
           f == Tail(Flujo(c))
           d == deKS[c]
<1>1. /\ x.pc = "contexto" /\ deKM[c] # <<>> /\ deKM' = [deKM EXCEPT ![c] = Tail(@)]
      /\ UNCHANGED <<aKS, deKS>>
  BY DEF recibirContexto, LeeKM, EnPC, SoloKM
<1>2. x \in Registros /\ Flujo(c) \in Seq(Tramas) /\ aKM[c] \in Seq(Tramas)
  BY TiposDe DEF Base
<1>3. Flujo(c) # <<>> /\ Head(Flujo(c)) = m /\ m \in Tramas
  BY <1>1, Lectura DEF Base
<1>4. m.pc \in Nat /\ m.tabla \in Nat
  BY <1>3 DEF Tramas
<1>5. k \in Registros /\ k.pid = x.pid /\ k.ctx = m.pc
  BY <1>2, <1>4 DEF Registros
<1>6. \/ m.t = "contexto" /\ cpu' = [cpu EXCEPT ![c] = r] /\ aKM' = [aKM EXCEPT ![c] = q]
      \/ cpu' = [cpu EXCEPT ![c] = w] /\ aKM' = aKM
  BY <1>5 DEF recibirContexto, deserializar_contexto, fetch, EscribeKM, Va, Base, TiposDeCPU
<1> HIDE DEF k
<1>7. r.pc = "respuesta" /\ r.pid = x.pid /\ r.ctx = m.pc /\ w.pc = "fin"
  BY <1>2, <1>5 DEF Registros
<1>8. De(aKM[c], {"contexto"}) = {}
  BY <1>1, SinGuardarAun DEF Base, Fases
<1>9. De(q, {"contexto"}) = {} /\ \A y : AlDiaEn(aKM[c], y) => AlDiaEn(q, y)
  BY <1>2, <1>4, <1>8, FetchSinContexto
<1>10. UNCHANGED <<km, ks, sesion, real, aKS>> /\ ("mutex" \in desvios => "mutex" \in desvios')
       /\ f = Tail(Flujo(c)) /\ deKS' = deKS /\ d = deKS[c] /\ x.pc # "respKS"
  BY <1>1
<1> HIDE DEF r, w, q, d, m
<1>11. CASE m.t = "contexto" /\ cpu' = [cpu EXCEPT ![c] = r] /\ aKM' = [aKM EXCEPT ![c] = q]
  <2>1. De(Flujo(c), {"contexto"}) = De(f, {"contexto"}) \cup {p \in Procesos : m.t \in {"contexto"} /\ m.pid = p}
    BY <1>2, <1>3, DeCola
  <2>2. m.pid \in Procesos
    BY <1>3, <1>11 DEF Tramas
  <2>3. m.pid \in De(Flujo(c), {"contexto"})
    BY <1>11, <2>1, <2>2
  <2>4. m.pid = x.pid
    BY <1>1, <1>2, <2>3, ContextoSuyo DEF Base, Fases
  <2>5. "mutex" \notin desvios => m.pc = real[x.pid]
    <3>1. "mutex" \notin desvios => AlDiaEn(Flujo(c), real)
      BY <1>1 DEF Base, Contextuales, AlDia, Copia
    <3>2. AlDiaEn(Flujo(c), real) => m.pc = real[m.pid]
      BY <1>2, <1>3, <1>11, DeCola
    <3> QED BY <3>1, <3>2, <2>4
  <2>6. x.pid \in LlevaDe(c)
    BY <1>1, <2>3 DEF LlevaDe, Lleva
  <2> HIDE DEF f
  <2>7. Lleva(r, f) \subseteq LlevaDe(c)
    BY <1>7, <2>6 DEF Lleva
  <2>8. r.pc \notin {"respKS", "okGuarda"} /\ r.pc \notin {"mapaCod", "mapaBuf", "contexto"} /\ r.pc # "contexto"
    BY <1>7
  <2>9. "mutex" \notin desvios /\ r.pc \in Cicladas => r.ctx = real[r.pid]
    BY <1>7, <2>5
  <2> QED BY <1>1, <1>8, <1>9, <1>10, <1>11, <2>7, <2>8, <2>9, ContextosLee
<1>12. CASE cpu' = [cpu EXCEPT ![c] = w] /\ aKM' = aKM
  <2>1. Lleva(w, f) \subseteq LlevaDe(c) /\ w.pc \notin Cicladas
    BY <1>7 DEF Lleva, Cicladas
  <2>2. w.pc \notin {"respKS", "okGuarda"} /\ w.pc \notin {"mapaCod", "mapaBuf", "contexto"} /\ w.pc # "contexto"
    BY <1>7
  <2> HIDE DEF f
  <2> QED BY <1>1, <1>10, <1>12, <2>1, <2>2, ContextosLee
<1> QED BY <1>6, <1>11, <1>12

\* The CPU reads an instruction, or the table: the process is the same, where it was.
LEMMA Contextos_recibirInstruccion ==
  ASSUME Base, NEW c \in CPUs, UNCHANGED <<km, ks, sesion, real, desvios>>,
         recibirInstruccion(c) \/ actualizar_tabla_segmentos(c)
  PROVE  Contextuales'
<1> DEFINE x == cpu[c]
           f == Tail(Flujo(c))
           d == deKS[c]
<1>1. /\ x.pc \in {"respuesta", "instruccion", "tabla", "segmentos"} /\ deKM[c] # <<>>
      /\ deKM' = [deKM EXCEPT ![c] = Tail(@)] /\ UNCHANGED <<aKS, deKS, aKM>>
  BY DEF recibirInstruccion, actualizar_tabla_segmentos, LeeKM, EnPC, SoloKM
<1>2. x \in Registros
  BY TiposDe DEF Base
<1>3. \E k : /\ cpu' = [cpu EXCEPT ![c] = k] /\ k.pid = x.pid /\ k.ctx = x.ctx
             /\ k.pc \in {"instruccion", "tabla", "segmentos", "ejecuta", "fin"}
  <2>1. ASSUME NEW pc \in {"instruccion", "tabla", "segmentos", "ejecuta", "fin"}, Va(c, pc)
        PROVE  \E k : /\ cpu' = [cpu EXCEPT ![c] = k] /\ k.pid = x.pid /\ k.ctx = x.ctx
                      /\ k.pc \in {"instruccion", "tabla", "segmentos", "ejecuta", "fin"}
    <3> DEFINE k == [x EXCEPT !.pc = pc]
    <3>1. cpu' = [cpu EXCEPT ![c] = k] /\ k.pid = x.pid /\ k.ctx = x.ctx /\ k.pc = pc
      BY <1>2, <2>1 DEF Va, Registros
    <3> HIDE DEF k
    <3> QED BY <3>1
  <2>2. ASSUME cpu' = [cpu EXCEPT ![c].instr = Lee(c), ![c].pc = "tabla"]
        PROVE  \E k : /\ cpu' = [cpu EXCEPT ![c] = k] /\ k.pid = x.pid /\ k.ctx = x.ctx
                      /\ k.pc \in {"instruccion", "tabla", "segmentos", "ejecuta", "fin"}
    <3> DEFINE k == [x EXCEPT !.instr = Lee(c), !.pc = "tabla"]
    <3>1. cpu' = [cpu EXCEPT ![c] = k]
      BY <2>2 DEF Base, TiposDeCPU
    <3>2. k.pid = x.pid /\ k.ctx = x.ctx /\ k.pc = "tabla"
      BY <1>2 DEF Registros
    <3> HIDE DEF k
    <3> QED BY <3>1, <3>2
  <2>3. ASSUME NEW t, cpu' = [cpu EXCEPT ![c].pc = "ejecuta", ![c].tabla = t]
        PROVE  \E k : /\ cpu' = [cpu EXCEPT ![c] = k] /\ k.pid = x.pid /\ k.ctx = x.ctx
                      /\ k.pc \in {"instruccion", "tabla", "segmentos", "ejecuta", "fin"}
    <3> DEFINE k == [x EXCEPT !.pc = "ejecuta", !.tabla = t]
    <3>1. cpu' = [cpu EXCEPT ![c] = k]
      BY <2>3 DEF Base, TiposDeCPU
    <3>2. k.pid = x.pid /\ k.ctx = x.ctx /\ k.pc = "ejecuta"
      BY <1>2 DEF Registros
    <3> HIDE DEF k
    <3> QED BY <3>1, <3>2
  <2>4. \/ Va(c, "fin") \/ Va(c, "instruccion") \/ Va(c, "segmentos") \/ Va(c, "ejecuta")
        \/ cpu' = [cpu EXCEPT ![c].instr = Lee(c), ![c].pc = "tabla"]
        \/ \E t : cpu' = [cpu EXCEPT ![c].pc = "ejecuta", ![c].tabla = t]
    <3>1. CASE recibirInstruccion(c)
      BY <3>1 DEF recibirInstruccion
    <3>2. CASE LeeKM(c, "tabla") /\ Va(c, IF Lee(c).t = "NO_VACIA" THEN "segmentos" ELSE "ejecuta")
      BY <3>2
    <3>3. CASE cpu' = [cpu EXCEPT ![c].pc = "ejecuta",
                              ![c].tabla = IF Lee(c).t = "segmentos" THEN Lee(c).tabla ELSE @]
      <4>1. cpu' = [cpu EXCEPT ![c].pc = "ejecuta",
                               ![c].tabla = IF Lee(c).t = "segmentos" THEN Lee(c).tabla ELSE cpu[c].tabla]
        BY <3>3, <1>2 DEF Base, TiposDeCPU, Registros
      <4> QED BY <4>1
    <3> QED BY <3>1, <3>2, <3>3 DEF actualizar_tabla_segmentos
  <2> QED BY <2>1, <2>2, <2>3, <2>4
<1>4. PICK k : /\ cpu' = [cpu EXCEPT ![c] = k] /\ k.pid = x.pid /\ k.ctx = x.ctx
               /\ k.pc \in {"instruccion", "tabla", "segmentos", "ejecuta", "fin"}
  BY <1>3
<1>5. LlevaDe(c) = {x.pid} /\ Lleva(k, f) \subseteq {x.pid}
  BY <1>1, <1>4 DEF LlevaDe, Lleva, Cicladas
<1>6. "mutex" \notin desvios => x.ctx = real[x.pid]
  BY <1>1 DEF Base, Contextuales, AlDia, Copia, Cicladas
<1>7. UNCHANGED <<km, ks, sesion, real, aKS>> /\ ("mutex" \in desvios => "mutex" \in desvios')
       /\ f = Tail(Flujo(c)) /\ deKS' = deKS /\ d = deKS[c] /\ x.pc # "respKS" /\ aKM' = aKM
  BY <1>1
<1>8. /\ k.pc \notin {"respKS", "okGuarda"} /\ k.pc \notin {"mapaCod", "mapaBuf", "contexto"} /\ k.pc # "contexto"
      /\ "mutex" \notin desvios /\ k.pc \in Cicladas => k.ctx = real[k.pid]
      /\ Lleva(k, f) \subseteq LlevaDe(c)
  BY <1>4, <1>5, <1>6
<1> HIDE DEF f, d
<1> QED BY <1>1, <1>4, <1>7, <1>8, ContextosLee


\* What comes before the answer that blocks is an interrupt.
LEMMA BloqueoCabeza ==
  ASSUME NEW d \in Seq(Ordenes), d # <<>>, ConBloqueo(d), Hay(d, "BLOQUEADO")
  PROVE  Head(d).t \in {"INTERRUPT", "BLOQUEADO"}
<1>1. PICK i \in 1..Len(d) : d[i].t = "BLOQUEADO"
  BY DEF Hay
<1>2. Head(d) = d[1] /\ Len(d) \in Nat /\ 1 \in 1..Len(d)
  BY LenProperties, EmptySeq
<1>3. i = 1 \/ 1 < i
  BY <1>2
<1> QED BY <1>1, <1>2, <1>3 DEF ConBloqueo

\* guardado and okExit: the process tells that it leaves when its context is in Kernel Memory.
LEMMA Contextos_guardado ==
  ASSUME Base, NEW c \in CPUs, UNCHANGED <<km, ks, sesion, real, desvios>>, guardado(c) \/ okExit(c)
  PROVE  Contextuales'
<1> DEFINE x == cpu[c]
           w == [x EXCEPT !.pc = "fin"]
           o == CPUOciosa
           m == [t |-> x.tras, pid |-> x.pid]
           q == aKM[c]
           d == deKS[c]
           f == Tail(Flujo(c))
           a == IF aKS' = aKS THEN aKS[c] ELSE Append(aKS[c], m)
<1>1. /\ x.pc \in {"okGuarda", "okExit"} /\ x \in Registros /\ deKS' = deKS /\ aKM' = aKM
      /\ deKM[c] # <<>> /\ deKM' = [deKM EXCEPT ![c] = Tail(@)]
  BY TiposDe DEF guardado, okExit, LeeKM, EnPC, SoloKM, Base
<1>2. aKS[c] \in Seq(Avisados)
  BY TiposDe DEF Base
<1>3. /\ cpu' = [cpu EXCEPT ![c] = o] \/ cpu' = [cpu EXCEPT ![c] = w]
      /\ \/ aKS' = aKS
         \/ /\ x.pc = "okGuarda" /\ x.tras \in {"SLEEP", "ATENDIDA"}
            /\ aKS' = [aKS EXCEPT ![c] = Append(aKS[c], m)]
  BY DEF guardado, okExit, LeeKM, EnPC, SoloKM, Va, Ocioso, EscribeKS, Base, TiposDeCPU
<1>4. o.pc = "ocioso" /\ w.pc = "fin"
  BY <1>1, OciosaTipo DEF Registros
<1>5. x.pid \in Procesos
  BY <1>1 DEF Fases, Fase, Base
<1>6. (aKS' = aKS /\ a = aKS[c]) \/ aKS' = [aKS EXCEPT ![c] = a]
  BY <1>3
<1>7. /\ De(aKS[c], {"DONE"}) \subseteq De(a, {"DONE"})
      /\ De(a, {"SLEEP", "ATENDIDA"}) \subseteq DuermenDe(c)
  <2>1. De(aKS[c], {"SLEEP", "ATENDIDA"}) \subseteq DuermenDe(c)
    BY DuermenEnCola DEF Base
  <2>2. CASE aKS' = aKS
    BY <2>1, <2>2
  <2>3. CASE aKS' # aKS
    <3>1. m \in Avisados /\ m.pid = x.pid
      BY <1>3, <1>5, <2>3 DEF Avisados
    <3>2. a = Append(aKS[c], m)
      BY <2>3
    <3> HIDE DEF a, m
    <3>3. De(aKS[c], {"DONE"}) \subseteq De(a, {"DONE"})
      BY <1>2, <3>1, <3>2, DeMas
    <3>4. De(a, {"SLEEP", "ATENDIDA"}) \subseteq De(aKS[c], {"SLEEP", "ATENDIDA"}) \cup {x.pid}
      BY <1>2, <3>1, <3>2, DeMas
    <3>5. x.pid \in DuermenDe(c)
      BY <1>3, <2>3 DEF DuermenDe, Duermen
    <3> QED BY <2>1, <3>3, <3>4, <3>5
  <2> QED BY <2>2, <2>3
<1>8. /\ UNCHANGED <<km, ks, sesion, real>> /\ ("mutex" \in desvios => "mutex" \in desvios')
      /\ f = Tail(Flujo(c)) /\ deKS' = deKS /\ d = deKS[c] /\ x.pc # "respKS" /\ aKM' = aKM /\ q = aKM[c]
      /\ De(d, {"PID"}) \subseteq DuermenDe(c)
  BY <1>1, DuermenEnCola DEF Base
<1> HIDE DEF o, w, a, d, q, f
<1>9. ASSUME NEW k \in {o, w}, cpu' = [cpu EXCEPT ![c] = k] PROVE Contextuales'
  <2>1. /\ k.pc \notin {"mapaCod", "mapaBuf", "contexto"} /\ k.pc # "okGuarda" /\ k.pc # "respKS"
        /\ k.pc \notin Cicladas /\ k.pc # "contexto"
    BY <1>4, <1>9 DEF Cicladas
  <2>2. Lleva(k, f) \subseteq LlevaDe(c)
    BY <2>1 DEF Lleva
  <2>3. q = aKM[c] \/ (De(aKM[c], {"contexto"}) = {} /\ De(q, {"contexto"}) = {})
    BY <1>8
  <2>4. \A r : AlDiaEn(aKM[c], r) => AlDiaEn(q, r)
    BY <1>8
  <2> QED BY <1>1, <1>6, <1>7, <1>8, <1>9, <2>1, <2>2, <2>3, <2>4, ContextosSigue
<1> QED BY <1>3, <1>9

\* manejar_seg_fault: the CPU carries nobody any more.
LEMMA Contextos_manejar_seg_fault ==
  ASSUME Base, NEW c \in CPUs, UNCHANGED <<km, ks, sesion, real, desvios>>, manejar_seg_fault(c)
  PROVE  Contextuales'
<1> DEFINE x == cpu[c]
           o == CPUOciosa
           d == Tail(deKS[c])
           f == Flujo(c)
           q == aKM[c] \o <<Trama("SEG_FAULT")>>
<1>1. /\ x.pc = "ackSegFault" /\ deKS[c] # <<>> /\ deKS' = [deKS EXCEPT ![c] = d] /\ aKS' = aKS
      /\ cpu' = [cpu EXCEPT ![c] = o] /\ deKM' = deKM /\ aKM' = [aKM EXCEPT ![c] = q]
  BY DEF manejar_seg_fault, LeeKS, EnPC, Ocioso, EscribeKM, Base, TiposDeCPU
<1>2. o.pc = "ocioso"
  BY OciosaTipo
<1>3. De(aKM[c], {"contexto"}) = {} /\ aKM[c] \in Seq(Tramas)
  BY <1>1, TiposDe, SinGuardarAun DEF Base, Fases
<1>4. De(q, {"contexto"}) = {} /\ \A r : AlDiaEn(aKM[c], r) => AlDiaEn(q, r)
  <2>1. "SEG_FAULT" \in TiposDeTrama \ {"pid", "contexto", "instruccion"}
    BY DEF TiposDeTrama
  <2> DEFINE a == Trama("SEG_FAULT")
  <2>2. a \in Tramas /\ a.t # "contexto"
    BY <2>1, TramaSimple
  <2> HIDE DEF a
  <2>3. De(aKM[c] \o <<a>>, {"contexto"}) = {} /\ \A r : AlDiaEn(aKM[c], r) => AlDiaEn(aKM[c] \o <<a>>, r)
    BY <1>3, <2>2, PideSinContexto
  <2> QED BY <2>3 DEF a
<1>5. UNCHANGED <<km, ks, sesion, real, aKS>> /\ ("mutex" \in desvios => "mutex" \in desvios')
      /\ d = Tail(deKS[c]) /\ f = Flujo(c) /\ x.pc # "respKS"
  BY <1>1
<1> HIDE DEF o, d, f, q
<1>6. /\ o.pc \notin {"mapaCod", "mapaBuf", "contexto"} /\ o.pc \notin {"respKS", "okGuarda"}
      /\ o.pc \notin Cicladas /\ o.pc # "contexto"
  BY <1>2 DEF Cicladas
<1>7. Lleva(o, f) \subseteq LlevaDe(c)
  BY <1>6 DEF Lleva
<1> QED BY <1>1, <1>3, <1>4, <1>5, <1>6, <1>7, ContextosLee

\* The context is sent: what is written is the last request.
LEMMA ContextosUltima ==
  ASSUME Base, NEW c \in CPUs, UNCHANGED <<km, ks, sesion, deKM, aKS>>,
         "mutex" \in desvios => "mutex" \in desvios',
         cpu[c].pc \in {"ejecuta", "respKS", "interrupciones"}, Callada(c),
         NEW k \in Registros, k.pid = cpu[c].pid, NEW tras, guardar_contexto_km(c, k, tras),
         NEW d, (deKS' = deKS /\ d = deKS[c]) \/ deKS' = [deKS EXCEPT ![c] = d],
         De(d, {"PID"}) \subseteq DuermenDe(c),
         "mutex" \notin desvios => k.ctx = real'[k.pid],
         \/ real' = real
         \/ /\ cpu[c].pc \in {"ejecuta", "respKS"}
            /\ \E n \in Nat : real' = [real EXCEPT ![cpu[c].pid] = n]
  PROVE  Contextuales'
<1> DEFINE r == [k EXCEPT !.pc = "okGuarda", !.tras = tras]
           v == <<>>
           u == Ultima("INTERRUPT", k)
           a == aKS[c]
<1>1. aKM[c] = v /\ cpu[c].pid \in Procesos
  BY DEF Callada, Quieto, Fases, Fase, Base
<1>2. k.ctx \in Nat
  BY DEF Registros
<1>3. u \in Seq(Tramas)
  <2>1. "INTERRUPT" \in TiposDeTrama \ {"pid", "contexto", "instruccion"}
    BY DEF TiposDeTrama
  <2>2. Trama("INTERRUPT") \in Tramas /\ [Trama("pid") EXCEPT !.pid = k.pid] \in Tramas
        /\ [Trama("contexto") EXCEPT !.pid = k.pid, !.pc = k.ctx] \in Tramas
    BY <1>1, <1>2, <2>1, TramasHechas
  <2> QED BY <2>2 DEF Ultima
<1>4. /\ cpu' = [cpu EXCEPT ![c] = r] /\ aKM' = [aKM EXCEPT ![c] = v \o u]
  BY <1>1 DEF guardar_contexto_km, EscribeKM, Ultima, Base, TiposDeCPU
<1>5. v \o u = u
  BY <1>3, ConcatEmptySeq
<1>6. r.pc = "okGuarda" /\ r.pid = k.pid
  BY DEF Registros
<1>7. "INTERRUPT" \in {"INTERRUPT", "EXIT_CPU"}
  OBVIOUS
<1>8. De(a, {"SLEEP", "ATENDIDA"}) \subseteq DuermenDe(c)
  BY DuermenEnCola DEF Base
<1>9. aKM' = [aKM EXCEPT ![c] = Ultima("INTERRUPT", k)] /\ aKM[c] = <<>> /\ aKS' = aKS /\ a = aKS[c]
  BY <1>1, <1>4, <1>5
<1>10. "mutex" \notin desvios => k.ctx = real'[k.pid]
  OBVIOUS
<1>11. k.pid = cpu[c].pid /\ UNCHANGED <<km, ks, sesion, deKM>>
  OBVIOUS
<1> HIDE DEF r, v, u, a
<1> QED BY <1>1, <1>4, <1>6, <1>7, <1>8, <1>9, <1>10, <1>11, ContextosGuarda


\* atender_interrupcion: the cycle goes on where it was, or the context is sent.
LEMMA Contextos_atender_interrupcion ==
  ASSUME Base, NEW c \in CPUs, UNCHANGED <<km, ks, sesion, real>>,
         "mutex" \in desvios => "mutex" \in desvios',
         atender_interrupcion(c) \/ atender_interrupcion_en_espera(c)
  PROVE  Contextuales'
<1> DEFINE x == cpu[c]
           r == [x EXCEPT !.pc = "respuesta"]
           w == [x EXCEPT !.pc = "fin"]
           o == CPUOciosa
           d == IF deKS' = deKS THEN deKS[c] ELSE Tail(deKS[c])
           u == aKM[c] \o <<Trama("FETCH"), [Trama("pc") EXCEPT !.pc = x.ctx]>>
           q == IF aKM' = aKM THEN aKM[c] ELSE u
           f == Flujo(c)
<1>1. /\ x.pc = "interrupciones" /\ aKS' = aKS /\ x \in Registros /\ deKM' = deKM
      /\ \/ cpu' = [cpu EXCEPT ![c] = r] /\ aKM' = [aKM EXCEPT ![c] = u]
         \/ cpu' = [cpu EXCEPT ![c] = w] /\ aKM' = aKM
         \/ cpu' = [cpu EXCEPT ![c] = o] /\ aKM' = aKM
         \/ guardar_contexto_km(c, x, "ATENDIDA")
      /\ \/ deKS' = deKS
         \/ deKS[c] # <<>> /\ deKS' = [deKS EXCEPT ![c] = Tail(deKS[c])]
  BY TiposDe DEF atender_interrupcion, atender_interrupcion_en_espera, LeeKS, EnPC, Ocioso, Va, fetch,
                 EscribeKM, Base, TiposDeCPU
<1>2. /\ o.pc = "ocioso" /\ w.pc = "fin" /\ r.pc = "respuesta" /\ r.pid = x.pid /\ r.ctx = x.ctx
      /\ x.ctx \in Nat
  BY <1>1, OciosaTipo DEF Registros
<1>3. (deKS' = deKS /\ d = deKS[c]) \/ (deKS[c] # <<>> /\ deKS' = [deKS EXCEPT ![c] = d] /\ d = Tail(deKS[c]))
  BY <1>1
<1>4. De(aKM[c], {"contexto"}) = {} /\ aKM[c] \in Seq(Tramas)
  BY <1>1, TiposDe, SinGuardarAun DEF Base, Fases
<1>5. De(u, {"contexto"}) = {} /\ \A y : AlDiaEn(aKM[c], y) => AlDiaEn(u, y)
  BY <1>2, <1>4, FetchSinContexto
<1>6. UNCHANGED <<km, ks, sesion, real, aKS>> /\ deKM' = deKM /\ f = Flujo(c) /\ x.pc # "respKS"
      /\ ("mutex" \in desvios => "mutex" \in desvios')
  BY <1>1
<1>7. x.pid \in LlevaDe(c) /\ ("mutex" \notin desvios => x.ctx = real[x.pid])
  BY <1>1 DEF LlevaDe, Lleva, Cicladas, Base, Contextuales, AlDia, Copia
<1> HIDE DEF r, w, o, d, u, f
<1>8. CASE cpu' = [cpu EXCEPT ![c] = r] /\ aKM' = [aKM EXCEPT ![c] = u]
  <2>1. /\ r.pc \notin {"respKS", "okGuarda"} /\ r.pc \notin {"mapaCod", "mapaBuf", "contexto"} /\ r.pc # "contexto"
        /\ "mutex" \notin desvios /\ r.pc \in Cicladas => r.ctx = real[r.pid]
        /\ Lleva(r, f) \subseteq LlevaDe(c)
    BY <1>2, <1>7 DEF Lleva
  <2> QED BY <1>3, <1>4, <1>5, <1>6, <1>8, <2>1, ContextosLee
<1>9. ASSUME NEW k \in {o, w}, cpu' = [cpu EXCEPT ![c] = k], aKM' = aKM PROVE Contextuales'
  <2>1. /\ k.pc \notin {"respKS", "okGuarda"} /\ k.pc \notin {"mapaCod", "mapaBuf", "contexto"} /\ k.pc # "contexto"
        /\ k.pc \notin Cicladas /\ Lleva(k, f) \subseteq LlevaDe(c)
    BY <1>2, <1>9 DEF Lleva, Cicladas
  <2> QED BY <1>3, <1>6, <1>9, <2>1, ContextosLee
<1>10. CASE guardar_contexto_km(c, x, "ATENDIDA")
  <2>1. Callada(c)
    BY <1>1, FaseCallada DEF Base
  <2>2. De(d, {"PID"}) \subseteq DuermenDe(c)
    BY <1>3, DuermenEnCola DEF Base
  <2>3. "mutex" \notin desvios => x.ctx = real'[x.pid]
    BY <1>7
  <2>4. x.pid = cpu[c].pid /\ UNCHANGED <<km, ks, sesion, deKM, aKS>> /\ real' = real
        /\ x.pc \in {"ejecuta", "respKS", "interrupciones"}
    BY <1>1
  <2>5. (deKS' = deKS /\ d = deKS[c]) \/ deKS' = [deKS EXCEPT ![c] = d]
    BY <1>3
  <2> QED BY <1>1, <1>6, <1>10, <2>1, <2>2, <2>3, <2>4, <2>5, ContextosUltima
<1> QED BY <1>1, <1>8, <1>9, <1>10

\* Contextos_noop and those that follow: an instruction is done.
LEMMA Contextos_ejecutar ==
  ASSUME Base, NEW c \in CPUs, UNCHANGED <<km, ks, sesion, desvios>>, ejecutar(c)
  PROVE  Contextuales'
<1> DEFINE x == cpu[c]
           a == aKS[c]
           d == deKS[c]
           q == aKM[c]
           f == Flujo(c)
<1>1. x.pc = "ejecuta" /\ x \in Registros /\ UNCHANGED <<deKS, deKM>> /\ x.pc \in EnMarcha
  BY TiposDe DEF ejecutar, EnPC, EnMarcha, Base
<1>2. Turno(x, a, d, Suyos(ks, c), Libres(ks) \cap {c}) /\ a \in Seq(Avisados) /\ d \in Seq(Ordenes)
  BY TurnoEs DEF Base
<1>3. Sueltos(d) /\ Corre(x, d) /\ x.pid \in Procesos
  <2>1. Sueltos(d) /\ Corre(x, d) /\ x.pid \in Suyos(ks, c)
    BY <1>1, <1>2 DEF Turno, Corre
  <2> QED BY <2>1 DEF Suyos
<1>4. ~Hay(d, "BLOQUEADO")
  BY <1>3, SueltosSon
<1>5. De(d, {"PID"}) \subseteq DuermenDe(c) /\ De(a, {"SLEEP", "ATENDIDA"}) \subseteq DuermenDe(c)
  BY DuermenEnCola DEF Base
<1>6. x.pid \in LlevaDe(c) /\ ("mutex" \notin desvios => x.ctx = real[x.pid])
  BY <1>1 DEF LlevaDe, Lleva, Cicladas, Base, Contextuales, AlDia, Copia
<1>7. x.instr.t = "instruccion" => Callada(c) /\ q = <<>>
  <2>1. x.instr.t = "instruccion" => Callada(c)
    BY <1>1, FaseCallada DEF Base
  <2> QED BY <2>1 DEF Callada, Quieto
<1>8. UNCHANGED <<km, ks, sesion, deKM>> /\ deKS' = deKS /\ d = deKS[c] /\ f = Flujo(c) /\ q = aKM[c]
      /\ ("mutex" \in desvios => "mutex" \in desvios')
  BY <1>1
<1> HIDE DEF f
<1>9. CASE Va(c, "fin") /\ UNCHANGED <<aKM, aKS, real>>
  <2> DEFINE k == [x EXCEPT !.pc = "fin"]
  <2>1. cpu' = [cpu EXCEPT ![c] = k] /\ k.pc = "fin"
    BY <1>1, <1>9 DEF Va, Base, TiposDeCPU, Registros
  <2> HIDE DEF k
  <2>2. /\ k.pc \notin {"respKS", "okGuarda"} /\ k.pc \notin {"mapaCod", "mapaBuf", "contexto"} /\ k.pc # "contexto"
        /\ k.pc \notin Cicladas /\ Lleva(k, f) \subseteq LlevaDe(c)
    BY <2>1 DEF Lleva, Cicladas
  <2>3. UNCHANGED <<km, ks, sesion, real, aKS>> /\ x.pc # "respKS" /\ aKM' = aKM
    BY <1>1, <1>9
  <2> QED BY <1>8, <2>1, <2>2, <2>3, ContextosLee
<1>10. CASE x.instr.t = "instruccion" /\ noop(c)
  <2>1. x.pc \in {"ejecuta", "respKS"} /\ q = <<>>
    BY <1>1, <1>7, <1>10
  <2> QED BY <1>3, <1>5, <1>8, <1>10, <2>1, ContextosAvanza
<1>11. CASE x.instr.t = "instruccion" /\ syscall_sleep(c)
  <2> DEFINE k == Avanzada(c)
  <2>1. k \in Registros /\ k.pid = x.pid /\ k.ctx = x.ctx + 1 /\ x.ctx + 1 \in Nat
    BY AvanzadaTipo, TiposDe DEF Base, Registros
  <2> HIDE DEF k
  <2>2. guardar_contexto_km(c, k, "SLEEP") /\ real' = [real EXCEPT ![x.pid] = x.ctx + 1] /\ aKS' = aKS
    BY <1>11 DEF syscall_sleep, Avanza, k
  <2>3. k.ctx = real'[k.pid] /\ \E n \in Nat : real' = [real EXCEPT ![x.pid] = n]
    BY <1>3, <2>1, <2>2 DEF Base
  <2>4. x.pc \in {"ejecuta", "respKS"} /\ x.pc \in {"ejecuta", "respKS", "interrupciones"} /\ Callada(c)
    BY <1>1, <1>7, <1>11
  <2> QED BY <1>5, <1>8, <2>1, <2>2, <2>3, <2>4, ContextosUltima
<1>12. CASE x.instr.t = "instruccion" /\ syscall_exit(c)
  <2> DEFINE k == [x EXCEPT !.pc = "okExit"]
             m == [t |-> "DONE", pid |-> x.pid]
             b == Append(a, m)
             tipo == "EXIT_CPU"
             u == Ultima(tipo, x)
             v == <<>>
  <2>1. cpu' = [cpu EXCEPT ![c] = k] /\ k.pc = "okExit" /\ k.pid = x.pid
    BY <1>1, <1>12 DEF syscall_exit, Va, Base, TiposDeCPU, Registros
  <2>2. aKS' = [aKS EXCEPT ![c] = b] /\ real' = real
    BY <1>12 DEF syscall_exit, EscribeKS, Base, TiposDeCPU
  <2>3. m \in Avisados /\ m.t = "DONE" /\ m.pid = x.pid
    BY <1>3 DEF Avisados
  <2>4. q = v /\ aKM' = [aKM EXCEPT ![c] = v \o u]
    BY <1>7, <1>12 DEF syscall_exit, EscribeKM, Ultima, Base, TiposDeCPU
  <2>5. u \in Seq(Tramas)
    <3>1. "EXIT_CPU" \in TiposDeTrama \ {"pid", "contexto", "instruccion"}
      BY DEF TiposDeTrama
    <3>2. x.ctx \in Nat
      BY <1>1 DEF Registros
    <3>3. Trama("EXIT_CPU") \in Tramas /\ [Trama("pid") EXCEPT !.pid = x.pid] \in Tramas
          /\ [Trama("contexto") EXCEPT !.pid = x.pid, !.pc = x.ctx] \in Tramas
      BY <1>3, <3>1, <3>2, TramasHechas
    <3> QED BY <3>3 DEF Ultima
  <2>6. v \o u = u
    BY <2>5, ConcatEmptySeq
  <2>7. aKM' = [aKM EXCEPT ![c] = Ultima(tipo, x)] /\ aKM[c] = <<>> /\ tipo \in {"INTERRUPT", "EXIT_CPU"}
    BY <2>4, <2>6
  <2> HIDE DEF k, m, u, v, tipo
  <2>8. De(b, {"SLEEP", "ATENDIDA"})
           = De(a, {"SLEEP", "ATENDIDA"}) \cup {p \in Procesos : m.t \in {"SLEEP", "ATENDIDA"} /\ m.pid = p}
        /\ De(b, {"DONE"}) = De(a, {"DONE"}) \cup {p \in Procesos : m.t \in {"DONE"} /\ m.pid = p}
    BY <1>2, <2>3, DeMas
  <2> HIDE DEF b
  <2>9. De(b, {"SLEEP", "ATENDIDA"}) \subseteq DuermenDe(c) /\ x.pid \in De(b, {"DONE"})
    BY <1>3, <1>5, <2>3, <2>8
  <2>10. x.pc \in {"ejecuta", "respKS", "interrupciones"} /\ k.pc \in {"okGuarda", "okExit"}
         /\ k.pid = cpu[c].pid /\ x.pid = cpu[c].pid
         /\ ("mutex" \notin desvios => x.ctx = real'[x.pid])
    BY <1>1, <1>6, <2>1, <2>2
  <2> QED BY <1>1, <1>3, <1>5, <1>8, <2>1, <2>2, <2>7, <2>9, <2>10, ContextosGuarda
<1>13. ASSUME NEW pc \in {"ackSegFault", "respKS"}, NEW t \in Llamadas \cup {"SEG_FAULT"},
              Va(c, pc), EscribeKS(c, t), UNCHANGED <<aKM, real>>
       PROVE  Contextuales'
  <2> DEFINE k == [x EXCEPT !.pc = pc]
             m == [t |-> t, pid |-> x.pid]
             b == Append(a, m)
  <2>1. cpu' = [cpu EXCEPT ![c] = k] /\ k.pc = pc /\ k.pid = x.pid /\ k.ctx = x.ctx
    BY <1>1, <1>13 DEF Va, Base, TiposDeCPU, Registros
  <2>2. aKS' = [aKS EXCEPT ![c] = b]
    BY <1>13 DEF EscribeKS, Base, TiposDeCPU
  <2>3. m \in Avisados /\ m.t \notin {"SLEEP", "ATENDIDA"}
    BY <1>3, <1>13 DEF Avisados, Llamadas, LlamadasMem
  <2> HIDE DEF k, m
  <2>4. De(b, {"SLEEP", "ATENDIDA"})
           = De(a, {"SLEEP", "ATENDIDA"}) \cup {p \in Procesos : m.t \in {"SLEEP", "ATENDIDA"} /\ m.pid = p}
        /\ De(b, {"DONE"}) = De(a, {"DONE"}) \cup {p \in Procesos : m.t \in {"DONE"} /\ m.pid = p}
    BY <1>2, <2>3, DeMas
  <2> HIDE DEF b
  <2>5. De(b, {"SLEEP", "ATENDIDA"}) \subseteq DuermenDe(c) /\ De(aKS[c], {"DONE"}) \subseteq De(b, {"DONE"})
    BY <1>5, <2>3, <2>4
  <2>6. /\ k.pc \notin {"mapaCod", "mapaBuf", "contexto"} /\ k.pc # "okGuarda" /\ k.pc # "contexto"
        /\ (cpu[c].pc = "respKS" /\ Hay(deKS[c], "BLOQUEADO") <=> k.pc = "respKS" /\ Hay(d, "BLOQUEADO"))
        /\ k.pid = cpu[c].pid
        /\ ("mutex" \notin desvios /\ k.pc \in Cicladas => k.ctx = real[k.pid])
    BY <1>1, <1>4, <1>6, <1>13, <2>1
  <2>7. Lleva(k, f) \subseteq LlevaDe(c)
    BY <1>6, <2>1 DEF Lleva
  <2>8. UNCHANGED <<km, ks, sesion, real>> /\ aKM' = aKM /\ deKM' = deKM
        /\ \A r : AlDiaEn(aKM[c], r) => AlDiaEn(q, r)
    BY <1>1, <1>13
  <2> QED BY <1>5, <1>8, <2>1, <2>2, <2>5, <2>6, <2>7, <2>8, ContextosSigue
<1>14. CASE Va(c, "ackSegFault") /\ EscribeKS(c, "SEG_FAULT") /\ UNCHANGED <<aKM, real>>
  <2>1. "ackSegFault" \in {"ackSegFault", "respKS"} /\ "SEG_FAULT" \in Llamadas \cup {"SEG_FAULT"}
    OBVIOUS
  <2> QED BY <1>13, <1>14, <2>1
<1>15. CASE Operacion(c) \in Llamadas /\ Va(c, "respKS") /\ EscribeKS(c, Operacion(c)) /\ UNCHANGED <<aKM, real>>
  <2>1. "respKS" \in {"ackSegFault", "respKS"} /\ Operacion(c) \in Llamadas \cup {"SEG_FAULT"}
    BY <1>15
  <2> QED BY <1>13, <1>15, <2>1
<1>16. \/ Va(c, "fin") /\ UNCHANGED <<aKM, aKS, real>>
       \/ /\ x.instr.t = "instruccion"
          /\ \/ noop(c) \/ syscall_sleep(c) \/ syscall_exit(c)
             \/ Va(c, "ackSegFault") /\ EscribeKS(c, "SEG_FAULT") /\ UNCHANGED <<aKM, real>>
             \/ Operacion(c) \in Llamadas /\ Va(c, "respKS") /\ EscribeKS(c, Operacion(c)) /\ UNCHANGED <<aKM, real>>
  BY ejecutarFormas DEF Base
<1> QED BY <1>9, <1>10, <1>11, <1>12, <1>14, <1>15, <1>16


\* respuestaKS: the answer lets the process go on, or it saves the context it blocks with.
LEMMA Contextos_respuestaKS ==
  ASSUME Base, NEW c \in CPUs, UNCHANGED <<km, ks, sesion>>,
         "mutex" \in desvios => "mutex" \in desvios', respuestaKS(c)
  PROVE  Contextuales'
<1> DEFINE x == cpu[c]
           d == deKS[c]
           z == Tail(d)
           m == Head(d)
           op == OperacionDe(x)
           f == Flujo(c)
           q == aKM[c]
           a == aKS[c]
<1>1. /\ x.pc = "respKS" /\ d # <<>> /\ deKS' = [deKS EXCEPT ![c] = z] /\ UNCHANGED <<aKS, deKM>>
      /\ x \in Registros
  BY TiposDe DEF respuestaKS, LeeKS, EnPC, Base, TiposDeCPU
<1>2. Turno(x, a, d, Suyos(ks, c), Libres(ks) \cap {c}) /\ d \in Seq(Ordenes)
  BY TurnoEs DEF Base
<1>3. m \in Ordenes /\ x.pid \in Procesos
  BY <1>1, <1>2, HeadTailProperties DEF Base, Fases, Fase
<1>4. \/ m.t = "INTERRUPT" /\ cpu' = [cpu EXCEPT ![c].espera = m.pid] /\ UNCHANGED <<aKM, real>>
      \/ m.t = "OK" /\ noop(c)
      \/ m.t = "BLOQUEADO" /\ guardar_contexto_km(c, Avanzada(c), "BLOQUEADO") /\ Avanza(c)
      \/ /\ Va(c, IF op \in LlamadasMem THEN "interrupciones" ELSE "fin") /\ UNCHANGED <<aKM, real>>
         /\ m.t # "OK" /\ ~(m.t = "BLOQUEADO" /\ op = "MUTEX_LOCK")
         /\ m.t = "INTERRUPT" => op # "MUTEX_LOCK"
  BY DEF respuestaKS, Operacion, OperacionDe
<1>5. De(d, {"PID"}) \subseteq DuermenDe(c) /\ De(a, {"SLEEP", "ATENDIDA"}) \subseteq DuermenDe(c)
      /\ De(z, {"PID"}) \subseteq DuermenDe(c)
  BY <1>1, DuermenEnCola DEF Base
<1>6. x.pid \in LlevaDe(c) /\ ("mutex" \notin desvios => x.ctx = real[x.pid])
  BY <1>1 DEF LlevaDe, Lleva, Cicladas, Base, Contextuales, AlDia, Copia
<1>7. Callada(c) /\ q = <<>>
  <2>1. Callada(c)
    BY <1>1, FaseCallada DEF Base
  <2> QED BY <2>1 DEF Callada, Quieto
<1>8. Hay(d, "BLOQUEADO") => op = "MUTEX_LOCK" /\ m.t \in {"INTERRUPT", "BLOQUEADO"}
  BY <1>1, <1>2, BloqueoCabeza DEF Turno
<1>9. UNCHANGED <<km, ks, sesion, deKM>> /\ f = Flujo(c) /\ q = aKM[c] /\ aKS' = aKS /\ a = aKS[c]
      /\ ("mutex" \in desvios => "mutex" \in desvios')
  BY <1>1
<1>10. Hay(d, "BLOQUEADO") <=> m.t = "BLOQUEADO" \/ Hay(z, "BLOQUEADO")
  BY <1>1, <1>2, HayCola
<1> HIDE DEF f, op
<1>11. CASE m.t = "INTERRUPT" /\ cpu' = [cpu EXCEPT ![c].espera = m.pid] /\ UNCHANGED <<aKM, real>>
  <2> DEFINE k == [x EXCEPT !.espera = m.pid]
  <2>1. cpu' = [cpu EXCEPT ![c] = k] /\ k.pc = "respKS" /\ k.pid = x.pid /\ k.ctx = x.ctx
    BY <1>1, <1>11 DEF Base, TiposDeCPU, Registros
  <2> HIDE DEF k
  <2>2. /\ k.pc \notin {"mapaCod", "mapaBuf", "contexto"} /\ k.pc # "okGuarda" /\ k.pc # "contexto"
        /\ (cpu[c].pc = "respKS" /\ Hay(deKS[c], "BLOQUEADO") <=> k.pc = "respKS" /\ Hay(z, "BLOQUEADO"))
        /\ k.pid = cpu[c].pid
        /\ ("mutex" \notin desvios /\ k.pc \in Cicladas => k.ctx = real[k.pid])
    BY <1>1, <1>6, <1>10, <1>11, <2>1
  <2>3. Lleva(k, f) \subseteq LlevaDe(c)
    BY <1>6, <2>1 DEF Lleva
  <2>4. UNCHANGED <<km, ks, sesion, real>> /\ aKM' = aKM /\ deKM' = deKM
        /\ \A r : AlDiaEn(aKM[c], r) => AlDiaEn(q, r)
    BY <1>9, <1>11
  <2> HIDE DEF z
  <2> QED BY <1>1, <1>5, <1>9, <2>1, <2>2, <2>3, <2>4, ContextosSigue
<1>12. CASE m.t = "OK" /\ noop(c)
  <2>1. Corre(x, d)
    BY <1>1, <1>8, <1>12 DEF Corre
  <2>2. x.pc \in {"ejecuta", "respKS"}
    BY <1>1
  <2> HIDE DEF z
  <2> QED BY <1>1, <1>3, <1>5, <1>7, <1>9, <1>12, <2>1, <2>2, ContextosAvanza
<1>13. CASE m.t = "BLOQUEADO" /\ guardar_contexto_km(c, Avanzada(c), "BLOQUEADO") /\ Avanza(c)
  <2> DEFINE k == Avanzada(c)
  <2>1. k \in Registros /\ k.pid = x.pid /\ k.ctx = x.ctx + 1 /\ x.ctx + 1 \in Nat
    BY AvanzadaTipo, TiposDe DEF Base, Registros
  <2> HIDE DEF k
  <2>2. guardar_contexto_km(c, k, "BLOQUEADO") /\ real' = [real EXCEPT ![x.pid] = x.ctx + 1]
    BY <1>13 DEF Avanza, k
  <2>3. k.ctx = real'[k.pid] /\ \E n \in Nat : real' = [real EXCEPT ![x.pid] = n]
    BY <1>3, <2>1, <2>2 DEF Base
  <2>4. x.pc \in {"ejecuta", "respKS"} /\ x.pc \in {"ejecuta", "respKS", "interrupciones"}
    BY <1>1
  <2> HIDE DEF z
  <2> QED BY <1>1, <1>5, <1>7, <1>9, <2>1, <2>2, <2>3, <2>4, ContextosUltima
<1>14. CASE /\ Va(c, IF op \in LlamadasMem THEN "interrupciones" ELSE "fin") /\ UNCHANGED <<aKM, real>>
            /\ m.t # "OK" /\ ~(m.t = "BLOQUEADO" /\ op = "MUTEX_LOCK")
            /\ m.t = "INTERRUPT" => op # "MUTEX_LOCK"
  <2> DEFINE pc == IF op \in LlamadasMem THEN "interrupciones" ELSE "fin"
             k == [x EXCEPT !.pc = pc]
  <2>1. cpu' = [cpu EXCEPT ![c] = k] /\ k.pc \in {"interrupciones", "fin"} /\ k.pid = x.pid /\ k.ctx = x.ctx
    BY <1>1, <1>14 DEF Va, Base, TiposDeCPU, Registros
  <2> HIDE DEF k
  <2>2. ~Hay(d, "BLOQUEADO")
    BY <1>8, <1>14
  <2>3. /\ k.pc \notin {"mapaCod", "mapaBuf", "contexto"} /\ k.pc # "okGuarda" /\ k.pc # "contexto"
        /\ (cpu[c].pc = "respKS" /\ Hay(deKS[c], "BLOQUEADO") <=> k.pc = "respKS" /\ Hay(z, "BLOQUEADO"))
        /\ k.pc # "respKS"
        /\ ("mutex" \notin desvios /\ k.pc \in Cicladas => k.ctx = real[k.pid])
    BY <1>6, <2>1, <2>2
  <2>4. Lleva(k, f) \subseteq LlevaDe(c)
    BY <1>6, <2>1 DEF Lleva
  <2>5. UNCHANGED <<km, ks, sesion, real>> /\ aKM' = aKM /\ deKM' = deKM
        /\ \A r : AlDiaEn(aKM[c], r) => AlDiaEn(q, r)
    BY <1>9, <1>14
  <2> HIDE DEF z
  <2> QED BY <1>1, <1>5, <1>9, <2>1, <2>3, <2>4, <2>5, ContextosSigue
<1> QED BY <1>4, <1>11, <1>12, <1>13, <1>14

\* Every step of a CPU keeps the contexts.
LEMMA ContextosDeCiclo ==
  ASSUME Tipos, Fases, Turnos, Contextuales, NEW c \in CPUs, Ciclo(c)
  PROVE  Contextuales'
<1>1. Base
  BY DEF Base, Tipos, TiposDeProceso
<1>2. UNCHANGED <<km, ks, sesion>>
  BY DEF Ciclo, esperar_pid, recibir_mapa, recibirContexto, recibirInstruccion, actualizar_tabla_segmentos,
         ejecutar, respuestaKS, guardado, okExit, manejar_seg_fault, atender_interrupcion_en_espera,
         atender_interrupcion, SoloKM, enKM
<1>3. CASE esperar_pid(c) \/ manejar_seg_fault(c)
  <2>1. UNCHANGED <<real, desvios>>
    BY <1>3 DEF esperar_pid, manejar_seg_fault
  <2> QED BY <1>1, <1>2, <1>3, <2>1, Contextos_esperar_pid, Contextos_manejar_seg_fault
<1>4. CASE recibir_mapa(c) \/ recibirContexto(c) \/ recibirInstruccion(c) \/ actualizar_tabla_segmentos(c)
  <2>1. UNCHANGED <<real, desvios>>
    BY <1>4 DEF recibir_mapa, recibirContexto, recibirInstruccion, actualizar_tabla_segmentos
  <2> QED BY <1>1, <1>2, <1>4, <2>1, Contextos_recibir_mapa, Contextos_recibirContexto,
             Contextos_recibirInstruccion
<1>5. CASE guardado(c) \/ okExit(c)
  <2>1. UNCHANGED <<real, desvios>>
    BY <1>5 DEF guardado, okExit
  <2> QED BY <1>1, <1>2, <1>5, <2>1, Contextos_guardado
<1>6. CASE ejecutar(c)
  <2>1. UNCHANGED desvios
    BY <1>6 DEF ejecutar
  <2> QED BY <1>1, <1>2, <1>6, <2>1, Contextos_ejecutar
<1>7. CASE respuestaKS(c)
  <2>1. "mutex" \in desvios => "mutex" \in desvios'
    BY <1>7 DEF respuestaKS, Desvio
  <2> QED BY <1>1, <1>2, <1>7, <2>1, Contextos_respuestaKS
<1>8. CASE atender_interrupcion_en_espera(c) \/ atender_interrupcion(c)
  <2>1. UNCHANGED real /\ ("mutex" \in desvios => "mutex" \in desvios')
    BY <1>8 DEF atender_interrupcion_en_espera, atender_interrupcion, Desvio
  <2> QED BY <1>1, <1>2, <1>8, <2>1, Contextos_atender_interrupcion
<1> QED BY <1>3, <1>4, <1>5, <1>6, <1>7, <1>8 DEF Ciclo


-----------------------------------------------------------------------------
(* The scheduler, and the contexts.                                         *)

\* A CPU has one process at most, and a free one none.
Unicos(plan) ==
  \A p \in Procesos : Visto(plan)[p] = "EXEC" =>
    /\ plan.en[p] \notin Libres(plan)
    /\ \A r \in Procesos : Visto(plan)[r] = "EXEC" /\ plan.en[r] = plan.en[p] => r = p

\* What a process that leaves CPU c with state e does to the plan.
Salida(plan, c, p, e) ==
  /\ Visto(plan) = [Visto(ks) EXCEPT ![p] = e] /\ plan.en = ks.en
  /\ Libres(plan) = Libres(ks) \cup {c}
\* What an answer does to it: at most, one that was blocked is ready.
Igual(plan) ==
  /\ plan.en = ks.en /\ Libres(plan) = Libres(ks)
  /\ \/ Visto(plan) = Visto(ks)
     \/ \E r \in Procesos : Visto(ks)[r] = "BLOCK" /\ Visto(plan) = [Visto(ks) EXCEPT ![r] = "READY"]
\* What queues a process, or blocks one that knows already, does to it.
Parado(plan) == Visto(plan) = Visto(ks) /\ plan.en = ks.en /\ Libres(plan) = Libres(ks)

\* The forms of a step of the thread of the scheduler that serves CPU c.
Atencion(c) ==
  LET h == Head(aKS[c]) IN
  /\ aKS[c] # <<>> /\ aKS' = [aKS EXCEPT ![c] = Tail(aKS[c])]
  /\ \/ /\ h.t \in {"ATENDIDA", "SLEEP", "DONE", "SEG_FAULT"}
        /\ \E e \in {"READY", "BLOCK", "EXIT"} :
             Salida(ks', c, h.pid, e) /\ (h.t = "DONE" => e = "EXIT")
             /\ (e # "EXIT" => h.t \in {"SLEEP", "ATENDIDA"})
        /\ deKS' = deKS \/ EscribeCPU(c, "OK", h.pid)
     \/ /\ h.t \in Llamadas /\ Igual(ks')
        /\ EscribeCPU(c, "OK", h.pid) \/ EscribeCPU(c, "ERROR", h.pid)
     \/ h.t = "MUTEX_LOCK" /\ Salida(ks', c, h.pid, "BLOCK") /\ EscribeCPU(c, "BLOQUEADO", h.pid)

\* Leaving its CPU is an exit from it, to whichever state.
LEMMA SalidaEs ==
  ASSUME PlanOK(ks), Esperas(ks), NEW c \in CPUs, ks.manejador[c].pc = "libre", NEW p \in Suyos(ks, c),
         NEW e \in {"READY", "BLOCK", "EXIT"}
  PROVE  Salida(Deja(ks, c, p, e), c, p, e)
<1> DEFINE u == Deja(ks, c, p, e)
           B(plan, r) == \E d \in CPUs : plan.manejador[d].pc = "bloquear" /\ plan.manejador[d].pid = r
<1>1. /\ u.estado = [ks.estado EXCEPT ![p] = e] /\ u.en = ks.en
      /\ u.libres = ks.libres \cup {c} /\ u.manejador = ks.manejador
      /\ ks.estado \in [Procesos -> Estados]
  BY DEF PlanOK, Deja, Planes
<1>2. p \in Procesos /\ ~B(ks, p)
  BY NoEspera
<1> HIDE DEF u
<1>3. Libres(u) = Libres(ks) \cup {c}
  BY <1>1 DEF Libres
<1>4. \A r \in Procesos : B(u, r) <=> B(ks, r)
  BY <1>1
<1>5. \A r \in Procesos : /\ Visto(u)[r] = IF B(u, r) THEN "BLOCK" ELSE u.estado[r]
                          /\ Visto(ks)[r] = IF B(ks, r) THEN "BLOCK" ELSE ks.estado[r]
  BY DEF Visto
<1> HIDE DEF B
<1>6. \A r \in Procesos : Visto(u)[r] = IF r = p THEN e ELSE Visto(ks)[r]
  BY <1>1, <1>2, <1>4, <1>5
<1> DEFINE x == Visto(u)
           y == Visto(ks)
<1>7. x = [r \in Procesos |-> x[r]] /\ y = [r \in Procesos |-> y[r]]
  BY DEF Visto
<1> HIDE DEF x, y
<1>8. x = [y EXCEPT ![p] = e]
  BY <1>6, <1>7 DEF x, y
<1> QED BY <1>1, <1>3, <1>8 DEF Salida, x, y, u

\* States that differ from those of ks in one process.
LEMMA VistoCambia ==
  ASSUME NEW u, NEW p \in Procesos, NEW e,
         \A r \in Procesos : Visto(u)[r] = IF r = p THEN e ELSE Visto(ks)[r]
  PROVE  Visto(u) = [Visto(ks) EXCEPT ![p] = e]
<1> DEFINE x == Visto(u)
           y == Visto(ks)
<1>1. x = [r \in Procesos |-> x[r]] /\ y = [r \in Procesos |-> y[r]]
  BY DEF Visto
<1> HIDE DEF x, y
<1>2. \A r \in Procesos : x[r] = IF r = p THEN e ELSE y[r]
  BY DEF x, y
<1>3. x = [y EXCEPT ![p] = e]
  BY <1>1, <1>2
<1> QED BY <1>3 DEF x, y

\* And in none.
LEMMA VistoMismo ==
  ASSUME NEW u, \A r \in Procesos : Visto(u)[r] = Visto(ks)[r]
  PROVE  Visto(u) = Visto(ks)
<1> DEFINE x == Visto(u)
           y == Visto(ks)
<1>1. x = [r \in Procesos |-> x[r]] /\ y = [r \in Procesos |-> y[r]]
  BY DEF Visto
<1> HIDE DEF x, y
<1>2. \A r \in Procesos : x[r] = y[r]
  BY DEF x, y
<1>3. x = y
  BY <1>1, <1>2
<1> QED BY <1>3 DEF x, y

\* Whose thread has answered that it is blocked, and is still to block it.
Avisado(plan, p) == \E c \in CPUs : plan.manejador[c].pc = "bloquear" /\ plan.manejador[c].pid = p
LEMMA VistoDe ==
  ASSUME NEW plan
  PROVE  \A r \in Procesos : Visto(plan)[r] = IF Avisado(plan, r) THEN "BLOCK" ELSE plan.estado[r]
BY DEF Visto, Avisado

\* A process that is queued, or that is blocked once it knows, is seen as it was.
LEMMA ParadoEs ==
  ASSUME Tipos, Turnos, NEW c \in CPUs, mutex_lock_ocupado(c) \/ bloquearPorMutex(c)
  PROVE  Parado(ks')
<1> DEFINE m == ks.manejador
<1>0. ks \in Planes /\ Esperas(ks)
  BY PlanDeKS DEF PlanOK, Turnos
<1>1. CASE mutex_lock_ocupado(c)
  <2> DEFINE h == [pc |-> "avisar", pid |-> Head(aKS[c]).pid]
             v == Append(ks.cola, Head(aKS[c]).pid)
  <2>1. m[c].pc = "libre" /\ ks' = [ks EXCEPT !.cola = v, !.manejador[c] = h] /\ h.pc = "avisar"
    BY <1>1 DEF mutex_lock_ocupado, Mensaje
  <2> HIDE DEF h, v
  <2>2. /\ ks'.estado = ks.estado /\ ks'.en = ks.en /\ ks'.libres = ks.libres
        /\ ks'.manejador = [m EXCEPT ![c] = h] /\ m \in [CPUs -> Hilos]
    BY <1>0, <2>1 DEF Planes
  <2>3. \A d \in CPUs : ks'.manejador[d] = IF d = c THEN h ELSE m[d]
    BY <2>2
  <2>4. \A r : Avisado(ks', r) <=> Avisado(ks, r)
    BY <2>1, <2>3 DEF Avisado
  <2>5. Libres(ks') = Libres(ks)
    BY <2>1, <2>2, <2>3 DEF Libres
  <2>6. \A r \in Procesos : Visto(ks')[r] = Visto(ks)[r]
    BY <2>2, <2>4, VistoDe
  <2>7. Visto(ks') = Visto(ks)
    BY <2>6, VistoMismo
  <2> QED BY <2>2, <2>5, <2>7 DEF Parado
<1>2. CASE bloquearPorMutex(c)
  <2> DEFINE h == [pc |-> "libre", pid |-> Nadie]
             p == m[c].pid
  <2>1. m[c].pc = "bloquear" /\ ks' = [Deja(ks, c, p, "BLOCK") EXCEPT !.manejador[c] = h] /\ h.pc = "libre"
    BY <1>2 DEF bloquearPorMutex
  <2>2. /\ p \in Procesos /\ m \in [CPUs -> Hilos] /\ ks.en[p] = c
        /\ \A d \in CPUs : m[d].pc # "libre" => ks.en[m[d].pid] = d
    BY <1>0, <2>1 DEF Planes, Hilos, Esperas
  <2> HIDE DEF h, p
  <2>3. /\ ks'.estado = [ks.estado EXCEPT ![p] = "BLOCK"] /\ ks'.en = ks.en
        /\ ks'.libres = ks.libres \cup {c} /\ ks'.manejador = [m EXCEPT ![c] = h]
        /\ ks.estado \in [Procesos -> Estados]
    BY <1>0, <2>1, <2>2 DEF Planes, Deja
  <2>4. \A d \in CPUs : ks'.manejador[d] = IF d = c THEN h ELSE m[d]
    BY <2>2, <2>3
  <2>5. Avisado(ks, p) /\ \A r \in Procesos \ {p} : Avisado(ks', r) <=> Avisado(ks, r)
    BY <2>1, <2>4 DEF Avisado, p
  <2>6. ~Avisado(ks', p)
    BY <2>1, <2>2, <2>4 DEF Avisado
  <2>7. Libres(ks') = Libres(ks)
    BY <2>1, <2>3, <2>4 DEF Libres
  <2>8. \A r \in Procesos : Visto(ks')[r] = Visto(ks)[r]
    BY <2>2, <2>3, <2>5, <2>6, VistoDe
  <2>9. Visto(ks') = Visto(ks)
    BY <2>8, VistoMismo
  <2> QED BY <2>3, <2>7, <2>9 DEF Parado
<1> QED BY <1>1, <1>2

\* The one that is told that it is blocked leaves its CPU for what is seen of it.
LEMMA AvisadoEs ==
  ASSUME Tipos, Turnos, EnAvisos, NEW c \in CPUs, avisarBloqueado(c)
  PROVE  Salida(ks', c, Head(aKS[c]).pid, "BLOCK") /\ EscribeCPU(c, "BLOQUEADO", Head(aKS[c]).pid)
<1> DEFINE p == Head(aKS[c]).pid
           m == ks.manejador
<1>1. ks \in Planes /\ Esperas(ks)
  BY PlanDeKS DEF PlanOK, Turnos
<1>2. /\ aKS[c] # <<>> /\ m[c].pc = "avisar" /\ EscribeCPU(ks.en[p], "BLOQUEADO", p)
      /\ ks' = [ks EXCEPT !.manejador[c].pc = "bloquear"]
  BY DEF avisarBloqueado, Recibido
<1>3. p \in Procesos /\ m[c].pid = p /\ ks.en[p] = c
  BY <1>1, <1>2, TurnoDelMensaje DEF Tipos, EnAvisos, Esperas
<1>4. /\ ks'.estado = ks.estado /\ ks'.en = ks.en /\ ks'.libres = ks.libres
      /\ ks'.manejador = [m EXCEPT ![c].pc = "bloquear"] /\ m \in [CPUs -> Hilos]
  BY <1>1, <1>2 DEF Planes
<1>5. \A d \in CPUs : /\ ks'.manejador[d].pc = IF d = c THEN "bloquear" ELSE m[d].pc
                      /\ ks'.manejador[d].pid = m[d].pid
  BY <1>4 DEF Hilos
<1> HIDE DEF p
<1>6. Avisado(ks', p) /\ \A r \in Procesos \ {p} : Avisado(ks', r) <=> Avisado(ks, r)
  BY <1>3, <1>5 DEF Avisado
<1>7. Libres(ks') = Libres(ks) \cup {c}
  BY <1>4, <1>5 DEF Libres
<1>8. \A r \in Procesos : Visto(ks')[r] = IF r = p THEN "BLOCK" ELSE Visto(ks)[r]
  BY <1>3, <1>4, <1>6, VistoDe
<1>9. Visto(ks') = [Visto(ks) EXCEPT ![p] = "BLOCK"]
  <2>1. p \in Procesos
    BY <1>3
  <2> QED BY <2>1, <1>8, VistoCambia
<1> QED BY <1>2, <1>3, <1>4, <1>7, <1>9 DEF Salida, p

\* Every handler has one of them, or says nothing to anybody.
LEMMA AtencionEs ==
  ASSUME Tipos, Turnos, EnAvisos, NEW c \in CPUs, atender_cpu_ks(c), "bloqueo" \notin desvios'
  PROVE  (UNCHANGED <<aKS, deKS>> /\ Parado(ks')) \/ Atencion(c)
<1> DEFINE h == Head(aKS[c])
           p == h.pid
<1>0. PlanOK(ks) /\ ks \in Planes /\ TiposDeCPU /\ Esperas(ks)
  BY PlanDeKS DEF PlanOK, Tipos, Turnos
<1>1. aKS[c] # <<>> => p \in Suyos(ks, c) /\ p \in Procesos
  BY TurnoDelMensaje DEF Tipos
<1>2. ASSUME aKS[c] # <<>>, ks.manejador[c].pc = "libre", NEW e \in {"READY", "BLOCK", "EXIT"},
             ks' = Deja(ks, c, p, e)
      PROVE  Salida(ks', c, p, e)
  <2>1. p \in Suyos(ks, c)
    BY <1>1, <1>2
  <2> HIDE DEF p
  <2>2. Salida(Deja(ks, c, p, e), c, p, e)
    BY <1>0, <1>2, <2>1, SalidaEs
  <2> QED BY <1>2, <2>2 DEF p
<1>3. ks' = ks => Igual(ks')
  BY DEF Igual
<1>4. CASE km_notificar_exit(c)
  BY <1>4 DEF km_notificar_exit, Parado
<1>5. CASE finalizar_proceso(c)
  <2>1. /\ aKS[c] # <<>> /\ h.t \in {"DONE", "SEG_FAULT"} /\ ks' = Deja(ks, c, p, "EXIT")
        /\ ks.manejador[c].pc = "libre"
        /\ aKS' = [aKS EXCEPT ![c] = Tail(aKS[c])] /\ (deKS' = deKS \/ EscribeCPU(c, "OK", p))
    BY <1>0, <1>5 DEF finalizar_proceso, Mensaje, Recibido, Atendido, TiposDeCPU
  <2>2. Salida(ks', c, p, "EXIT")
    BY <1>2, <2>1
  <2> QED BY <2>1, <2>2 DEF Atencion
<1>6. CASE interrupcionAtendida(c) \/ atender_sleep_ks(c)
  <2>1. /\ aKS[c] # <<>> /\ deKS' = deKS /\ aKS' = [aKS EXCEPT ![c] = Tail(aKS[c])]
        /\ h.t \in {"ATENDIDA", "SLEEP"} /\ ks.manejador[c].pc = "libre"
        /\ ks' = Deja(ks, c, p, "READY") \/ ks' = Deja(ks, c, p, "BLOCK")
    BY <1>0, <1>6 DEF interrupcionAtendida, atender_sleep_ks, Mensaje, Recibido, Atendido, TiposDeCPU
  <2>2. Salida(ks', c, p, "READY") \/ Salida(ks', c, p, "BLOCK")
    BY <1>2, <2>1
  <2> QED BY <2>1, <2>2 DEF Atencion
<1>7. CASE memoria(c) \/ sin_memoria(c) \/ crear(c)
  <2>1. /\ aKS[c] # <<>> /\ h.t \in Llamadas /\ aKS' = [aKS EXCEPT ![c] = Tail(aKS[c])] /\ ks' = ks
        /\ EscribeCPU(c, "OK", p) \/ EscribeCPU(c, "ERROR", p)
    BY <1>0, <1>7 DEF memoria, sin_memoria, crear, Mensaje, Recibido, SoloKS, enKM, Llamadas, LlamadasMem,
                      Atendido, TiposDeCPU
  <2> QED BY <1>3, <2>1 DEF Atencion
\* The mutex changes hands, and nothing that is seen of the processes.
<1>11. ASSUME NEW n, ks' = [ks EXCEPT !.tomador = n] PROVE Igual(ks')
  <2>1. /\ ks'.estado = ks.estado /\ ks'.en = ks.en /\ ks'.libres = ks.libres
        /\ ks'.manejador = ks.manejador
    BY <1>0, <1>11 DEF Planes
  <2>2. Visto(ks') = Visto(ks) /\ Libres(ks') = Libres(ks)
    BY <2>1 DEF Visto, Libres
  <2> QED BY <2>1, <2>2 DEF Igual
<1>8. CASE mutex_lock_libre(c)
  <2>1. /\ aKS[c] # <<>> /\ h.t = "MUTEX_LOCK" /\ aKS' = [aKS EXCEPT ![c] = Tail(aKS[c])]
        /\ ks' = [ks EXCEPT !.tomador = p] /\ EscribeCPU(ks.en[p], "OK", p)
    BY <1>0, <1>8 DEF mutex_lock_libre, Mensaje, Recibido, Atendido, TiposDeCPU
  <2>2. ks.en[p] = c
    BY <1>1, <2>1, SuyoVisto
  <2>3. Igual(ks')
    BY <1>11, <2>1
  <2>4. h.t \in Llamadas
    BY <2>1 DEF Llamadas
  <2> QED BY <2>1, <2>2, <2>3, <2>4 DEF Atencion
<1>12. CASE mutex_lock_ocupado(c) \/ bloquearPorMutex(c)
  <2>1. UNCHANGED <<aKS, deKS>>
    BY <1>12 DEF mutex_lock_ocupado, bloquearPorMutex
  <2> QED BY <1>12, <2>1, ParadoEs
<1>13. CASE avisarBloqueado(c)
  <2>1. aKS[c] # <<>> /\ h.t = "MUTEX_LOCK" /\ aKS' = [aKS EXCEPT ![c] = Tail(aKS[c])]
    BY <1>0, <1>13 DEF avisarBloqueado, Recibido, Atendido, TiposDeCPU
  <2>2. Salida(ks', c, h.pid, "BLOCK") /\ EscribeCPU(c, "BLOQUEADO", h.pid)
    BY <1>13, AvisadoEs
  <2> QED BY <2>1, <2>2 DEF Atencion
<1>9. CASE mutex_unlock(c)
  <2> DEFINE g == Head(ks.cola)
             t == Tail(ks.cola)
  <2>1. /\ aKS[c] # <<>> /\ h.t = "MUTEX_UNLOCK" /\ aKS' = [aKS EXCEPT ![c] = Tail(aKS[c])]
        /\ EscribeCPU(c, "OK", p)
        /\ \/ ks' = ks
           \/ ks' = [ks EXCEPT !.tomador = Nadie]
           \/ /\ ks.cola # <<>> /\ ks' = [ks EXCEPT !.tomador = g, !.cola = t, !.estado[g] = "READY"]
              /\ ~SeBloquea(ks, g)
    BY <1>0, <1>9 DEF mutex_unlock, Mensaje, Recibido, Atendido, TiposDeCPU, Desvio, SinBloquear, SeBloquea
  <2>2. ASSUME ks' = [ks EXCEPT !.tomador = Nadie] PROVE Igual(ks')
    BY <1>11, <2>2
  <2>3. ASSUME ks.cola # <<>>, ks' = [ks EXCEPT !.tomador = g, !.cola = t, !.estado[g] = "READY"],
               ~SeBloquea(ks, g)
        PROVE  Igual(ks')
    <3>1. g \in Nombres
      BY <1>0, <2>3, HeadTailProperties DEF Planes, Nombres
    <3>2. /\ g \in Procesos /\ ks.estado[g] = "BLOCK"
          /\ ks'.estado = [ks.estado EXCEPT ![g] = "READY"] /\ ks'.en = ks.en /\ ks'.libres = ks.libres
          /\ ks'.manejador = ks.manejador
      BY <1>0, <2>3, <3>1, EsperasDespierta
    <3> HIDE DEF g
    <3>3. ks.estado \in [Procesos -> Estados]
      BY <1>0 DEF Planes
    <3>4. ~Avisado(ks, g) /\ Visto(ks)[g] = "BLOCK"
      BY <2>3, <3>2, VistoDe DEF Avisado, SeBloquea
    <3>5. /\ \A r : Avisado(ks', r) <=> Avisado(ks, r)
          /\ Libres(ks') = Libres(ks)
      BY <3>2 DEF Avisado, Libres
    <3>6. \A r \in Procesos : Visto(ks')[r] = IF r = g THEN "READY" ELSE Visto(ks)[r]
      BY <3>2, <3>3, <3>4, <3>5, VistoDe
    <3>7. Visto(ks') = [Visto(ks) EXCEPT ![g] = "READY"]
      <4> DEFINE x == Visto(ks')
                 y == Visto(ks)
      <4>1. x = [r \in Procesos |-> x[r]] /\ y = [r \in Procesos |-> y[r]]
        BY DEF Visto
      <4>2. \A r \in Procesos : x[r] = IF r = g THEN "READY" ELSE y[r]
        BY <3>6
      <4> HIDE DEF x, y
      <4>3. x = [y EXCEPT ![g] = "READY"]
        BY <3>2, <4>1, <4>2
      <4> QED BY <4>3 DEF x, y
    <3> QED BY <3>2, <3>4, <3>5, <3>7 DEF Igual
  <2>4. h.t \in Llamadas
    BY <2>1 DEF Llamadas
  <2> HIDE DEF g, t
  <2> QED BY <1>3, <2>1, <2>2, <2>3, <2>4 DEF Atencion
<1> QED BY <1>4, <1>5, <1>6, <1>7, <1>8, <1>9, <1>12, <1>13 DEF atender_cpu_ks

\* The plans of the scheduler with one process for each CPU.
LEMMA UnicosSalida ==
  ASSUME Tipos, Unicos(ks), Esperas(ks), NEW c \in CPUs, NEW p \in Suyos(ks, c),
         NEW e \in {"READY", "BLOCK", "EXIT"}, NEW u, Esperas(u), Salida(u, c, p, e)
  PROVE  Unicos(u) /\ \A x \in CPUs \ {c} : Suyos(u, x) = Suyos(ks, x)
<1>1. p \in Procesos /\ Visto(ks)[p] = "EXEC" /\ ks.en[p] = c
  BY VistoEs DEF Suyos
<1>2. Visto(ks) \in [Procesos -> Estados]
  BY VistoTipo
<1>3. u.en = ks.en /\ \A r \in Procesos : Visto(u)[r] = IF r = p THEN e ELSE Visto(ks)[r]
  BY <1>1, <1>2 DEF Salida
<1>4. Libres(u) = Libres(ks) \cup {c}
  BY DEF Salida
<1>5. ASSUME NEW r \in Procesos, Visto(u)[r] = "EXEC" PROVE r # p /\ Visto(ks)[r] = "EXEC"
  BY <1>3, <1>5
<1>6. Unicos(u)
  <2> SUFFICES ASSUME NEW r \in Procesos, Visto(u)[r] = "EXEC"
               PROVE  /\ u.en[r] \notin Libres(u)
                      /\ \A z \in Procesos : Visto(u)[z] = "EXEC" /\ u.en[z] = u.en[r] => z = r
    BY DEF Unicos
  <2>1. ks.en[r] \notin Libres(ks) /\ \A z \in Procesos : Visto(ks)[z] = "EXEC" /\ ks.en[z] = ks.en[r] => z = r
    BY <1>5 DEF Unicos
  <2>2. ks.en[r] # c
    BY <1>1, <1>5, <2>1
  <2> QED BY <1>3, <1>4, <1>5, <2>1, <2>2
<1>7. ASSUME NEW x \in CPUs \ {c} PROVE Suyos(u, x) = Suyos(ks, x)
  <2>1. x \in Libres(u) <=> x \in Libres(ks)
    BY <1>4, <1>7
  <2>2. \A r \in Procesos :
          /\ r \in Suyos(u, x) <=> Visto(u)[r] = "EXEC" /\ u.en[r] = x /\ x \notin Libres(u)
          /\ r \in Suyos(ks, x) <=> Visto(ks)[r] = "EXEC" /\ ks.en[r] = x /\ x \notin Libres(ks)
    BY VistoEs
  <2>3. \A r \in Procesos : r \in Suyos(u, x) <=> r \in Suyos(ks, x)
    BY <1>1, <1>3, <1>7, <2>1, <2>2
  <2> QED BY <2>3 DEF Suyos
<1> QED BY <1>6, <1>7

\* What changes neither who is executing nor where leaves one process in each CPU.
LEMMA UnicosIgual ==
  ASSUME Tipos, Unicos(ks), Esperas(ks), NEW u, Esperas(u), Igual(u)
  PROVE  Unicos(u) /\ \A x \in CPUs : Suyos(u, x) = Suyos(ks, x)
<1>1. Visto(ks) \in [Procesos -> Estados]
  BY VistoTipo
<1>2. \A r \in Procesos : Visto(u)[r] = "EXEC" <=> Visto(ks)[r] = "EXEC"
  BY <1>1 DEF Igual
<1>3. u.en = ks.en /\ Libres(u) = Libres(ks)
  BY DEF Igual
<1>4. Unicos(u)
  BY <1>2, <1>3 DEF Unicos
<1>5. ASSUME NEW x \in CPUs PROVE Suyos(u, x) = Suyos(ks, x)
  <2>1. \A r \in Procesos :
          /\ r \in Suyos(u, x) <=> Visto(u)[r] = "EXEC" /\ u.en[r] = x /\ x \notin Libres(u)
          /\ r \in Suyos(ks, x) <=> Visto(ks)[r] = "EXEC" /\ ks.en[r] = x /\ x \notin Libres(ks)
    BY VistoEs
  <2>2. \A r \in Procesos : r \in Suyos(u, x) <=> r \in Suyos(ks, x)
    BY <1>2, <1>3, <2>1
  <2> QED BY <2>2 DEF Suyos
<1> QED BY <1>4, <1>5

\* What dispatching does to what is seen.
LEMMA VistoDespacha ==
  ASSUME Tipos, Esperas(ks), NEW c \in CPUs, NEW p \in Procesos, despachar(c, p)
  PROVE  /\ Visto(ks') = [Visto(ks) EXCEPT ![p] = "EXEC"] /\ Visto(ks)[p] = "READY"
         /\ Libres(ks') = Libres(ks) \ {c} /\ c \in Libres(ks)
         /\ \A r \in Procesos : ks'.en[r] = IF r = p THEN c ELSE ks.en[r]
<1>1. /\ c \in ks.libres /\ ks.estado[p] = "READY"
      /\ ks' = [ks EXCEPT !.estado[p] = "EXEC", !.en[p] = c, !.libres = @ \ {c}]
  BY DEF despachar
<1>2. ks \in Planes /\ ks.estado \in [Procesos -> Estados] /\ ks.en \in [Procesos -> CPUs \cup {Nadie}]
  BY PlanDeKS DEF PlanOK, Planes
<1>3. /\ ks'.estado = [ks.estado EXCEPT ![p] = "EXEC"] /\ ks'.en = [ks.en EXCEPT ![p] = c]
      /\ ks'.libres = ks.libres \ {c} /\ ks'.manejador = ks.manejador
  BY <1>1, <1>2 DEF Planes
\* Neither the process nor the CPU is in the middle of a MUTEX_LOCK.
<1>4. ks.manejador[c].pc = "libre" /\ ~Avisado(ks, p)
  <2>1. \A d \in CPUs : ks.manejador[d].pc # "libre" =>
          ks.estado[ks.manejador[d].pid] = "EXEC" /\ d \notin ks.libres
    BY DEF Esperas
  <2>2. ks.manejador \in [CPUs -> Hilos]
    BY <1>2 DEF Planes
  <2> QED BY <1>1, <2>1, <2>2 DEF Avisado, Hilos
<1>5. Libres(ks') = Libres(ks) \ {c} /\ c \in Libres(ks) /\ \A r : Avisado(ks', r) <=> Avisado(ks, r)
  BY <1>1, <1>3, <1>4 DEF Libres, Avisado
<1>6. \A r \in Procesos : /\ Visto(ks')[r] = IF r = p THEN "EXEC" ELSE Visto(ks)[r]
                          /\ ks'.en[r] = IF r = p THEN c ELSE ks.en[r]
  BY <1>2, <1>3, <1>4, <1>5, VistoDe
<1>7. Visto(ks') = [Visto(ks) EXCEPT ![p] = "EXEC"]
  <2> DEFINE x == Visto(ks')
             y == Visto(ks)
  <2>1. x = [r \in Procesos |-> x[r]] /\ y = [r \in Procesos |-> y[r]]
    BY DEF Visto
  <2>2. \A r \in Procesos : x[r] = IF r = p THEN "EXEC" ELSE y[r]
    BY <1>6
  <2> HIDE DEF x, y
  <2>3. x = [y EXCEPT ![p] = "EXEC"]
    BY <2>1, <2>2
  <2> QED BY <2>3 DEF x, y
<1>8. Visto(ks)[p] = "READY"
  BY <1>1, <1>4, VistoDe
<1> QED BY <1>5, <1>6, <1>7, <1>8

\* What the end of an IO does to it.
LEMMA VistoDespierta ==
  ASSUME Tipos, Esperas(ks), NEW p \in Procesos, finalizar_io_y_desbloquear(p)
  PROVE  Igual(ks') /\ Visto(ks)[p] = "BLOCK" /\ Visto(ks') = [Visto(ks) EXCEPT ![p] = "READY"]
<1>1. ks.estado[p] = "BLOCK" /\ ks' = [ks EXCEPT !.estado[p] = "READY"]
  BY DEF finalizar_io_y_desbloquear
<1>2. ks \in Planes /\ ks.estado \in [Procesos -> Estados]
  BY PlanDeKS DEF PlanOK, Planes
<1>3. /\ ks'.estado = [ks.estado EXCEPT ![p] = "READY"] /\ ks'.en = ks.en
      /\ ks'.libres = ks.libres /\ ks'.manejador = ks.manejador
  BY <1>1, <1>2 DEF Planes
<1>4. ~Avisado(ks, p)
  <2>1. \A d \in CPUs : ks.manejador[d].pc # "libre" => ks.estado[ks.manejador[d].pid] = "EXEC"
    BY DEF Esperas
  <2> QED BY <1>1, <2>1 DEF Avisado
<1>5. Libres(ks') = Libres(ks) /\ \A r : Avisado(ks', r) <=> Avisado(ks, r)
  BY <1>3 DEF Libres, Avisado
<1>6. \A r \in Procesos : Visto(ks')[r] = IF r = p THEN "READY" ELSE Visto(ks)[r]
  BY <1>2, <1>3, <1>4, <1>5, VistoDe
<1>7. Visto(ks') = [Visto(ks) EXCEPT ![p] = "READY"]
  BY <1>6, VistoCambia
<1>8. Visto(ks)[p] = "BLOCK"
  BY <1>1, <1>4, VistoDe
<1> QED BY <1>3, <1>5, <1>7, <1>8 DEF Igual

\* Dispatching to a free CPU leaves one process in each CPU, and takes none from another.
LEMMA UnicosDespacha ==
  ASSUME Tipos, Unicos(ks), Esperas(ks), Esperas(ks'), NEW c \in CPUs, NEW p \in Procesos, despachar(c, p)
  PROVE  Unicos(ks') /\ (\A x \in CPUs : Suyos(ks, x) \subseteq Suyos(ks', x))
         /\ Visto(ks') = [Visto(ks) EXCEPT ![p] = "EXEC"] /\ Visto(ks)[p] = "READY"
<1>10. Visto(ks') = [Visto(ks) EXCEPT ![p] = "EXEC"] /\ Visto(ks)[p] = "READY"
  BY VistoDespacha
<1>9. Libres(ks') = Libres(ks) \ {c} /\ c \in Libres(ks)
  BY VistoDespacha
<1>2. Visto(ks) \in [Procesos -> Estados]
  BY VistoTipo
<1>4. \A r \in Procesos : /\ Visto(ks')[r] = IF r = p THEN "EXEC" ELSE Visto(ks)[r]
                          /\ ks'.en[r] = IF r = p THEN c ELSE ks.en[r]
  BY <1>2, <1>10, VistoDespacha
<1>5. \A r \in Procesos : Visto(ks)[r] = "EXEC" => r # p /\ ks.en[r] # c /\ ks.en[r] \notin Libres(ks)
  BY <1>9, <1>10 DEF Unicos
<1>6. Unicos(ks')
  <2> SUFFICES ASSUME NEW r \in Procesos, Visto(ks')[r] = "EXEC"
               PROVE  /\ ks'.en[r] \notin Libres(ks')
                      /\ \A z \in Procesos : Visto(ks')[z] = "EXEC" /\ ks'.en[z] = ks'.en[r] => z = r
    BY DEF Unicos
  <2>1. CASE r = p
    BY <1>9, <1>4, <1>5, <2>1
  <2>2. CASE r # p
    <3>1. Visto(ks)[r] = "EXEC" /\ ks'.en[r] = ks.en[r]
      BY <1>4, <2>2
    <3>2. ks.en[r] \notin Libres(ks) /\ ks.en[r] # c
          /\ \A z \in Procesos : Visto(ks)[z] = "EXEC" /\ ks.en[z] = ks.en[r] => z = r
      BY <1>5, <3>1 DEF Unicos
    <3> QED BY <1>9, <1>4, <3>1, <3>2
  <2> QED BY <2>1, <2>2
<1>7. ASSUME NEW x \in CPUs, NEW r \in Suyos(ks, x) PROVE r \in Suyos(ks', x)
  <2>1. r \in Procesos /\ Visto(ks)[r] = "EXEC" /\ ks.en[r] = x /\ x \notin Libres(ks)
    BY VistoEs DEF Suyos
  <2>2. r # p
    BY <1>5, <2>1
  <2>3. Visto(ks')[r] = "EXEC" /\ ks'.en[r] = x /\ x \notin Libres(ks')
    BY <1>9, <1>4, <2>1, <2>2
  <2> QED BY <2>1, <2>3, VistoEs
<1> QED BY <1>10, <1>6, <1>7


\* A step in which no CPU goes on, and Kernel Memory takes no context.
LEMMA ContextosDeKS ==
  ASSUME TiposDeCPU, Turnos, Contextuales, UNCHANGED <<cpu, aKM, real>>,
         "mutex" \in desvios => "mutex" \in desvios',
         \A d \in CPUs : /\ De(Flujo(d)', {"contexto"}) = De(Flujo(d), {"contexto"})
                         /\ \A r : AlDiaEn(Flujo(d), r) => AlDiaEn(Flujo(d)', r),
         \A p \in Procesos : (km'[p].vivo => km[p].vivo) /\ km'[p].pc = km[p].pc,
         \A d \in CPUs : Hay(deKS[d], "BLOQUEADO") => Hay(deKS'[d], "BLOQUEADO"),
         \A p \in Procesos : Dormido(p)' => Dormido(p) \/ \E d \in CPUs : p \in PorGuardarDe(d)',
         \A p \in Procesos : Visto(ks)[p] = "EXIT" => Visto(ks')[p] = "EXIT",
         \A d \in CPUs : \A p \in De(aKS[d], {"DONE"}) : p \in De(aKS'[d], {"DONE"}) \/ Visto(ks')[p] = "EXIT"
  PROVE  Contextuales'
<1>1. \A d \in CPUs : LlevaDe(d)' = LlevaDe(d) /\ PorGuardarDe(d) \subseteq PorGuardarDe(d)'
                      /\ PorGuardarDe(d)' \subseteq PorGuardarDe(d) \cup LlevaDe(d)
  BY DEF LlevaDe, Lleva, PorGuardarDe, PorGuardar, Cicladas
<1>2. Salidas'
  <2> SUFFICES ASSUME NEW d \in CPUs, aKM[d] # <<>> /\ aKM[d][1].t # "INTERRUPT",
                      NEW p \in De(aKM[d], {"contexto"})
               PROVE  Visto(ks')[p] = "EXIT" \/ p \in De(aKS'[d], {"DONE"})
    BY DEF Salidas, Sale
  <2>1. p \in Procesos
    BY DEF De
  <2>2. Visto(ks)[p] = "EXIT" \/ p \in De(aKS[d], {"DONE"})
    BY DEF Contextuales, Salidas, Sale
  <2> QED BY <2>1, <2>2
<1>3. ASSUME "mutex" \notin desvios' PROVE AlDia'
  <2>1. AlDia
    BY <1>3 DEF Contextuales
  <2>2. \A d \in CPUs : Copia(cpu'[d], aKM'[d], Flujo(d)', real')
    BY <2>1 DEF AlDia, Copia
  <2>3. ASSUME NEW d \in CPUs, NEW e \in CPUs, d # e PROVE LlevaDe(d)' \cap PorGuardarDe(e)' = {}
    <3>1. LlevaDe(d) \cap PorGuardarDe(e) = {} /\ LlevaDe(d) \cap LlevaDe(e) = {}
      BY <2>1, <2>3, LlevaUno DEF AlDia
    <3> QED BY <1>1, <3>1
  <2>4. ASSUME NEW p \in Procesos, km'[p].vivo, Dormido(p)'
        PROVE  km'[p].pc = real'[p] \/ \E d \in CPUs : p \in PorGuardarDe(d)'
    <3>1. CASE Dormido(p)
      <4>1. km[p].pc = real[p] \/ \E d \in CPUs : p \in PorGuardarDe(d)
        BY <2>1, <2>4, <3>1 DEF AlDia
      <4> QED BY <1>1, <4>1
    <3> QED BY <2>4, <3>1
  <2> QED BY <2>2, <2>3, <2>4 DEF AlDia
<1> QED BY <1>2, <1>3 DEF Contextuales

\* A step in which the scheduler and the CPUs say nothing to each other.
LEMMA ContextosQuietos ==
  ASSUME TiposDeCPU, Turnos, Contextuales, UNCHANGED <<cpu, aKM, aKS, deKS, real>>,
         "mutex" \in desvios => "mutex" \in desvios',
         \A d \in CPUs : /\ De(Flujo(d)', {"contexto"}) = De(Flujo(d), {"contexto"})
                         /\ \A r : AlDiaEn(Flujo(d), r) => AlDiaEn(Flujo(d)', r),
         \A p \in Procesos : (km'[p].vivo => km[p].vivo) /\ km'[p].pc = km[p].pc,
         Visto(ks') = Visto(ks)
  PROVE  Contextuales'
<1>1. \A p \in Procesos : Dormido(p)' => Dormido(p)
  BY DEF Dormido, DuermenDe
<1> QED BY <1>1, ContextosDeKS

\* The same, when nothing is written to a CPU.
LEMMA ContextosParados ==
  ASSUME TiposDeCPU, Turnos, Contextuales, UNCHANGED <<cpu, aKM, aKS, deKS, deKM, sesion, real>>,
         "mutex" \in desvios => "mutex" \in desvios',
         \A p \in Procesos : (km'[p].vivo => km[p].vivo) /\ km'[p].pc = km[p].pc,
         Visto(ks') = Visto(ks)
  PROVE  Contextuales'
<1>1. \A d \in CPUs : /\ De(Flujo(d)', {"contexto"}) = De(Flujo(d), {"contexto"})
                      /\ \A r : AlDiaEn(Flujo(d), r) => AlDiaEn(Flujo(d)', r)
  BY DEF Flujo
<1> QED BY <1>1, ContextosQuietos

\* What happens to the memory of a process but for the context that is saved.
LEMMA MemoriaSinContexto ==
  ASSUME TiposDeProceso, NEW p \in Procesos,
         \/ km' = km \/ km' = [km EXCEPT ![p].vivo = FALSE] \/ km' = [km EXCEPT ![p].cambios = @ + 1]
         \/ \E n : km' = [km EXCEPT ![p].segmentos = n, ![p].cambios = @ + 1]
  PROVE  \A r \in Procesos : (km'[r].vivo => km[r].vivo) /\ km'[r].pc = km[r].pc
<1>1. km \in [Procesos -> Memorias] /\ \A r \in Procesos : km[r] \in Memorias
  BY DEF TiposDeProceso
<1>2. CASE km' = km
  BY <1>2
<1>3. CASE km' = [km EXCEPT ![p].vivo = FALSE]
  BY <1>1, <1>3 DEF Memorias
<1>4. CASE km' = [km EXCEPT ![p].cambios = @ + 1]
  BY <1>1, <1>4 DEF Memorias
<1>5. ASSUME NEW n, km' = [km EXCEPT ![p].segmentos = n, ![p].cambios = @ + 1]
      PROVE  \A r \in Procesos : (km'[r].vivo => km[r].vivo) /\ km'[r].pc = km[r].pc
  <2> DEFINE m == [km[p] EXCEPT !.segmentos = n]
             l == km[p].cambios + 1
             w == [m EXCEPT !.cambios = l]
  <2>1. km' = [km EXCEPT ![p] = w]
    BY <1>1, <1>5
  <2>2. m.vivo = km[p].vivo /\ m.pc = km[p].pc /\ m = [km[p] EXCEPT !.segmentos = n]
    BY <1>1 DEF Memorias
  <2>3. w.vivo = m.vivo /\ w.pc = m.pc
    BY <1>1 DEF Memorias
  <2> HIDE DEF m, w, l
  <2> QED BY <1>1, <2>1, <2>2, <2>3
<1> QED BY <1>2, <1>3, <1>4, <1>5

\* What Kernel Memory does to a process on its own, and what a stick that connects does.
LEMMA ContextosDeMemoria ==
  ASSUME Tipos, Turnos, Contextuales,
         \/ \E p \in Procesos : decidir_interrupcion(p) \/ reubicar(p)
         \/ notificar_mapa_a_todas(SetToSeq(CPUs))
         \/ \E c \in CPUs : km_notificar_exit(c)
  PROVE  Contextuales'
<1>0. TiposDeCPU /\ TiposDeProceso /\ ks \in Planes
  BY DEF Tipos, TiposDeProceso
<1>1. ASSUME NEW p \in Procesos, decidir_interrupcion(p) PROVE Contextuales'
  <2> DEFINE v == Append(ks.interrumpe, [cpu |-> ks.en[p], pid |-> p])
  <2>1. UNCHANGED <<cpu, aKM, aKS, deKS, deKM, sesion, real, km, desvios>> /\ ks' = [ks EXCEPT !.interrumpe = v]
    BY <1>1 DEF decidir_interrupcion, enCPU, enKM
  <2> HIDE DEF v
  <2>2. ks'.estado = ks.estado /\ ks'.manejador = ks.manejador
    BY <1>0, <2>1 DEF Planes
  <2>3. Visto(ks') = Visto(ks)
    BY <2>2 DEF Visto
  <2> QED BY <1>0, <2>1, <2>3, ContextosParados
<1>2. ASSUME NEW p \in Procesos, reubicar(p) PROVE Contextuales'
  <2>1. UNCHANGED <<cpu, aKM, aKS, deKS, deKM, sesion, real, ks>>
        /\ km' = [km EXCEPT ![p].cambios = @ + 1] /\ ("mutex" \in desvios => "mutex" \in desvios')
    BY <1>2 DEF reubicar, enCPU, Desvio
  <2>2. \A r \in Procesos : (km'[r].vivo => km[r].vivo) /\ km'[r].pc = km[r].pc
    BY <1>0, <2>1, MemoriaSinContexto
  <2> QED BY <1>0, <2>1, <2>2, ContextosParados
<1>3. CASE notificar_mapa_a_todas(SetToSeq(CPUs))
  <2>1. UNCHANGED <<cpu, aKM, aKS, deKS, deKM, sesion, real, ks, km>>
        /\ ("mutex" \in desvios => "mutex" \in desvios')
    BY <1>3 DEF notificar_mapa_a_todas, enCPU
  <2> QED BY <1>0, <2>1, ContextosParados
<1>4. ASSUME NEW c \in CPUs, km_notificar_exit(c) PROVE Contextuales'
  <2> DEFINE p == Head(aKS[c]).pid
  <2>1. aKS[c] # <<>> /\ km' = [km EXCEPT ![p].vivo = FALSE]
        /\ UNCHANGED <<cpu, aKM, aKS, deKS, deKM, sesion, real, ks>>
        /\ ("mutex" \in desvios => "mutex" \in desvios')
    BY <1>4 DEF km_notificar_exit, Mensaje, Recibido, SoloKS, Desvio
  <2>2. p \in Procesos
    BY <1>0, <2>1, MensajeTipo
  <2> HIDE DEF p
  <2>3. \A r \in Procesos : (km'[r].vivo => km[r].vivo) /\ km'[r].pc = km[r].pc
    BY <1>0, <2>1, <2>2, MemoriaSinContexto
  <2> QED BY <1>0, <2>1, <2>3, ContextosParados
<1> QED BY <1>1, <1>2, <1>3, <1>4


\* What a handler of the scheduler leaves alone.
LEMMA AtencionDeja ==
  ASSUME Tipos, NEW c \in CPUs, atender_cpu_ks(c)
  PROVE  /\ UNCHANGED <<cpu, aKM, deKM, sesion, real>> /\ ("mutex" \in desvios => "mutex" \in desvios')
         /\ \A r \in Procesos : (km'[r].vivo => km[r].vivo) /\ km'[r].pc = km[r].pc
<1> DEFINE p == Head(aKS[c]).pid
<1>1. /\ UNCHANGED <<cpu, aKM, deKM, sesion, real>> /\ ("mutex" \in desvios => "mutex" \in desvios')
      /\ \/ km' = km
         \/ aKS[c] # <<>> /\ km' = [km EXCEPT ![p].vivo = FALSE]
         \/ aKS[c] # <<>> /\ \E n : km' = [km EXCEPT ![p].segmentos = n, ![p].cambios = @ + 1]
  <2>1. CASE km_notificar_exit(c)
    BY <2>1 DEF km_notificar_exit, Mensaje, Recibido, SoloKS, Desvio
  <2>2. CASE finalizar_proceso(c) \/ interrupcionAtendida(c) \/ atender_sleep_ks(c)
    BY <2>2 DEF finalizar_proceso, interrupcionAtendida, atender_sleep_ks, SoloKS
  <2>3. CASE mutex_lock_libre(c) \/ mutex_lock_ocupado(c) \/ avisarBloqueado(c) \/ bloquearPorMutex(c) \/ crear(c)
    BY <2>3 DEF mutex_lock_libre, mutex_lock_ocupado, avisarBloqueado, bloquearPorMutex, crear, SoloKS
  <2>6. CASE mutex_unlock(c)
    BY <2>6 DEF mutex_unlock, SoloKS, Desvio
  <2>4. CASE sin_memoria(c)
    BY <2>4 DEF sin_memoria, enKM
  <2>5. CASE memoria(c)
    <3>1. UNCHANGED <<cpu, aKM, deKM, sesion, real, desvios>> /\ aKS[c] # <<>>
      BY <2>5 DEF memoria, SoloKS, Mensaje, Recibido
    <3>2. km' = km \/ \E n : km' = [km EXCEPT ![p].segmentos = n, ![p].cambios = @ + 1]
      BY <2>5 DEF memoria
    <3> QED BY <3>1, <3>2
  <2> QED BY <2>1, <2>2, <2>3, <2>4, <2>5, <2>6 DEF atender_cpu_ks
<1>2. aKS[c] # <<>> => p \in Procesos
  BY MensajeTipo DEF Tipos
<1> HIDE DEF p
<1>3. \A r \in Procesos : (km'[r].vivo => km[r].vivo) /\ km'[r].pc = km[r].pc
  <2>1. CASE km' = km
    BY <2>1
  <2>2. CASE km' # km
    BY <1>1, <1>2, <2>2, MemoriaSinContexto DEF Tipos
  <2> QED BY <2>1, <2>2
<1> QED BY <1>1, <1>3

\* Who waits for the answer to a call is the process that called.
LEMMA QuienLlama ==
  ASSUME TiposDeCPU, Turnos, Unicos(ks), NEW c \in CPUs, aKS[c] # <<>>, Head(aKS[c]).t = "MUTEX_LOCK"
  PROVE  cpu[c].pc = "respKS" /\ cpu[c].pid = Head(aKS[c]).pid
<1> DEFINE a == aKS[c]
           d == deKS[c]
           k == cpu[c]
           S == Suyos(ks, c)
<1>1. Turno(k, a, d, S, Libres(ks) \cap {c}) /\ a \in Seq(Avisados) /\ a # <<>>
  BY TurnoEs
<1>2. Head(a).pid \in S
  BY TurnoDelMensaje
<1>3. Hay(a, "MUTEX_LOCK")
  BY <1>1, HayCola
<1>4. k.pc = "respKS" /\ ~Hay(d, "BLOQUEADO")
  BY <1>1, <1>3 DEF Turno
<1>5. k.pid \in S
  BY <1>1, <1>4 DEF Turno, Corre
<1>6. k.pid = Head(a).pid
  <2>1. \A p \in S : p \in Procesos /\ Visto(ks)[p] = "EXEC" /\ ks.en[p] = c
    BY SuyoVisto
  <2> QED BY <1>2, <1>5, <2>1 DEF Unicos
<1> QED BY <1>4, <1>6

\* A handler of the scheduler.
LEMMA ContextosDeAtencion ==
  ASSUME Tipos, Turnos, Unicos(ks), Contextuales, NEW c \in CPUs, Atencion(c),
         UNCHANGED <<cpu, aKM, deKM, sesion, real>>, "mutex" \in desvios => "mutex" \in desvios',
         \A r \in Procesos : (km'[r].vivo => km[r].vivo) /\ km'[r].pc = km[r].pc
  PROVE  Contextuales'
<1> DEFINE a == aKS[c]
           h == Head(a)
           p == h.pid
<1>1. TiposDeCPU /\ Visto(ks) \in [Procesos -> Estados]
  BY VistoTipo DEF Tipos
<1>2. a # <<>> /\ a \in Seq(Avisados) /\ aKS'[c] = Tail(a) /\ \A x \in CPUs \ {c} : aKS'[x] = aKS[x]
  BY <1>1 DEF Atencion, TiposDeCPU
<1>3. p \in Procesos /\ p \in Suyos(ks, c) /\ Visto(ks)[p] = "EXEC"
  BY <1>1, <1>2, TurnoDelMensaje, SuyoVisto
<1>4. \A T : De(a, T) = De(Tail(a), T) \cup {x \in Procesos : h.t \in T /\ h.pid = x}
  BY <1>2, DeCola
<1>5. \A x \in CPUs : \A T : De(aKS'[x], T) \subseteq De(aKS[x], T)
  BY <1>2, <1>4
<1>6. ASSUME NEW tipo \in {"OK", "ERROR", "BLOQUEADO"}, EscribeCPU(c, tipo, p)
      PROVE  /\ \A x \in CPUs : De(deKS'[x], {"PID"}) = De(deKS[x], {"PID"})
             /\ \A x \in CPUs : Hay(deKS[x], "BLOQUEADO") => Hay(deKS'[x], "BLOQUEADO")
             /\ tipo = "BLOQUEADO" => Hay(deKS'[c], "BLOQUEADO")
  <2> DEFINE m == [t |-> tipo, pid |-> p]
  <2>1. tipo \in {"PID", "INTERRUPT", "OK", "ERROR", "BLOQUEADO"} /\ m.t = tipo
    OBVIOUS
  <2>2. m \in Ordenes /\ deKS'[c] = Append(deKS[c], m) /\ \A x \in CPUs \ {c} : deKS'[x] = deKS[x]
    <3>1. TiposDeCPU /\ p \in Procesos /\ EscribeCPU(c, tipo, p)
      BY <1>1, <1>3, <1>6
    <3> HIDE DEF a, h, p
    <3> QED BY <2>1, <3>1, EscribeCPUTipo
  <2>3. deKS[c] \in Seq(Ordenes)
    BY <1>1 DEF TiposDeCPU
  <2> HIDE DEF m
  <2>4. De(Append(deKS[c], m), {"PID"}) = De(deKS[c], {"PID"}) \cup {x \in Procesos : m.t \in {"PID"} /\ m.pid = x}
    BY <2>2, <2>3, DeMas
  <2>5. De(deKS'[c], {"PID"}) = De(deKS[c], {"PID"})
    BY <2>1, <2>2, <2>4
  <2>6. \A t : Hay(Append(deKS[c], m), t) <=> Hay(deKS[c], t) \/ m.t = t
    BY <2>2, <2>3, HayMas
  <2>7. /\ Hay(deKS[c], "BLOQUEADO") => Hay(deKS'[c], "BLOQUEADO")
        /\ tipo = "BLOQUEADO" => Hay(deKS'[c], "BLOQUEADO")
    BY <2>1, <2>2, <2>6
  <2> QED BY <2>2, <2>5, <2>7
<1> HIDE DEF a, h, p
<1>7. /\ \A x \in CPUs : De(deKS'[x], {"PID"}) = De(deKS[x], {"PID"})
      /\ \A x \in CPUs : Hay(deKS[x], "BLOQUEADO") => Hay(deKS'[x], "BLOQUEADO")
  <2>1. deKS' = deKS \/ EscribeCPU(c, "OK", p) \/ EscribeCPU(c, "ERROR", p) \/ EscribeCPU(c, "BLOQUEADO", p)
    BY DEF Atencion, a, h, p
  <2>2. "OK" \in {"OK", "ERROR", "BLOQUEADO"} /\ "ERROR" \in {"OK", "ERROR", "BLOQUEADO"}
        /\ "BLOQUEADO" \in {"OK", "ERROR", "BLOQUEADO"}
    OBVIOUS
  <2>3. CASE deKS' = deKS
    BY <2>3
  <2> QED BY <1>6, <2>1, <2>2, <2>3
<1>8. \A x \in CPUs : DuermenDe(x)' \subseteq DuermenDe(x)
  <2> SUFFICES ASSUME NEW x \in CPUs PROVE DuermenDe(x)' \subseteq DuermenDe(x)
    OBVIOUS
  <2>1. De(aKS'[x], {"SLEEP", "ATENDIDA"}) \subseteq De(aKS[x], {"SLEEP", "ATENDIDA"})
    BY <1>5
  <2> QED BY <1>7, <2>1 DEF DuermenDe, Duermen
<1>9. \/ Igual(ks')
      \/ \E e \in {"READY", "BLOCK", "EXIT"} :
           /\ Salida(ks', c, p, e) /\ (h.t = "DONE" => e = "EXIT")
           /\ \/ e = "EXIT" \/ h.t \in {"SLEEP", "ATENDIDA"}
              \/ h.t = "MUTEX_LOCK" /\ EscribeCPU(c, "BLOQUEADO", p)
  <2>1. "BLOCK" \in {"READY", "BLOCK", "EXIT"}
    OBVIOUS
  <2> QED BY <2>1 DEF Atencion, a, h, p
<1>10. h.t = "DONE" => Visto(ks')[p] = "EXIT"
  <2>1. "DONE" \notin Llamadas /\ "DONE" # "MUTEX_LOCK"
    BY DEF Llamadas, LlamadasMem
  <2>2. h.t = "DONE" => Salida(ks', c, p, "EXIT")
    BY <2>1 DEF Atencion, a, h, p
  <2> QED BY <1>1, <1>3, <2>2 DEF Salida
<1>11. ASSUME NEW r \in Procesos, Dormido(r)' PROVE Dormido(r) \/ \E d \in CPUs : r \in PorGuardarDe(d)'
  <2>1. CASE \E x \in CPUs : r \in DuermenDe(x)'
    BY <1>8, <2>1 DEF Dormido
  <2>2. CASE Visto(ks')[r] \in {"READY", "BLOCK"}
    <3>1. CASE Igual(ks')
      <4>1. Visto(ks)[r] \in {"READY", "BLOCK"}
        BY <1>1, <2>2, <3>1 DEF Igual
      <4> QED BY <4>1 DEF Dormido
    <3>2. ASSUME NEW e \in {"READY", "BLOCK", "EXIT"}, Salida(ks', c, p, e),
                 \/ e = "EXIT" \/ h.t \in {"SLEEP", "ATENDIDA"}
                 \/ h.t = "MUTEX_LOCK" /\ EscribeCPU(c, "BLOQUEADO", p)
          PROVE  Dormido(r) \/ \E d \in CPUs : r \in PorGuardarDe(d)'
      <4>1. Visto(ks')[r] = IF r = p THEN e ELSE Visto(ks)[r]
        BY <1>1, <1>3, <3>2 DEF Salida
      <4>2. CASE r # p
        BY <2>2, <4>1, <4>2 DEF Dormido
      <4>3. CASE r = p /\ h.t \in {"SLEEP", "ATENDIDA"}
        <5>1. r \in De(a, {"SLEEP", "ATENDIDA"})
          BY <1>4, <4>3 DEF p
        <5> QED BY <5>1 DEF a, Dormido, DuermenDe, Duermen
      <4>4. CASE r = p /\ h.t = "MUTEX_LOCK" /\ EscribeCPU(c, "BLOQUEADO", p)
        <5>1. cpu[c].pc = "respKS" /\ cpu[c].pid = p
          BY <1>1, <1>2, <4>4, QuienLlama DEF p, h, a
        <5>2. "BLOQUEADO" \in {"OK", "ERROR", "BLOQUEADO"}
          OBVIOUS
        <5>3. Hay(deKS'[c], "BLOQUEADO")
          BY <1>6, <4>4, <5>2
        <5>4. p \in PorGuardarDe(c)'
          BY <5>1, <5>3 DEF PorGuardarDe, PorGuardar
        <5> QED BY <4>4, <5>4
      <4> QED BY <2>2, <3>2, <4>1, <4>2, <4>3, <4>4
    <3> QED BY <1>9, <3>1, <3>2
  <2> QED BY <1>11, <2>1, <2>2 DEF Dormido
<1>12. \A r \in Procesos : Visto(ks)[r] = "EXIT" => Visto(ks')[r] = "EXIT"
  BY <1>1, <1>3, <1>9 DEF Igual, Salida
<1>13. \A d \in CPUs : \A r \in De(aKS[d], {"DONE"}) : r \in De(aKS'[d], {"DONE"}) \/ Visto(ks')[r] = "EXIT"
  <2>1. ASSUME NEW r \in De(a, {"DONE"}) PROVE r \in De(Tail(a), {"DONE"}) \/ Visto(ks')[r] = "EXIT"
    BY <1>4, <1>10, <2>1 DEF p
  <2> QED BY <1>2, <2>1 DEF a
<1>14. \A d \in CPUs : /\ De(Flujo(d)', {"contexto"}) = De(Flujo(d), {"contexto"})
                       /\ \A r : AlDiaEn(Flujo(d), r) => AlDiaEn(Flujo(d)', r)
  BY DEF Flujo
<1> QED BY <1>1, <1>7, <1>11, <1>12, <1>13, <1>14, ContextosDeKS


\* A message to a CPU that neither answers nor takes an answer away.
LEMMA EscribeSinBloqueo ==
  ASSUME TiposDeCPU, NEW c \in CPUs, NEW p \in Procesos, NEW tipo \in {"PID", "INTERRUPT"},
         EscribeCPU(c, tipo, p)
  PROVE  /\ \A x \in CPUs : Hay(deKS[x], "BLOQUEADO") => Hay(deKS'[x], "BLOQUEADO")
         /\ \A x \in CPUs : De(deKS'[x], {"PID"}) \subseteq
              De(deKS[x], {"PID"}) \cup (IF tipo = "PID" THEN {p} ELSE {})
<1> DEFINE m == [t |-> tipo, pid |-> p]
<1>1. tipo \in {"PID", "INTERRUPT", "OK", "ERROR", "BLOQUEADO"} /\ m.t = tipo /\ m.pid = p
  OBVIOUS
<1>2. m \in Ordenes /\ deKS'[c] = Append(deKS[c], m) /\ \A x \in CPUs \ {c} : deKS'[x] = deKS[x]
  BY <1>1, EscribeCPUTipo
<1>3. deKS[c] \in Seq(Ordenes)
  BY DEF TiposDeCPU
<1> HIDE DEF m
<1>4. De(Append(deKS[c], m), {"PID"}) = De(deKS[c], {"PID"}) \cup {x \in Procesos : m.t \in {"PID"} /\ m.pid = x}
  BY <1>2, <1>3, DeMas
<1>5. De(deKS'[c], {"PID"}) \subseteq De(deKS[c], {"PID"}) \cup (IF tipo = "PID" THEN {p} ELSE {})
  BY <1>1, <1>2, <1>4
<1>6. Hay(Append(deKS[c], m), "BLOQUEADO") <=> Hay(deKS[c], "BLOQUEADO") \/ m.t = "BLOQUEADO"
  BY <1>2, <1>3, HayMas
<1> QED BY <1>2, <1>5, <1>6

\* The dispatcher, the interrupts and the end of an IO.
LEMMA Contextos_despachar ==
  ASSUME Tipos, Turnos, Contextuales, NEW c \in CPUs, NEW p \in Procesos, despachar(c, p)
  PROVE  Contextuales'
<1>1. /\ UNCHANGED <<cpu, aKM, deKM, sesion, real, aKS, km, desvios>> /\ EscribeCPU(c, "PID", p)
  BY DEF despachar, SoloKS
<1>2. TiposDeCPU /\ Visto(ks) \in [Procesos -> Estados]
  BY VistoTipo DEF Tipos
<1>3. Visto(ks') = [Visto(ks) EXCEPT ![p] = "EXEC"] /\ Visto(ks)[p] = "READY"
  BY VistoDespacha DEF Turnos
<1>4. "PID" \in {"PID", "INTERRUPT"}
  OBVIOUS
<1>5. /\ \A x \in CPUs : Hay(deKS[x], "BLOQUEADO") => Hay(deKS'[x], "BLOQUEADO")
      /\ \A x \in CPUs : De(deKS'[x], {"PID"}) \subseteq De(deKS[x], {"PID"}) \cup {p}
  BY <1>1, <1>2, <1>4, EscribeSinBloqueo
<1>6. \A x \in CPUs : DuermenDe(x)' \subseteq DuermenDe(x) \cup {p}
  BY <1>1, <1>5 DEF DuermenDe, Duermen
<1>7. \A r \in Procesos : Dormido(r)' => Dormido(r)
  BY <1>2, <1>3, <1>6 DEF Dormido
<1>8. \A r \in Procesos : Visto(ks)[r] = "EXIT" => Visto(ks')[r] = "EXIT"
  BY <1>1, <1>2, <1>3
<1>9. /\ \A d \in CPUs : /\ De(Flujo(d)', {"contexto"}) = De(Flujo(d), {"contexto"})
                         /\ \A r : AlDiaEn(Flujo(d), r) => AlDiaEn(Flujo(d)', r)
      /\ \A r \in Procesos : (km'[r].vivo => km[r].vivo) /\ km'[r].pc = km[r].pc
      /\ \A d \in CPUs : \A r \in De(aKS[d], {"DONE"}) : r \in De(aKS'[d], {"DONE"}) \/ Visto(ks')[r] = "EXIT"
  BY <1>1 DEF Flujo
<1> QED BY <1>1, <1>2, <1>5, <1>7, <1>8, <1>9, ContextosDeKS

\* The process that wakes up was asleep already, so its context was where it had to be.
LEMMA Contextos_finalizar_io ==
  ASSUME Tipos, Turnos, Contextuales, NEW p \in Procesos, finalizar_io_y_desbloquear(p)
  PROVE  Contextuales' /\ Igual(ks')
<1>1. UNCHANGED <<cpu, aKM, deKM, sesion, real, aKS, deKS, km, desvios>>
  BY DEF finalizar_io_y_desbloquear, SoloKS
<1>2. TiposDeCPU /\ Visto(ks) \in [Procesos -> Estados]
  BY VistoTipo DEF Tipos
<1>3. Visto(ks') = [Visto(ks) EXCEPT ![p] = "READY"] /\ Visto(ks)[p] = "BLOCK"
  BY VistoDespierta DEF Turnos
<1>4. Igual(ks')
  BY VistoDespierta DEF Turnos
<1>6. \A x \in CPUs : DuermenDe(x)' = DuermenDe(x)
  BY <1>1 DEF DuermenDe
<1>7. \A r \in Procesos : Dormido(r)' => Dormido(r)
  BY <1>2, <1>3, <1>6 DEF Dormido
<1>8. \A r \in Procesos : Visto(ks)[r] = "EXIT" => Visto(ks')[r] = "EXIT"
  BY <1>1, <1>2, <1>3
<1>9. /\ \A d \in CPUs : /\ De(Flujo(d)', {"contexto"}) = De(Flujo(d), {"contexto"})
                         /\ \A r : AlDiaEn(Flujo(d), r) => AlDiaEn(Flujo(d)', r)
      /\ \A r \in Procesos : (km'[r].vivo => km[r].vivo) /\ km'[r].pc = km[r].pc
      /\ \A d \in CPUs : \A r \in De(aKS[d], {"DONE"}) : r \in De(aKS'[d], {"DONE"}) \/ Visto(ks')[r] = "EXIT"
      /\ \A x \in CPUs : Hay(deKS[x], "BLOQUEADO") => Hay(deKS'[x], "BLOQUEADO")
  BY <1>1 DEF Flujo
<1> QED BY <1>1, <1>2, <1>4, <1>7, <1>8, <1>9, ContextosDeKS

\* An interrupt that is written says nothing of where a context is.
LEMMA Contextos_enviar_interrupcion ==
  ASSUME Tipos, Fases, Turnos, Contextuales, NEW i \in DOMAIN ks.interrumpe, enviar_interrupcion_cpu(i)
  PROVE  Contextuales'
<1> DEFINE c == ks.interrumpe[i].cpu
           p == ks.interrumpe[i].pid
<1>1. /\ UNCHANGED <<cpu, aKM, deKM, sesion, real, aKS, km, desvios>> /\ EscribeCPU(c, "INTERRUPT", p)
      /\ c \in CPUs /\ p \in Procesos /\ ks'.estado = ks.estado /\ ks'.manejador = ks.manejador
  BY enviar_interrupcion_cpuPaso DEF enviar_interrupcion_cpu, SoloKS
<1>3. Visto(ks') = Visto(ks)
  BY <1>1 DEF Visto
<1>2. TiposDeCPU
  BY DEF Tipos
<1>4. "INTERRUPT" \in {"PID", "INTERRUPT"}
  OBVIOUS
<1> HIDE DEF c, p
<1>5. /\ \A x \in CPUs : Hay(deKS[x], "BLOQUEADO") => Hay(deKS'[x], "BLOQUEADO")
      /\ \A x \in CPUs : De(deKS'[x], {"PID"}) \subseteq De(deKS[x], {"PID"})
  BY <1>1, <1>2, <1>4, EscribeSinBloqueo
<1>6. \A x \in CPUs : DuermenDe(x)' \subseteq DuermenDe(x)
  BY <1>1, <1>5 DEF DuermenDe, Duermen
<1>7. \A r \in Procesos : Dormido(r)' => Dormido(r)
  BY <1>3, <1>6 DEF Dormido
<1>9. /\ \A d \in CPUs : /\ De(Flujo(d)', {"contexto"}) = De(Flujo(d), {"contexto"})
                         /\ \A r : AlDiaEn(Flujo(d), r) => AlDiaEn(Flujo(d)', r)
      /\ \A r \in Procesos : (km'[r].vivo => km[r].vivo) /\ km'[r].pc = km[r].pc
      /\ \A r \in Procesos : Visto(ks)[r] = "EXIT" => Visto(ks')[r] = "EXIT"
      /\ \A d \in CPUs : \A r \in De(aKS[d], {"DONE"}) : r \in De(aKS'[d], {"DONE"}) \/ Visto(ks')[r] = "EXIT"
  BY <1>1, <1>3 DEF Flujo
<1> QED BY <1>1, <1>2, <1>5, <1>7, <1>9, ContextosDeKS

\* A frame that is no context, between others.
LEMMA DeEnMedio ==
  ASSUME NEW s \in Seq(Tramas), NEW g \in Seq(Tramas), NEW e \in Tramas, e.t # "contexto"
  PROVE  /\ De(Append(s, e) \o g, {"contexto"}) = De(s \o g, {"contexto"})
         /\ \A r : AlDiaEn(s \o g, r) => AlDiaEn(Append(s, e) \o g, r)
<1> DEFINE u == Append(s, e)
<1>1. u \in Seq(Tramas)
  BY AppendProperties
<1>2. /\ De(u, {"contexto"}) = De(s, {"contexto"}) \cup {p \in Procesos : e.t \in {"contexto"} /\ e.pid = p}
      /\ \A r : AlDiaEn(u, r) <=> AlDiaEn(s, r) /\ (e.t = "contexto" => e.pc = r[e.pid])
  BY DeMas
<1> HIDE DEF u
<1>3. De(u, {"contexto"}) = De(s, {"contexto"}) /\ \A r : AlDiaEn(u, r) <=> AlDiaEn(s, r)
  BY <1>2
<1>4. /\ De(s \o g, {"contexto"}) = De(s, {"contexto"}) \cup De(g, {"contexto"})
      /\ \A r : AlDiaEn(s \o g, r) <=> AlDiaEn(s, r) /\ AlDiaEn(g, r)
  BY DeJuntas
<1>5. /\ De(u \o g, {"contexto"}) = De(u, {"contexto"}) \cup De(g, {"contexto"})
      /\ \A r : AlDiaEn(u \o g, r) <=> AlDiaEn(u, r) /\ AlDiaEn(g, r)
  BY <1>1, DeJuntas
<1> QED BY <1>3, <1>4, <1>5 DEF u

\* The maps of a stick carry no context.
LEMMA Contextos_avisar ==
  ASSUME Tipos, Turnos, Contextuales, avisar
  PROVE  Contextuales'
<1> DEFINE h == Head(aviso)
<1>1. /\ aviso # <<>> /\ deKM' = [deKM EXCEPT ![h.cpu] = Append(@, Trama(h.t))]
      /\ UNCHANGED <<cpu, aKM, aKS, deKS, sesion, real, km, ks, desvios>>
  BY DEF avisar, enCPU
<1>2. aviso \in Seq(Avisos) /\ TiposDeCPU
  BY DEF TiposDeCPU, Tipos
<1>3. h \in Avisos
  BY <1>1, <1>2, HeadTailProperties
<1>4. h.cpu \in CPUs /\ h.t \in {"MAPA", "mapa"}
  BY <1>3 DEF Avisos
<1>5. h.t \in TiposDeTrama \ {"pid", "contexto", "instruccion"}
  BY <1>4 DEF TiposDeTrama
<1>6. Trama(h.t) \in Tramas /\ Trama(h.t).t # "contexto"
  BY <1>4, <1>5, TramasHechas
<1>7. PICK c \in CPUs, e \in Tramas : e.t # "contexto" /\ deKM' = [deKM EXCEPT ![c] = Append(@, e)]
  BY <1>1, <1>4, <1>6
<1> HIDE DEF h
<1>8. deKM[c] \in Seq(Tramas) /\ sesion[c].envio \in Seq(Tramas)
  BY <1>2, TiposDe
<1>10. deKM'[c] = Append(deKM[c], e) /\ \A d \in CPUs \ {c} : deKM'[d] = deKM[d]
  BY <1>2, <1>7 DEF TiposDeCPU
<1>11. Flujo(c)' = Append(deKM[c], e) \o sesion[c].envio /\ \A d \in CPUs \ {c} : Flujo(d)' = Flujo(d)
  BY <1>1, <1>10 DEF Flujo
<1>12. /\ De(Append(deKM[c], e) \o sesion[c].envio, {"contexto"}) = De(Flujo(c), {"contexto"})
       /\ \A r : AlDiaEn(Flujo(c), r) => AlDiaEn(Append(deKM[c], e) \o sesion[c].envio, r)
  BY <1>7, <1>8, DeEnMedio DEF Flujo
<1>16. \A d \in CPUs : /\ De(Flujo(d)', {"contexto"}) = De(Flujo(d), {"contexto"})
                       /\ \A r : AlDiaEn(Flujo(d), r) => AlDiaEn(Flujo(d)', r)
  <2> SUFFICES ASSUME NEW d \in CPUs PROVE /\ De(Flujo(d)', {"contexto"}) = De(Flujo(d), {"contexto"})
                                           /\ \A r : AlDiaEn(Flujo(d), r) => AlDiaEn(Flujo(d)', r)
    OBVIOUS
  <2>1. CASE d = c
    BY <1>11, <1>12, <2>1
  <2>2. CASE d # c
    BY <1>11, <2>2
  <2> QED BY <2>1, <2>2
<1>17. /\ \A r \in Procesos : (km'[r].vivo => km[r].vivo) /\ km'[r].pc = km[r].pc
       /\ Visto(ks') = Visto(ks) /\ ("mutex" \in desvios => "mutex" \in desvios')
  BY <1>1
<1> QED BY <1>1, <1>2, <1>16, <1>17, ContextosQuietos


-----------------------------------------------------------------------------
(* The contexts on their way, and the process the scheduler has on the CPU. *)

\* While Kernel Memory has not read the context of a process that did not block in a
\* call, the scheduler has it on the CPU, which has not said that it leaves.
Guarda(k, q, a, S) ==
  De(q, {"contexto"}) # {} /\ q[1].t = "INTERRUPT" /\ k.tras # "BLOQUEADO" =>
    De(q, {"contexto"}) \subseteq S /\ \A i \in 1..Len(a) : a[i].t \notin Ultimos
Guardados == \A c \in CPUs : Guarda(cpu[c], aKM[c], aKS[c], Suyos(ks, c))

\* Where a CPU has no context in its socket.
Quietas ==
  {"ocioso", "mapaCod", "mapaBuf", "contexto", "respuesta", "instruccion", "respKS",
   "interrupciones", "ackSegFault"}

\* The forms of a step of a CPU, by what it does to its context.
LEMMA FormasDeCiclo ==
  ASSUME TiposDeCPU, NEW c \in CPUs, Ciclo(c)
  PROVE  \/ UNCHANGED <<aKM, aKS>> /\ cpu'[c].tras = cpu[c].tras
         \/ cpu'[c].pc \in Quietas
         \/ /\ aKS' = aKS
            /\ \E k \in Registros, tras \in {"SLEEP", "ATENDIDA", "BLOQUEADO"} :
                 /\ k.pid = cpu[c].pid /\ guardar_contexto_km(c, k, tras)
                 /\ \/ cpu[c].pc = "interrupciones" \/ tras = "BLOQUEADO"
                    \/ cpu[c].pc = "ejecuta" /\ cpu[c].instr.t = "instruccion"
         \/ cpu[c].pc = "ejecuta" /\ cpu[c].instr.t = "instruccion" /\ syscall_exit(c)
<1> DEFINE x == cpu[c]
<1>0. x \in Registros /\ cpu \in [CPUs -> Registros]
  BY DEF TiposDeCPU
<1>1. \A pc : Va(c, pc) => cpu'[c].pc = pc /\ cpu'[c].tras = x.tras
  BY <1>0 DEF Va, Registros
<1>2. \A r \in Registros : fetch(c, r) => cpu'[c].pc = "respuesta"
  BY <1>0 DEF fetch, Registros
<1>3. Ocioso(c) => cpu'[c].pc = "ocioso"
  BY <1>0 DEF Ocioso, CPUOciosa
<1>4. noop(c) => cpu'[c].pc = "interrupciones"
  <2> DEFINE k == Avanzada(c)
  <2>1. k \in Registros
    BY AvanzadaTipo
  <2>2. noop(c) => cpu' = [cpu EXCEPT ![c] = [k EXCEPT !.pc = "interrupciones"]]
    BY DEF noop
  <2> HIDE DEF k
  <2> QED BY <1>0, <2>1, <2>2 DEF Registros
<1>5. Avanzada(c) \in Registros /\ Avanzada(c).pid = x.pid
  BY AvanzadaTipo
<1>6. CASE esperar_pid(c)
  BY <1>0, <1>6 DEF esperar_pid, LeeKS, EnPC, CPUOciosa, Quietas
<1>7. CASE recibir_mapa(c)
  BY <1>1, <1>7 DEF recibir_mapa, SoloKM, Quietas
<1>8. CASE recibirContexto(c)
  <2> DEFINE r == [x EXCEPT !.ctx = Lee(c).pc, !.tabla = Lee(c).tabla]
  <2>1. Lee(c) \in Tramas
    BY <1>8, Lectura DEF recibirContexto, LeeKM, Lee
  <2>2. r \in Registros
    BY <1>0, <2>1 DEF Registros, Tramas
  <2>3. fetch(c, r) \/ (Va(c, "fin") /\ aKM' = aKM /\ aKS' = aKS)
    BY <1>8 DEF recibirContexto, SoloKM
  <2> HIDE DEF r
  <2> QED BY <1>1, <1>2, <2>2, <2>3 DEF Quietas
<1>9. CASE recibirInstruccion(c) \/ actualizar_tabla_segmentos(c)
  <2>1. UNCHANGED <<aKM, aKS>>
    BY <1>9 DEF recibirInstruccion, actualizar_tabla_segmentos, SoloKM
  <2>2. \/ \E pc : Va(c, pc)
        \/ \E m : cpu' = [cpu EXCEPT ![c].instr = m, ![c].pc = "tabla"]
        \/ \E n : cpu' = [cpu EXCEPT ![c].pc = "ejecuta", ![c].tabla = n]
    BY <1>9 DEF recibirInstruccion, actualizar_tabla_segmentos
  <2>3. ASSUME NEW m, cpu' = [cpu EXCEPT ![c].instr = m, ![c].pc = "tabla"] PROVE cpu'[c].tras = x.tras
    BY <1>0, <2>3 DEF Registros
  <2>4. ASSUME NEW n, cpu' = [cpu EXCEPT ![c].pc = "ejecuta", ![c].tabla = n] PROVE cpu'[c].tras = x.tras
    BY <1>0, <2>4 DEF Registros
  <2> QED BY <1>1, <2>1, <2>2, <2>3, <2>4
<1>10. CASE ejecutar(c)
  <2>1. x.pc = "ejecuta"
    BY <1>10 DEF ejecutar, EnPC
  <2>2. CASE Va(c, "fin") /\ UNCHANGED <<aKM, aKS, real>>
    BY <1>1, <2>2
  <2>3. CASE noop(c)
    BY <1>4, <2>3 DEF Quietas
  <2>4. CASE x.instr.t = "instruccion" /\ syscall_sleep(c)
    <3>1. guardar_contexto_km(c, Avanzada(c), "SLEEP") /\ aKS' = aKS
      BY <2>4 DEF syscall_sleep
    <3>2. "SLEEP" \in {"SLEEP", "ATENDIDA", "BLOQUEADO"}
      OBVIOUS
    <3> QED BY <1>5, <2>1, <2>4, <3>1, <3>2
  <2>5. CASE Va(c, "ackSegFault") \/ Va(c, "respKS")
    BY <1>1, <2>5 DEF Quietas
  <2> QED BY <1>10, <2>1, <2>2, <2>3, <2>4, <2>5, ejecutarFormas
<1>11. CASE respuestaKS(c)
  <2>1. aKS' = aKS
    BY <1>11 DEF respuestaKS
  <2>2. \/ \E m : cpu' = [cpu EXCEPT ![c].espera = m] /\ aKM' = aKM
        \/ noop(c)
        \/ guardar_contexto_km(c, Avanzada(c), "BLOQUEADO")
        \/ \E pc : Va(c, pc) /\ aKM' = aKM
    BY <1>11 DEF respuestaKS
  <2>3. ASSUME NEW m, cpu' = [cpu EXCEPT ![c].espera = m] PROVE cpu'[c].tras = x.tras
    BY <1>0, <2>3 DEF Registros
  <2>4. "BLOQUEADO" \in {"SLEEP", "ATENDIDA", "BLOQUEADO"}
    OBVIOUS
  <2>5. CASE noop(c)
    BY <1>4, <2>5 DEF Quietas
  <2>6. CASE guardar_contexto_km(c, Avanzada(c), "BLOQUEADO")
    BY <1>5, <2>1, <2>4, <2>6
  <2> QED BY <1>1, <2>1, <2>2, <2>3, <2>5, <2>6
<1>12. CASE guardado(c) \/ okExit(c)
  BY <1>1, <1>3, <1>12 DEF guardado, okExit, SoloKM, Quietas
<1>13. CASE manejar_seg_fault(c)
  BY <1>3, <1>13 DEF manejar_seg_fault, Quietas
<1>14. CASE atender_interrupcion_en_espera(c) \/ atender_interrupcion(c)
  <2>1. aKS' = aKS /\ x.pc = "interrupciones"
    BY <1>14 DEF atender_interrupcion_en_espera, atender_interrupcion, EnPC
  <2>2. guardar_contexto_km(c, x, "ATENDIDA") \/ Ocioso(c) \/ fetch(c, x) \/ (Va(c, "fin") /\ aKM' = aKM)
    BY <1>14 DEF atender_interrupcion_en_espera, atender_interrupcion
  <2>3. "ATENDIDA" \in {"SLEEP", "ATENDIDA", "BLOQUEADO"}
    OBVIOUS
  <2>4. CASE guardar_contexto_km(c, x, "ATENDIDA")
    BY <1>0, <2>1, <2>3, <2>4
  <2>5. CASE Ocioso(c) \/ fetch(c, x)
    BY <1>0, <1>2, <1>3, <2>5 DEF Quietas
  <2> QED BY <1>1, <2>1, <2>2, <2>4, <2>5
<1> QED BY <1>6, <1>7, <1>8, <1>9, <1>10, <1>11, <1>12, <1>13, <1>14 DEF Ciclo


\* A step of a CPU is its own.
LEMMA CicloSuyo ==
  ASSUME TiposDeCPU, NEW c \in CPUs, Ciclo(c), NEW d \in CPUs, d # c
  PROVE  cpu'[d] = cpu[d] /\ aKM'[d] = aKM[d] /\ aKS'[d] = aKS[d]
<1>0. cpu \in [CPUs -> Registros] /\ aKM \in [CPUs -> Seq(Tramas)] /\ aKS \in [CPUs -> Seq(Avisados)]
  BY DEF TiposDeCPU
<1>1. \A pc : Va(c, pc) => cpu'[d] = cpu[d]
  BY <1>0 DEF Va
<1>2. \A r : fetch(c, r) => cpu'[d] = cpu[d] /\ aKM'[d] = aKM[d]
  BY <1>0 DEF fetch, EscribeKM
<1>3. Ocioso(c) => cpu'[d] = cpu[d]
  BY <1>0 DEF Ocioso
<1>4. noop(c) => cpu'[d] = cpu[d] /\ aKM'[d] = aKM[d] /\ aKS'[d] = aKS[d]
  BY <1>0 DEF noop
<1>5. \A s : EscribeKM(c, s) => aKM'[d] = aKM[d]
  BY <1>0 DEF EscribeKM
<1>6. \A t : EscribeKS(c, t) => aKS'[d] = aKS[d]
  BY <1>0 DEF EscribeKS
<1>7. \A r, t : guardar_contexto_km(c, r, t) => cpu'[d] = cpu[d] /\ aKM'[d] = aKM[d]
  BY <1>0, <1>5 DEF guardar_contexto_km
<1>8. CASE esperar_pid(c)
  BY <1>0, <1>5, <1>8 DEF esperar_pid
<1>9. CASE recibir_mapa(c)
  BY <1>1, <1>5, <1>9 DEF recibir_mapa, SoloKM
<1>10. CASE recibirContexto(c)
  BY <1>1, <1>2, <1>10 DEF recibirContexto, SoloKM
<1>11. CASE recibirInstruccion(c) \/ actualizar_tabla_segmentos(c)
  BY <1>0, <1>1, <1>11 DEF recibirInstruccion, actualizar_tabla_segmentos, SoloKM
<1>12. CASE ejecutar(c)
  BY <1>1, <1>4, <1>5, <1>6, <1>7, <1>12, ejecutarFormas DEF syscall_sleep, syscall_exit
<1>13. CASE respuestaKS(c)
  BY <1>0, <1>1, <1>4, <1>7, <1>13 DEF respuestaKS
<1>14. CASE guardado(c) \/ okExit(c)
  BY <1>1, <1>3, <1>6, <1>14 DEF guardado, okExit, SoloKM
<1>15. CASE manejar_seg_fault(c)
  BY <1>3, <1>5, <1>15 DEF manejar_seg_fault
<1>16. CASE atender_interrupcion_en_espera(c) \/ atender_interrupcion(c)
  BY <1>1, <1>2, <1>3, <1>7, <1>16 DEF atender_interrupcion_en_espera, atender_interrupcion
<1> QED BY <1>8, <1>9, <1>10, <1>11, <1>12, <1>13, <1>14, <1>15, <1>16 DEF Ciclo

\* A CPU that executes has sent no message to leave with.
LEMMA SinUltimos ==
  ASSUME TiposDeCPU, Turnos, NEW c \in CPUs, cpu[c].pc \in {"ejecuta", "interrupciones"}
  PROVE  cpu[c].pid \in Suyos(ks, c) /\ \A i \in 1..Len(aKS[c]) : aKS[c][i].t \notin Ultimos
<1> DEFINE a == aKS[c]
           k == cpu[c]
<1>1. Turno(k, a, deKS[c], Suyos(ks, c), Libres(ks) \cap {c})
  BY TurnoEs
<1>2. k.pid \in Suyos(ks, c)
  BY <1>1 DEF Turno, Corre, EnMarcha
<1>3. /\ ~Hay(a, "ATENDIDA") /\ ~Hay(a, "SLEEP") /\ ~Hay(a, "DONE")
      /\ ~Hay(a, "SEG_FAULT") /\ ~Hay(a, "MUTEX_LOCK")
  BY <1>1 DEF Turno
<1>4. \A i \in 1..Len(a) : a[i].t \notin Ultimos
  BY <1>3 DEF Hay, Ultimos
<1> QED BY <1>2, <1>4

\* A step of a CPU: the process that saves its context is the one it executes.
LEMMA GuardadosDeCiclo ==
  ASSUME Tipos, Fases, Turnos, Guardados, NEW c \in CPUs, Ciclo(c), Fases'
  PROVE  Guardados'
<1>1. TiposDeCPU /\ ks' = ks
  BY CicloProceso DEF Tipos
<1>2. ASSUME NEW d \in CPUs, d # c PROVE Guarda(cpu'[d], aKM'[d], aKS'[d], Suyos(ks', d))
  BY <1>1, <1>2, CicloSuyo DEF Guardados
<1>3. Guarda(cpu'[c], aKM'[c], aKS'[c], Suyos(ks', c))
  <2>1. CASE UNCHANGED <<aKM, aKS>> /\ cpu'[c].tras = cpu[c].tras
    BY <1>1, <2>1 DEF Guardados, Guarda
  <2>2. CASE cpu'[c].pc \in Quietas
    <3>1. Fase(cpu'[c], sesion'[c], aKM'[c], Flujo(c)')
      BY DEF Fases
    <3>2. De(aKM'[c], {"contexto"}) = {}
      BY <2>2, <3>1, SinGuardarAun DEF Quietas
    <3> QED BY <3>2 DEF Guarda
  <2>3. ASSUME aKS' = aKS, NEW k \in Registros, NEW tras \in {"SLEEP", "ATENDIDA", "BLOQUEADO"},
               k.pid = cpu[c].pid, guardar_contexto_km(c, k, tras),
               \/ cpu[c].pc = "interrupciones" \/ tras = "BLOQUEADO"
               \/ cpu[c].pc = "ejecuta" /\ cpu[c].instr.t = "instruccion"
        PROVE  Guarda(cpu'[c], aKM'[c], aKS'[c], Suyos(ks', c))
    <3>1. cpu' = [cpu EXCEPT ![c] = [k EXCEPT !.pc = "okGuarda", !.tras = tras]]
      BY <2>3 DEF guardar_contexto_km
    <3>2. cpu'[c].tras = tras
      BY <1>1, <2>3, <3>1 DEF TiposDeCPU, Registros
    <3>3. CASE tras = "BLOQUEADO"
      BY <3>2, <3>3 DEF Guarda
    <3>4. CASE tras # "BLOQUEADO"
      <4>1. cpu[c].pc \in {"ejecuta", "interrupciones"} /\ Callada(c)
        BY <1>1, <2>3, <3>4, FaseCallada
      <4>2. cpu[c].pid \in Suyos(ks, c) /\ \A i \in 1..Len(aKS[c]) : aKS[c][i].t \notin Ultimos
        BY <1>1, <4>1, SinUltimos
      <4> DEFINE v == <<>>
                 u == Ultima("INTERRUPT", k)
      <4>3. aKM[c] = v /\ k.pid \in Procesos
        BY <2>3, <4>1 DEF Callada, Quieto
      <4>4. aKM' = [aKM EXCEPT ![c] = v \o u]
        BY <1>1, <2>3, <4>3 DEF guardar_contexto_km, EscribeKM, Ultima, TiposDeCPU
      <4>5. "INTERRUPT" \in {"INTERRUPT", "EXIT_CPU"}
        OBVIOUS
      <4>6. De(u, {"contexto"}) = {k.pid}
        BY <4>3, <4>5, UltimaEs
      <4>7. u \in Seq({Trama("INTERRUPT"), [Trama("pid") EXCEPT !.pid = k.pid],
                       [Trama("contexto") EXCEPT !.pid = k.pid, !.pc = k.ctx]})
        BY DEF Ultima
      <4>8. v \o u = u
        BY <4>7, ConcatEmptySeq
      <4> HIDE DEF u, v
      <4>9. aKM'[c] = u
        BY <1>1, <4>4, <4>8 DEF TiposDeCPU
      <4> QED BY <1>1, <2>3, <4>2, <4>6, <4>9 DEF Guarda
    <3> QED BY <3>3, <3>4
  <2>4. CASE cpu[c].pc = "ejecuta" /\ cpu[c].instr.t = "instruccion" /\ syscall_exit(c)
    <3>1. Callada(c) /\ cpu[c] \in Registros
      BY <1>1, <2>4, FaseCallada DEF TiposDeCPU
    <3> DEFINE v == <<>>
               k == cpu[c]
               u == Ultima("EXIT_CPU", k)
    <3>3. aKM[c] = v /\ k.pid \in Procesos
      BY <3>1 DEF Callada, Quieto
    <3>4. aKM' = [aKM EXCEPT ![c] = v \o u]
      BY <1>1, <2>4, <3>3 DEF syscall_exit, EscribeKM, Ultima, TiposDeCPU
    <3>5. "EXIT_CPU" \in {"INTERRUPT", "EXIT_CPU"}
      OBVIOUS
    <3>6. u[1].t = "EXIT_CPU"
      BY <3>1, <3>3, <3>5, UltimaEs
    <3>7. u \in Seq({Trama("EXIT_CPU"), [Trama("pid") EXCEPT !.pid = k.pid],
                     [Trama("contexto") EXCEPT !.pid = k.pid, !.pc = k.ctx]})
      BY DEF Ultima
    <3>8. v \o u = u
      BY <3>7, ConcatEmptySeq
    <3> HIDE DEF u, v
    <3>9. aKM'[c] = u
      BY <1>1, <3>4, <3>8 DEF TiposDeCPU
    <3> QED BY <3>6, <3>9 DEF Guarda
  <2> QED BY <1>1, <2>1, <2>2, <2>3, <2>4, FormasDeCiclo
<1> QED BY <1>2, <1>3 DEF Guardados


\* A step of a session reads some frames of its socket, or none.
LEMMA FormasDeSesion ==
  ASSUME TiposDeCPU, Fases, NEW c \in CPUs, Sesion(c)
  PROVE  /\ UNCHANGED <<cpu, aKS, deKS, ks, real>>
         /\ \/ aKM' = aKM
            \/ \E n \in {1, 2, 3} : /\ n <= Len(aKM[c]) /\ Resto(aKM[c], n) \in Seq(Tramas)
                                    /\ aKM' = [aKM EXCEPT ![c] = Resto(aKM[c], n)]
<1>1. UNCHANGED <<cpu, aKS, deKS, ks, real>>
  BY DEF Sesion, enviar, atender_mensaje_cpu, inicializar_proceso, existe_proceso, manejar_proceso, SoloSesion
<1>2. \A n \in {1, 2, 3} : \A pc : Atiende(c, pc, n) =>
        /\ n <= Len(aKM[c]) /\ Resto(aKM[c], n) \in Seq(Tramas)
        /\ aKM' = [aKM EXCEPT ![c] = Resto(aKM[c], n)]
  <2> SUFFICES ASSUME NEW n \in {1, 2, 3}, NEW pc, Atiende(c, pc, n)
               PROVE  /\ n <= Len(aKM[c]) /\ Resto(aKM[c], n) \in Seq(Tramas)
                      /\ aKM' = [aKM EXCEPT ![c] = Resto(aKM[c], n)]
    OBVIOUS
  <2>1. /\ Len(aKM[c]) >= n /\ Resto(aKM[c], n) \in Seq(Tramas)
        /\ aKM' = [aKM EXCEPT ![c] = Resto(aKM[c], n)]
    BY AtiendeEs
  <2>2. Len(aKM[c]) \in Nat
    BY TiposDe, LenProperties
  <2> QED BY <2>1, <2>2
<1>3. CASE enviar(c)
  BY <1>1, <1>3 DEF enviar
<1>4. CASE existe_proceso(c)
  <2> DEFINE q == aKM[c]
  <2>1. aKM' = [aKM EXCEPT ![c] = SubSeq(q, 0 + 1, Len(q))] /\ q \in Seq(Tramas)
    BY <1>4, TiposDe DEF existe_proceso, Atiende
  <2>2. SubSeq(q, 0 + 1, Len(q)) = q
    BY <2>1, SubSeqFull
  <2> HIDE DEF q
  <2>3. aKM' = [aKM EXCEPT ![c] = q]
    BY <2>1, <2>2
  <2>4. aKM' = aKM
    BY <2>3 DEF q, TiposDeCPU
  <2> QED BY <1>1, <2>4
<1>5. \/ Atiende(c, "mensaje", 1) \/ Atiende(c, "mensaje", 3) \/ Atiende(c, "pidInit", 1)
      \/ Atiende(c, "pedido", 1) \/ Atiende(c, "pedido", 2) \/ Atiende(c, "pedido", 3)
      \/ enviar(c) \/ existe_proceso(c)
  BY DEF Sesion, atender_mensaje_cpu, inicializar_proceso, manejar_proceso
<1> QED BY <1>1, <1>2, <1>3, <1>4, <1>5

\* The requests of a socket are three frames at most, and MSG_INTERRUPT comes with two more.
LEMMA PeticionesCortas ==
  ASSUME NEW s, NEW q \in Seq(Tramas), Peticiones(s, q)
  PROVE  Len(q) \in Nat /\ Len(q) <= 3 /\ (q # <<>> /\ q[1].t = "INTERRUPT" => Len(q) = 3)
<1> DEFINE n == Len(q)
<1>1. n \in Nat /\ (q = <<>> => n = 0)
  BY LenProperties, EmptySeq
<1>2. q = <<>> \/ n = 1 \/ n = 2 \/ n = 3
  BY DEF Peticiones
<1>4. n = 0 \/ n = 1 \/ n = 2 \/ n = 3
  BY <1>1, <1>2
<1>3. q # <<>> /\ q[1].t = "INTERRUPT" => Len(q) = 3
  BY DEF Peticiones
<1> HIDE DEF n
<1>5. n <= 3
  BY <1>4
<1> QED BY <1>1, <1>3, <1>5 DEF n

\* Of a context with MSG_INTERRUPT the session reads all the frames or none.
LEMMA GuardadosDeSesion ==
  ASSUME TiposDeCPU, Fases, Guardados, NEW c \in CPUs, Sesion(c), Fases'
  PROVE  Guardados'
<1> DEFINE q == aKM[c]
<1>1. UNCHANGED <<cpu, aKS, ks>>
  BY FormasDeSesion
<1>2. CASE aKM' = aKM
  BY <1>1, <1>2 DEF Guardados
<1>3. ASSUME NEW n \in {1, 2, 3}, n <= Len(q), Resto(q, n) \in Seq(Tramas), aKM' = [aKM EXCEPT ![c] = Resto(q, n)]
      PROVE  Guardados'
  <2>1. aKM'[c] = Resto(q, n) /\ \A d \in CPUs \ {c} : aKM'[d] = aKM[d]
    BY <1>3 DEF TiposDeCPU
  <2>2. q \in Seq(Tramas) /\ Peticiones(sesion[c], q) /\ Peticiones(sesion'[c], Resto(q, n))
    BY <2>1, TiposDe DEF Fases, Fase
  <2> HIDE DEF q
  <2>3. Len(Resto(q, n)) = Len(q) - n /\ Len(q) \in Nat
    BY <1>3, <2>2, RestoEs
  <2>4. Len(q) <= 3
    BY <2>2, PeticionesCortas
  <2>6. Len(Resto(q, n)) # 3
    BY <2>3, <2>4
  <2>7. Resto(q, n) = <<>> \/ Resto(q, n)[1].t # "INTERRUPT"
    BY <1>3, <2>2, <2>6, PeticionesCortas
  <2>8. De(<<>>, {"contexto"}) = {}
    BY DeNada
  <2> DEFINE v == <<>>
  <2>9. De(v, {"contexto"}) = {} /\ (aKM'[c] = v \/ aKM'[c][1].t # "INTERRUPT")
    BY <2>1, <2>7, <2>8
  <2> HIDE DEF v
  <2>10. Guarda(cpu'[c], aKM'[c], aKS'[c], Suyos(ks', c))
    BY <2>9 DEF Guarda
  <2>11. \A d \in CPUs \ {c} : Guarda(cpu'[d], aKM'[d], aKS'[d], Suyos(ks', d))
    BY <1>1, <2>1 DEF Guardados
  <2> QED BY <2>10, <2>11 DEF Guardados
<1> QED BY <1>2, <1>3, FormasDeSesion

\* A step of the scheduler.  The processes that its CPUs have do not change while a context
\* is on its way, but to take another.
LEMMA GuardadosDeKS ==
  ASSUME Guardados, UNCHANGED <<cpu, aKM>>,
         \A d \in CPUs :
           \/ aKS'[d] = aKS[d] /\ Suyos(ks, d) \subseteq Suyos(ks', d)
           \/ \E i \in 1..Len(aKS[d]) : aKS[d][i].t \in Ultimos
           \/ /\ Suyos(ks', d) = Suyos(ks, d)
              /\ \A i \in 1..Len(aKS'[d]) : \E j \in 1..Len(aKS[d]) : aKS'[d][i] = aKS[d][j]
  PROVE  Guardados'
<1> SUFFICES ASSUME NEW d \in CPUs PROVE Guarda(cpu'[d], aKM'[d], aKS'[d], Suyos(ks', d))
  BY DEF Guardados
<1>1. Guarda(cpu[d], aKM[d], aKS[d], Suyos(ks, d))
  BY DEF Guardados
<1> QED BY <1>1 DEF Guarda

\* The handlers of the scheduler, and the process each CPU has.
LEMMA UnicosDeAtencion ==
  ASSUME Tipos, Turnos, Esperas(ks'), Unicos(ks), Guardados, NEW c \in CPUs, Atencion(c),
         UNCHANGED <<cpu, aKM>>
  PROVE  Unicos(ks') /\ Guardados'
<1> DEFINE a == aKS[c]
           h == Head(a)
           p == h.pid
<1>1. TiposDeCPU /\ Esperas(ks)
  BY DEF Tipos, Turnos
<1>2. a # <<>> /\ a \in Seq(Avisados) /\ aKS'[c] = Tail(a) /\ \A x \in CPUs \ {c} : aKS'[x] = aKS[x]
  BY <1>1 DEF Atencion, TiposDeCPU
<1>3. p \in Suyos(ks, c)
  BY <1>1, <1>2, TurnoDelMensaje
<1>4. /\ Len(Tail(a)) = Len(a) - 1 /\ h = a[1] /\ Len(a) \in Nat /\ Len(a) >= 1
      /\ \A i \in 1..Len(Tail(a)) : Tail(a)[i] = a[i + 1]
  BY <1>2, HeadTailProperties, LenProperties, EmptySeq
<1> HIDE DEF a, h, p
<1>5. \A i \in 1..Len(Tail(a)) : \E j \in 1..Len(a) : Tail(a)[i] = a[j]
  <2> SUFFICES ASSUME NEW i \in 1..Len(Tail(a)) PROVE \E j \in 1..Len(a) : Tail(a)[i] = a[j]
    OBVIOUS
  <2>1. i + 1 \in 1..Len(a)
    BY <1>4
  <2> QED BY <1>4, <2>1
<1>6. \/ Igual(ks')
      \/ h.t \in Ultimos /\ \E e \in {"READY", "BLOCK", "EXIT"} : Salida(ks', c, p, e)
  <2>1. "BLOCK" \in {"READY", "BLOCK", "EXIT"} /\ \A t \in {"ATENDIDA", "SLEEP", "DONE", "SEG_FAULT"} : t \in Ultimos
    BY DEF Ultimos
  <2>2. "MUTEX_LOCK" \in Ultimos
    BY DEF Ultimos
  <2> QED BY <2>1, <2>2 DEF Atencion, a, h, p
<1>7. CASE Igual(ks')
  <2>1. Unicos(ks') /\ \A x \in CPUs : Suyos(ks', x) = Suyos(ks, x)
    BY <1>1, <1>7, UnicosIgual
  <2>3. \A d \in CPUs :
           \/ aKS'[d] = aKS[d] /\ Suyos(ks, d) \subseteq Suyos(ks', d)
           \/ \E i \in 1..Len(aKS[d]) : aKS[d][i].t \in Ultimos
           \/ /\ Suyos(ks', d) = Suyos(ks, d)
              /\ \A i \in 1..Len(aKS'[d]) : \E j \in 1..Len(aKS[d]) : aKS'[d][i] = aKS[d][j]
    <3> SUFFICES ASSUME NEW d \in CPUs
                 PROVE  \/ aKS'[d] = aKS[d] /\ Suyos(ks, d) \subseteq Suyos(ks', d)
                        \/ /\ Suyos(ks', d) = Suyos(ks, d)
                           /\ \A i \in 1..Len(aKS'[d]) : \E j \in 1..Len(aKS[d]) : aKS'[d][i] = aKS[d][j]
      OBVIOUS
    <3>1. CASE d # c
      <4>1. aKS'[d] = aKS[d] /\ Suyos(ks', d) = Suyos(ks, d)
        BY <1>2, <2>1, <3>1
      <4> QED BY <4>1
    <3>2. CASE d = c
      <4>1. aKS'[d] = Tail(a) /\ aKS[d] = a /\ Suyos(ks', d) = Suyos(ks, d)
        BY <1>2, <2>1, <3>2 DEF a
      <4> QED BY <1>5, <4>1
    <3> QED BY <3>1, <3>2
  <2>2. Guardados'
    BY <2>3, GuardadosDeKS
  <2> QED BY <2>1, <2>2
<1>8. ASSUME h.t \in Ultimos, NEW e \in {"READY", "BLOCK", "EXIT"}, Salida(ks', c, p, e)
      PROVE  Unicos(ks') /\ Guardados'
  <2>1. Unicos(ks') /\ \A x \in CPUs \ {c} : Suyos(ks', x) = Suyos(ks, x)
    BY <1>1, <1>3, <1>8, UnicosSalida
  <2>2. \E i \in 1..Len(aKS[c]) : aKS[c][i].t \in Ultimos
    <3>1. 1 \in 1..Len(a)
      BY <1>4
    <3> QED BY <1>4, <1>8, <3>1 DEF a
  <2>4. \A d \in CPUs :
           \/ aKS'[d] = aKS[d] /\ Suyos(ks, d) \subseteq Suyos(ks', d)
           \/ \E i \in 1..Len(aKS[d]) : aKS[d][i].t \in Ultimos
           \/ /\ Suyos(ks', d) = Suyos(ks, d)
              /\ \A i \in 1..Len(aKS'[d]) : \E j \in 1..Len(aKS[d]) : aKS'[d][i] = aKS[d][j]
    <3> SUFFICES ASSUME NEW d \in CPUs
                 PROVE  \/ aKS'[d] = aKS[d] /\ Suyos(ks, d) \subseteq Suyos(ks', d)
                        \/ \E i \in 1..Len(aKS[d]) : aKS[d][i].t \in Ultimos
      OBVIOUS
    <3>1. CASE d = c
      BY <2>2, <3>1
    <3>2. CASE d # c
      <4>1. aKS'[d] = aKS[d] /\ Suyos(ks', d) = Suyos(ks, d)
        BY <1>2, <2>1, <3>2
      <4> QED BY <4>1
    <3> QED BY <3>1, <3>2
  <2>3. Guardados'
    BY <2>4, GuardadosDeKS
  <2> QED BY <2>1, <2>3
<1> QED BY <1>6, <1>7, <1>8


\* A step that moves no process and reads no message of the scheduler.
LEMMA UnicosQuietos ==
  ASSUME Unicos(ks), Esperas(ks), Esperas(ks'), Guardados, UNCHANGED <<cpu, aKM, aKS>>, Parado(ks')
  PROVE  Unicos(ks') /\ Guardados'
<1>0. Unicos(ks')
  BY DEF Unicos, Parado
<1>1. \A d \in CPUs : Suyos(ks', d) = Suyos(ks, d)
  <2> SUFFICES ASSUME NEW d \in CPUs PROVE Suyos(ks', d) = Suyos(ks, d)
    OBVIOUS
  <2>1. \A r \in Procesos :
          /\ r \in Suyos(ks', d) <=> Visto(ks')[r] = "EXEC" /\ ks'.en[r] = d /\ d \notin Libres(ks')
          /\ r \in Suyos(ks, d) <=> Visto(ks)[r] = "EXEC" /\ ks.en[r] = d /\ d \notin Libres(ks)
    BY VistoEs
  <2>2. \A r \in Procesos : r \in Suyos(ks', d) <=> r \in Suyos(ks, d)
    BY <2>1 DEF Parado
  <2> QED BY <2>2 DEF Suyos
<1>2. \A d \in CPUs : aKS'[d] = aKS[d] /\ Suyos(ks, d) \subseteq Suyos(ks', d)
  BY <1>1
<1>3. Guardados'
  BY <1>2, GuardadosDeKS
<1> QED BY <1>0, <1>3

\* Every step that is not one of a CPU or of a session keeps one process for each CPU.
LEMMA UnicosDeKS ==
  ASSUME Tipos, Fases, Turnos, EnAvisos, Esperas(ks'), "bloqueo" \notin desvios', Unicos(ks), Guardados,
         \/ \E c \in CPUs : atender_cpu_ks(c) \/ \E p \in Procesos : despachar(c, p)
         \/ \E p \in Procesos : decidir_interrupcion(p) \/ reubicar(p) \/ finalizar_io_y_desbloquear(p)
         \/ \E i \in DOMAIN ks.interrumpe : enviar_interrupcion_cpu(i)
         \/ avisar \/ notificar_mapa_a_todas(SetToSeq(CPUs))
  PROVE  Unicos(ks') /\ Guardados'
<1>1. TiposDeCPU /\ ks \in Planes /\ Esperas(ks)
  BY PlanDeKS DEF Tipos, PlanOK, Turnos
<1>2. ASSUME NEW c \in CPUs, atender_cpu_ks(c) PROVE Unicos(ks') /\ Guardados'
  <2>1. UNCHANGED <<cpu, aKM>>
    BY <1>2, AtencionDeja
  <2>2. CASE UNCHANGED <<aKS, deKS>> /\ Parado(ks')
    BY <1>1, <2>1, <2>2, UnicosQuietos
  <2>3. CASE Atencion(c)
    BY <2>1, <2>3, UnicosDeAtencion
  <2> QED BY <1>2, <2>2, <2>3, AtencionEs
<1>3. ASSUME NEW c \in CPUs, NEW p \in Procesos, despachar(c, p) PROVE Unicos(ks') /\ Guardados'
  <2>1. UNCHANGED <<cpu, aKM, aKS>>
    BY <1>3 DEF despachar, SoloKS
  <2>2. Unicos(ks') /\ \A x \in CPUs : Suyos(ks, x) \subseteq Suyos(ks', x)
    BY <1>1, <1>3, UnicosDespacha
  <2>3. \A d \in CPUs : aKS'[d] = aKS[d] /\ Suyos(ks, d) \subseteq Suyos(ks', d)
    BY <2>1, <2>2
  <2>4. Guardados'
    BY <2>1, <2>3, GuardadosDeKS
  <2> QED BY <2>2, <2>4
<1>4. ASSUME NEW p \in Procesos, finalizar_io_y_desbloquear(p) PROVE Unicos(ks') /\ Guardados'
  <2>1. UNCHANGED <<cpu, aKM, aKS>>
    BY <1>4 DEF finalizar_io_y_desbloquear, SoloKS
  <2>2. Igual(ks')
    BY <1>1, <1>4, VistoDespierta
  <2>3. Unicos(ks') /\ \A x \in CPUs : Suyos(ks', x) = Suyos(ks, x)
    BY <1>1, <2>2, UnicosIgual
  <2>4. \A d \in CPUs : aKS'[d] = aKS[d] /\ Suyos(ks, d) \subseteq Suyos(ks', d)
    BY <2>1, <2>3
  <2>5. Guardados'
    BY <2>1, <2>4, GuardadosDeKS
  <2> QED BY <2>3, <2>5
<1>8. ASSUME ks'.estado = ks.estado, ks'.manejador = ks.manejador, ks'.en = ks.en, ks'.libres = ks.libres
      PROVE  Parado(ks')
  BY <1>8 DEF Parado, Visto, Libres
<1>5. ASSUME NEW p \in Procesos, decidir_interrupcion(p) PROVE Unicos(ks') /\ Guardados'
  <2> DEFINE v == Append(ks.interrumpe, [cpu |-> ks.en[p], pid |-> p])
  <2>1. UNCHANGED <<cpu, aKM, aKS>> /\ ks' = [ks EXCEPT !.interrumpe = v]
    BY <1>5 DEF decidir_interrupcion, enCPU
  <2> HIDE DEF v
  <2>2. Parado(ks')
    <3>1. ks'.estado = ks.estado /\ ks'.manejador = ks.manejador /\ ks'.en = ks.en /\ ks'.libres = ks.libres
      BY <1>1, <2>1 DEF Planes
    <3> QED BY <1>8, <3>1
  <2> QED BY <1>1, <2>1, <2>2, UnicosQuietos
<1>6. ASSUME NEW i \in DOMAIN ks.interrumpe, enviar_interrupcion_cpu(i) PROVE Unicos(ks') /\ Guardados'
  <2>1. UNCHANGED <<cpu, aKM, aKS>>
    BY <1>6 DEF enviar_interrupcion_cpu, SoloKS
  <2>2. Parado(ks')
    BY <1>6, <1>8, enviar_interrupcion_cpuPaso
  <2> QED BY <1>1, <2>1, <2>2, UnicosQuietos
<1>7. ASSUME \/ \E p \in Procesos : reubicar(p)
             \/ avisar \/ notificar_mapa_a_todas(SetToSeq(CPUs))
      PROVE  Unicos(ks') /\ Guardados'
  <2>1. UNCHANGED <<cpu, aKM, aKS, ks>>
    BY <1>7 DEF reubicar, avisar, notificar_mapa_a_todas, enCPU
  <2>2. Parado(ks')
    BY <1>8, <2>1
  <2> QED BY <1>1, <2>1, <2>2, UnicosQuietos
<1> QED BY <1>2, <1>3, <1>4, <1>5, <1>6, <1>7


\* A process whose end the CPU has told the scheduler of is still its process.
LEMMA SeDespide ==
  ASSUME TiposDeCPU, Turnos, NEW c \in CPUs, NEW p \in De(aKS[c], {"DONE"})
  PROVE  p \in Suyos(ks, c) /\ p \notin DuermenDe(c)
<1> DEFINE k == cpu[c]
           a == aKS[c]
           d == deKS[c]
           S == Suyos(ks, c)
<1>1. Turno(k, a, d, S, Libres(ks) \cap {c}) /\ Pendientes(a, S)
  BY TurnoEs DEF Turno
<1>2. PICK i \in 1..Len(a) : a[i].t = "DONE" /\ a[i].pid = p
  BY DEF De
<1>3. p \in S /\ a # <<>>
  <2>1. p \in S
    BY <1>1, <1>2 DEF Pendientes
  <2>2. a # <<>>
    <3>1. Len(a) \in Nat /\ Len(a) # 0
      BY <1>2, LenProperties DEF TiposDeCPU
    <3> QED BY <3>1
  <2> QED BY <2>1, <2>2
<1>4. Hay(a, "DONE")
  BY <1>2 DEF Hay
<1>5. k.pc \in {"okExit", "ocioso", "fin"}
  BY <1>1, <1>4 DEF Turno
<1>6. p \notin De(d, {"PID"})
  <2>1. ~Hay(d, "PID")
    BY <1>1, <1>3 DEF Turno
  <2> QED BY <2>1 DEF Hay, De
<1>7. p \notin De(a, {"SLEEP", "ATENDIDA"})
  <2> SUFFICES ASSUME NEW j \in 1..Len(a), a[j].t \in {"SLEEP", "ATENDIDA"} PROVE FALSE
    BY DEF De
  <2>1. i = Len(a) /\ j = Len(a)
    BY <1>1, <1>2 DEF Pendientes, Ultimos
  <2> QED BY <1>2, <2>1
<1> QED BY <1>3, <1>5, <1>6, <1>7 DEF DuermenDe, Duermen

\* The process of a context that Kernel Memory will not take does not run again.
LEMMA NoDuermeQuienSale ==
  ASSUME TiposDeCPU, Turnos, NEW c \in CPUs, NEW p \in Procesos,
         Visto(ks)[p] = "EXIT" \/ p \in De(aKS[c], {"DONE"})
  PROVE  ~Dormido(p)
<1>1. CASE Visto(ks)[p] = "EXIT"
  <2>1. \A d \in CPUs : p \notin DuermenDe(d)
    BY <1>1, DuermeSuyo, SuyoVisto
  <2> QED BY <1>1, <2>1 DEF Dormido
<1>2. CASE p \in De(aKS[c], {"DONE"})
  <2>1. p \in Suyos(ks, c) /\ p \notin DuermenDe(c)
    BY <1>2, SeDespide
  <2>2. Visto(ks)[p] = "EXEC" /\ ks.en[p] = c
    BY <2>1, SuyoVisto
  <2>3. ASSUME NEW d \in CPUs, p \in DuermenDe(d) PROVE FALSE
    <3>1. p \in Suyos(ks, d)
      BY <2>3, DuermeSuyo
    <3>2. d = c
      BY <2>2, <3>1 DEF Suyos
    <3> QED BY <2>1, <2>3, <3>2
  <2> QED BY <2>2, <2>3 DEF Dormido
<1> QED BY <1>1, <1>2

\* A session reads frames of its CPU, and what it writes carries no context.
LEMMA ContextosLeidos ==
  ASSUME TiposDeCPU, Turnos, Contextuales, NEW c \in CPUs, UNCHANGED <<cpu, aKS, deKS, ks, real, desvios>>,
         NEW u, aKM' = [aKM EXCEPT ![c] = u],
         De(u, {"contexto"}) \subseteq De(aKM[c], {"contexto"}),
         \A r : AlDiaEn(aKM[c], r) => AlDiaEn(u, r),
         Sale(u, aKS[c], Visto(ks)),
         \A p \in Procesos : /\ km'[p].vivo => km[p].vivo
                             /\ km'[p].pc = km[p].pc \/ ("mutex" \notin desvios => km'[p].pc = real[p]),
         \A p \in De(aKM[c], {"contexto"}) :
           \/ p \in De(u, {"contexto"})
           \/ "mutex" \notin desvios /\ km'[p].vivo /\ Dormido(p) => km'[p].pc = real[p],
         \A d \in CPUs : /\ De(Flujo(d)', {"contexto"}) = De(Flujo(d), {"contexto"})
                         /\ \A r : AlDiaEn(Flujo(d), r) => AlDiaEn(Flujo(d)', r)
  PROVE  Contextuales'
<1>1. aKM'[c] = u /\ \A d \in CPUs \ {c} : aKM'[d] = aKM[d]
  BY DEF TiposDeCPU
<1>2. \A d \in CPUs : LlevaDe(d)' = LlevaDe(d)
  BY DEF LlevaDe, Lleva, Cicladas
<1>3. \A d \in CPUs : PorGuardarDe(d)' \subseteq PorGuardarDe(d)
  <2> SUFFICES ASSUME NEW d \in CPUs PROVE PorGuardarDe(d)' \subseteq PorGuardarDe(d)
    OBVIOUS
  <2>1. De(aKM'[d], {"contexto"}) \subseteq De(aKM[d], {"contexto"})
    BY <1>1
  <2> QED BY <2>1 DEF PorGuardarDe, PorGuardar
<1>4. \A p \in Procesos : Dormido(p)' <=> Dormido(p)
  BY DEF Dormido, DuermenDe
<1>5. Salidas'
  <2> SUFFICES ASSUME NEW d \in CPUs PROVE Sale(aKM'[d], aKS'[d], Visto(ks'))
    BY DEF Salidas
  <2>1. CASE d = c
    BY <1>1, <2>1
  <2>2. CASE d # c
    BY <1>1, <2>2 DEF Contextuales, Salidas
  <2> QED BY <2>1, <2>2
<1>6. ASSUME "mutex" \notin desvios' PROVE AlDia'
  <2>1. AlDia /\ "mutex" \notin desvios
    BY <1>6 DEF Contextuales
  <2>2. \A d \in CPUs : AlDiaEn(aKM'[d], real)
    <3> SUFFICES ASSUME NEW d \in CPUs PROVE AlDiaEn(aKM'[d], real)
      OBVIOUS
    <3>1. AlDiaEn(aKM[d], real)
      BY <2>1 DEF AlDia, Copia
    <3>2. CASE d = c
      BY <1>1, <3>1, <3>2
    <3>3. CASE d # c
      BY <1>1, <3>1, <3>3
    <3> QED BY <3>2, <3>3
  <2>3. \A d \in CPUs : Copia(cpu'[d], aKM'[d], Flujo(d)', real')
    <3> SUFFICES ASSUME NEW d \in CPUs PROVE Copia(cpu[d], aKM'[d], Flujo(d)', real)
      OBVIOUS
    <3>1. Copia(cpu[d], aKM[d], Flujo(d), real)
      BY <2>1 DEF AlDia
    <3> QED BY <2>2, <3>1 DEF Copia
  <2>4. ASSUME NEW d \in CPUs, NEW e \in CPUs, d # e PROVE LlevaDe(d)' \cap PorGuardarDe(e)' = {}
    <3>1. LlevaDe(d) \cap PorGuardarDe(e) = {}
      BY <2>1, <2>4 DEF AlDia
    <3> QED BY <1>2, <1>3, <3>1
  <2>5. ASSUME NEW p \in Procesos, km'[p].vivo, Dormido(p)'
        PROVE  km'[p].pc = real'[p] \/ \E d \in CPUs : p \in PorGuardarDe(d)'
    <3>1. km[p].vivo /\ Dormido(p)
      BY <1>4, <2>5
    <3>2. km[p].pc = real[p] \/ \E d \in CPUs : p \in PorGuardarDe(d)
      BY <2>1, <3>1 DEF AlDia
    <3>3. CASE km[p].pc = real[p]
      BY <2>1, <3>3
    <3>4. ASSUME NEW d \in CPUs, p \in PorGuardarDe(d) PROVE km'[p].pc = real[p] \/ p \in PorGuardarDe(d)'
      <4>1. CASE d # c
        <5>1. aKM'[d] = aKM[d]
          BY <1>1, <4>1
        <5> QED BY <3>4, <5>1 DEF PorGuardarDe
      <4>2. CASE d = c
        <5>1. CASE p \in De(aKM[c], {"contexto"})
          <6>1. CASE p \in De(u, {"contexto"})
            BY <1>1, <4>2, <6>1 DEF PorGuardarDe, PorGuardar
          <6> QED BY <2>1, <2>5, <3>1, <5>1, <6>1
        <5>2. CASE p \notin De(aKM[c], {"contexto"})
          BY <1>1, <3>4, <4>2, <5>2 DEF PorGuardarDe, PorGuardar
        <5> QED BY <5>1, <5>2
      <4> QED BY <4>1, <4>2
    <3> QED BY <3>2, <3>3, <3>4
  <2> QED BY <2>3, <2>4, <2>5 DEF AlDia
<1> QED BY <1>5, <1>6 DEF Contextuales


\* Unless the context of a mutex is late, nobody else has the context of the process that
\* a CPU has just taken.
LEMMA NadieLoTrae ==
  ASSUME Tipos, Turnos, Guardados, Salidas, NEW c \in CPUs, NEW p \in Suyos(ks, c), ~SinGuardar(c, p),
         NEW d \in CPUs, d # c
  PROVE  p \notin PorGuardarDe(d)
<1> DEFINE k == cpu[d]
           q == aKM[d]
<1>1. TiposDeCPU /\ p \in Procesos /\ Visto(ks)[p] = "EXEC" /\ ks.en[p] = c /\ d \in CPUs \ {c}
  BY SuyoVisto DEF Tipos
<1>2. p \notin Suyos(ks, d)
  BY <1>1 DEF Suyos
<1>3. q \in Seq(Tramas) /\ deKS[d] \in Seq(Ordenes)
  BY <1>1 DEF TiposDeCPU
<1>4. DOMAIN q = 1..Len(q) /\ DOMAIN deKS[d] = 1..Len(deKS[d])
  BY <1>3
<1>5. ASSUME k.pc = "respKS", Hay(deKS[d], "BLOQUEADO"), p = k.pid PROVE FALSE
  BY <1>1, <1>4, <1>5 DEF SinGuardar, EnPC, Hay
<1>6. ASSUME p \in De(q, {"contexto"}) PROVE FALSE
  <2>1. k.tras # "BLOQUEADO"
    BY <1>1, <1>4, <1>6 DEF SinGuardar, De
  <2>2. CASE q # <<>> /\ q[1].t = "INTERRUPT"
    <3>1. Guarda(k, q, aKS[d], Suyos(ks, d))
      BY DEF Guardados
    <3> QED BY <1>2, <1>6, <2>1, <2>2, <3>1 DEF Guarda
  <2>3. CASE q # <<>> /\ q[1].t # "INTERRUPT"
    <3>1. Visto(ks)[p] = "EXIT" \/ p \in De(aKS[d], {"DONE"})
      BY <1>6, <2>3 DEF Salidas, Sale
    <3>2. p \notin De(aKS[d], {"DONE"})
      BY <1>1, <1>2, SeDespide
    <3> QED BY <1>1, <3>1, <3>2
  <2>4. q # <<>>
    <3> DEFINE v == <<>>
    <3>1. De(v, {"contexto"}) = {}
      BY DeNada
    <3> HIDE DEF v
    <3>2. q # v
      BY <1>6, <3>1
    <3> QED BY <3>2 DEF v
  <2> QED BY <2>2, <2>3, <2>4
<1> QED BY <1>5, <1>6 DEF PorGuardarDe, PorGuardar

\* inicializar_proceso: the context Kernel Memory sends is the one the process reached.
LEMMA Contextos_inicializar_proceso ==
  ASSUME Tipos, Fases, Turnos, Guardados, Contextuales, NEW c \in CPUs, inicializar_proceso(c)
  PROVE  Contextuales'
<1> DEFINE s == sesion[c]
           q == aKM[c]
           u == Resto(q, 1)
           k == cpu[c]
           f == deKM[c]
           p == Pedido(c).pid
           e == [Trama("contexto") EXCEPT !.pid = p, !.pc = km[p].pc, !.tabla = Tabla(p)]
<1>0. /\ UNCHANGED <<cpu, deKM, aKS, deKS, aviso, km, ks, real>> /\ Atiende(c, "pidInit", 1)
      /\ TiposDeCPU /\ TiposDeProceso
      /\ desvios' = IF SinGuardar(c, p) THEN desvios \cup {"mutex"} ELSE desvios
  BY DEF inicializar_proceso, SoloSesion, Desvio, Tipos
<1>1. /\ s.pc = "pidInit" /\ Len(q) >= 1 /\ aKM' = [aKM EXCEPT ![c] = u] /\ u \in Seq(Tramas)
      /\ Fase(k, s, q, f) /\ Flujo(c) = f
  BY <1>0, AtiendeEs
<1>2. k \in Registros /\ s \in Sesiones /\ q \in Seq(Tramas) /\ f \in Seq(Tramas) /\ Len(q) \in Nat
  BY <1>0, TiposDe, LenProperties
<1>3. p = q[1].pid
  BY <1>1, <1>2 DEF Pedido
<1>4. Len(q) = 1 /\ q[1].t = "pid" /\ 1 \in 1..Len(q)
  BY <1>1, <1>2 DEF Fase, Peticiones
<1>5. p \in Procesos
  <2>1. q[1] \in Tramas
    BY <1>2, <1>4, ElementOfSeq
  <2> QED BY <2>1, <1>3, <1>4 DEF Tramas
<1>6. Tabla(p) \in Nat /\ km[p].pc \in Nat
  BY <1>0, <1>5, TablaTipo
<1>7. \A n, m \in Nat :
        LET g == [Trama("contexto") EXCEPT !.pid = p, !.pc = n, !.tabla = m] IN
        g \in Tramas /\ g.t = "contexto" /\ g.pid = p /\ g.pc = n
  BY <1>5, TramasHechas
<1>8. e \in Tramas /\ e.t = "contexto" /\ e.pid = p /\ e.pc = km[p].pc
  BY <1>6, <1>7
<1>9. De(q, {"contexto"}) = {} /\ u = <<>>
  <2>1. Len(u) = 0 /\ u = <<>>
    BY <1>2, <1>4, RestoEs
  <2>2. \A i \in 1..Len(q) : q[i].t # "contexto"
    BY <1>4
  <2> QED BY <2>1, <2>2 DEF De
<1>10. De(u, {"contexto"}) = {} /\ \A r : AlDiaEn(u, r)
  BY <1>9, DeNada
<1>11. sesion'[c].envio = IF km[p].vivo THEN <<e>> ELSE <<>>
  <2>1. s \in Sesiones /\ sesion \in [CPUs -> Sesiones]
    BY <1>0, <1>2 DEF TiposDeCPU
  <2>2. CASE km[p].vivo
    <3> DEFINE r == [pc |-> "lazo", pid |-> p, envio |-> <<e>>]
    <3>1. sesion' = [sesion EXCEPT ![c] = r]
      BY <2>2 DEF inicializar_proceso
    <3> HIDE DEF e
    <3>2. sesion'[c] = r
      BY <2>1, <3>1
    <3> QED BY <2>2, <3>2
  <2>3. CASE ~km[p].vivo
    <3> DEFINE v == <<>>
    <3>1. sesion' = [sesion EXCEPT ![c].pc = "mensaje", ![c].envio = v]
      BY <2>3 DEF inicializar_proceso, Sigue
    <3> HIDE DEF v
    <3>2. sesion'[c].envio = v
      BY <2>1, <3>1 DEF Sesiones
    <3> QED BY <2>3, <3>2 DEF v
  <2> QED BY <2>2, <2>3
<1>12. \A d \in CPUs \ {c} : Flujo(d)' = Flujo(d) /\ aKM'[d] = aKM[d]
  <2>1. \A d \in CPUs \ {c} : sesion'[d] = sesion[d]
    BY <1>0 DEF inicializar_proceso, Sigue, TiposDeCPU
  <2> QED BY <1>0, <1>1, <2>1 DEF Flujo, TiposDeCPU
<1>13. Flujo(c)' = IF km[p].vivo THEN f \o <<e>> ELSE f
  <2> HIDE DEF e
  <2>1. CASE km[p].vivo
    BY <1>0, <1>11, <2>1 DEF Flujo
  <2>2. CASE ~km[p].vivo
    <3>1. f \o <<>> = f
      BY <1>2, ConcatEmptySeq
    <3> QED BY <1>0, <1>11, <2>2, <3>1 DEF Flujo
  <2> QED BY <2>1, <2>2
<1> HIDE DEF e, u, s, p
<1>14. aKM'[c] = u
  BY <1>0, <1>1 DEF TiposDeCPU
<1>15. ("mutex" \in desvios => "mutex" \in desvios') /\ ("mutex" \notin desvios' => ~SinGuardar(c, p))
  BY <1>0
<1>16. Salidas'
  <2> SUFFICES ASSUME NEW d \in CPUs PROVE Sale(aKM'[d], aKS'[d], Visto(ks'))
    BY DEF Salidas
  <2>1. CASE d = c
    <3>1. De(aKM'[d], {"contexto"}) = {}
      BY <1>10, <1>14, <2>1
    <3> QED BY <3>1 DEF Sale
  <2>2. CASE d # c
    BY <1>0, <1>12, <2>2 DEF Contextuales, Salidas
  <2> QED BY <2>1, <2>2
<1>17. \A d \in CPUs : PorGuardarDe(d)' = PorGuardarDe(d)
  <2> SUFFICES ASSUME NEW d \in CPUs PROVE PorGuardarDe(d)' = PorGuardarDe(d)
    OBVIOUS
  <2>1. De(aKM'[d], {"contexto"}) = De(aKM[d], {"contexto"})
    BY <1>9, <1>10, <1>12, <1>14
  <2> QED BY <1>0, <2>1 DEF PorGuardarDe, PorGuardar
<1>18. \A r \in Procesos : Dormido(r)' <=> Dormido(r)
  BY <1>0 DEF Dormido, DuermenDe
<1>19. \A d \in CPUs \ {c} : LlevaDe(d)' = LlevaDe(d)
  BY <1>0, <1>12 DEF LlevaDe
<1>20. ASSUME k.pc = "contexto"
       PROVE  k.pid = p /\ EsRuido(f) /\ p \in DuermenDe(c) /\ p \in Suyos(ks, c)
  <2>1. EnContexto(k, s, q, f)
    BY <1>1, <1>20 DEF Fase
  <2>2. k.pid = p /\ EsRuido(f)
    BY <1>2, <1>3, <1>4, <2>1 DEF EnContexto
  <2>3. p \in DuermenDe(c)
    BY <1>20, <2>2 DEF DuermenDe, Duermen
  <2> QED BY <1>0, <2>2, <2>3, DuermeSuyo
<1>21. ASSUME "mutex" \notin desvios', k.pc = "contexto"
       PROVE  /\ \A d \in CPUs : p \notin PorGuardarDe(d)
              /\ km[p].vivo => km[p].pc = real[p]
  <2>1. AlDia /\ Salidas
    BY <1>15, <1>21 DEF Contextuales
  <2>2. ASSUME NEW d \in CPUs, d # c PROVE p \notin PorGuardarDe(d)
    BY <1>15, <1>20, <1>21, <2>1, <2>2, NadieLoTrae
  <2>3. p \notin PorGuardarDe(c)
    BY <1>9, <1>21 DEF PorGuardarDe, PorGuardar
  <2>4. Dormido(p)
    BY <1>20, <1>21 DEF Dormido
  <2> QED BY <1>5, <2>1, <2>2, <2>3, <2>4 DEF AlDia
<1>23. k.pc # "contexto" => LlevaDe(c)' = LlevaDe(c)
  BY <1>0 DEF LlevaDe, Lleva
<1>24. k.pc = "contexto" => LlevaDe(c)' \subseteq {p}
  BY <1>0, <1>20 DEF LlevaDe, Lleva
<1>25. ASSUME "mutex" \notin desvios', k.pc = "contexto" PROVE AlDiaEn(Flujo(c)', real)
  <2>1. AlDiaEn(f, real)
    BY <1>20, <1>25, SinContexto
  <2>2. CASE km[p].vivo
    <3>1. AlDiaEn(<<e>>, real)
      BY <1>8, <1>21, <1>25, <2>2, DeUna
    <3> DEFINE v == <<e>>
    <3>2. v \in Seq(Tramas) /\ AlDiaEn(v, real)
      BY <1>8, <3>1
    <3>4. Flujo(c)' = f \o v
      BY <1>13, <2>2
    <3> HIDE DEF v, f
    <3>3. AlDiaEn(f \o v, real)
      BY <1>2, <2>1, <3>2, DeJuntas
    <3> QED BY <3>3, <3>4
  <2>3. CASE ~km[p].vivo
    BY <1>13, <2>1, <2>3
  <2> QED BY <2>2, <2>3
<1>26. ASSUME "mutex" \notin desvios' PROVE AlDia'
  <2>1. AlDia
    BY <1>15, <1>26 DEF Contextuales
  <2>2. ASSUME NEW d \in CPUs PROVE Copia(cpu'[d], aKM'[d], Flujo(d)', real')
    <3>1. Copia(cpu[d], aKM[d], Flujo(d), real)
      BY <2>1 DEF AlDia
    <3>2. CASE d # c
      BY <1>0, <1>12, <3>1, <3>2
    <3>3. CASE d = c
      <4>1. AlDiaEn(aKM'[c], real)
        BY <1>10, <1>14
      <4>2. k.pc = "contexto" => AlDiaEn(Flujo(c)', real)
        BY <1>25, <1>26
      <4> QED BY <1>0, <3>1, <3>3, <4>1, <4>2 DEF Copia
    <3> QED BY <3>2, <3>3
  <2>3. ASSUME NEW d \in CPUs, NEW x \in CPUs, d # x PROVE LlevaDe(d)' \cap PorGuardarDe(x)' = {}
    <3>1. LlevaDe(d) \cap PorGuardarDe(x) = {}
      BY <2>1, <2>3 DEF AlDia
    <3>2. CASE d # c \/ k.pc # "contexto"
      <4>1. LlevaDe(d)' = LlevaDe(d)
        BY <1>19, <1>23, <3>2
      <4> QED BY <1>17, <3>1, <4>1
    <3>3. CASE d = c /\ k.pc = "contexto"
      BY <1>17, <1>21, <1>24, <1>26, <3>3
    <3> QED BY <3>2, <3>3
  <2>4. ASSUME NEW r \in Procesos, km'[r].vivo, Dormido(r)'
        PROVE  km'[r].pc = real'[r] \/ \E d \in CPUs : r \in PorGuardarDe(d)'
    <3>1. km[r].vivo /\ Dormido(r)
      BY <1>0, <1>18, <2>4
    <3>2. km[r].pc = real[r] \/ \E d \in CPUs : r \in PorGuardarDe(d)
      BY <2>1, <3>1 DEF AlDia
    <3> QED BY <1>0, <1>17, <3>2
  <2> QED BY <2>2, <2>3, <2>4 DEF AlDia
<1> QED BY <1>16, <1>26 DEF Contextuales


\* What is left in a socket was in it.
LEMMA DeResto ==
  ASSUME NEW q \in Seq(Tramas), NEW n \in {1, 2, 3}, n <= Len(q), NEW T
  PROVE  De(Resto(q, n), T) \subseteq De(q, T) /\ \A r : AlDiaEn(q, r) => AlDiaEn(Resto(q, n), r)
<1> DEFINE u == Resto(q, n)
<1>1. /\ n \in Nat /\ Len(q) \in Nat /\ Len(u) = Len(q) - n
      /\ \A i \in 1..(Len(q) - n) : u[i] = q[i + n]
  BY RestoDe, LenProperties DEF Resto
<1> HIDE DEF u
<1>2. ASSUME NEW i \in 1..Len(u) PROVE i + n \in 1..Len(q) /\ u[i] = q[i + n]
  <2>1. i \in 1..(Len(q) - n) /\ i + n \in 1..Len(q)
    BY <1>1
  <2> QED BY <1>1, <2>1
<1>3. De(u, T) \subseteq De(q, T)
  BY <1>2 DEF De
<1>4. \A r : AlDiaEn(q, r) => AlDiaEn(u, r)
  BY <1>2 DEF AlDiaEn
<1> QED BY <1>3, <1>4 DEF u

\* What a session is going to write carries no context, but when a CPU takes a process.
LEMMA FlujoDeSesion ==
  ASSUME TiposDeCPU, NEW c \in CPUs, sesion[c].envio = <<>>, deKM' = deKM,
         NEW pc \in EtapasKM, NEW g \in Seq(Tramas), De(g, {"contexto"}) = {}, \A r : AlDiaEn(g, r),
         Sigue(c, pc, g)
  PROVE  \A d \in CPUs : /\ De(Flujo(d)', {"contexto"}) = De(Flujo(d), {"contexto"})
                         /\ \A r : AlDiaEn(Flujo(d), r) => AlDiaEn(Flujo(d)', r)
<1> DEFINE f == deKM[c]
<1>1. f \in Seq(Tramas) /\ Flujo(c) = f
  BY TiposDe, ConcatEmptySeq DEF Flujo
<1>2. sesion \in [CPUs -> Sesiones] /\ sesion' = [sesion EXCEPT ![c] = Seguida(sesion[c], pc, g)]
      /\ Seguida(sesion[c], pc, g).envio = g
  BY SigueTipo DEF TiposDeCPU
<1>3. sesion'[c].envio = g /\ \A d \in CPUs \ {c} : sesion'[d] = sesion[d]
  BY <1>2
<1>4. Flujo(c)' = f \o g
  BY <1>3 DEF Flujo
<1>5. \A d \in CPUs \ {c} : Flujo(d)' = Flujo(d)
  BY <1>3 DEF Flujo
<1> HIDE DEF f
<1>6. /\ De(f \o g, {"contexto"}) = De(f, {"contexto"}) \cup De(g, {"contexto"})
      /\ \A r : AlDiaEn(f \o g, r) <=> AlDiaEn(f, r) /\ AlDiaEn(g, r)
  BY <1>1, DeJuntas
<1>7. De(Flujo(c)', {"contexto"}) = De(Flujo(c), {"contexto"}) /\ \A r : AlDiaEn(Flujo(c), r) => AlDiaEn(Flujo(c)', r)
  BY <1>1, <1>4, <1>6
<1> SUFFICES ASSUME NEW d \in CPUs PROVE /\ De(Flujo(d)', {"contexto"}) = De(Flujo(d), {"contexto"})
                                         /\ \A r : AlDiaEn(Flujo(d), r) => AlDiaEn(Flujo(d)', r)
  OBVIOUS
<1>8. CASE d = c
  BY <1>7, <1>8
<1>9. CASE d # c
  BY <1>5, <1>9
<1> QED BY <1>8, <1>9

\* A frame that is dropped may be a context, of a process that does not run again.
LEMMA ContextosDescarta ==
  ASSUME TiposDeCPU, Fases, Turnos, Contextuales, NEW c \in CPUs, NEW pc, Atiende(c, pc, 1),
         Pedido(c).t # "INTERRUPT", UNCHANGED <<cpu, aKS, deKS, ks, real, desvios, km>>,
         \A d \in CPUs : /\ De(Flujo(d)', {"contexto"}) = De(Flujo(d), {"contexto"})
                         /\ \A r : AlDiaEn(Flujo(d), r) => AlDiaEn(Flujo(d)', r)
  PROVE  Contextuales'
<1> DEFINE q == aKM[c]
           u == Resto(q, 1)
<1>1. Len(q) >= 1 /\ aKM' = [aKM EXCEPT ![c] = u] /\ u \in Seq(Tramas)
  BY AtiendeEs
<1>2. q \in Seq(Tramas) /\ Len(q) \in Nat /\ q # <<>> /\ q[1].t # "INTERRUPT"
  <2>1. q \in Seq(Tramas) /\ Len(q) \in Nat
    BY TiposDe, LenProperties
  <2>2. q # <<>>
    BY <1>1, <2>1, EmptySeq
  <2> QED BY <2>1, <2>2 DEF Pedido
<1>3. De(u, {"contexto"}) \subseteq De(q, {"contexto"}) /\ \A r : AlDiaEn(q, r) => AlDiaEn(u, r)
  BY <1>1, <1>2, DeResto
<1>4. \A p \in De(q, {"contexto"}) : Visto(ks)[p] = "EXIT" \/ p \in De(aKS[c], {"DONE"})
  <2>1. Sale(q, aKS[c], Visto(ks))
    BY DEF Contextuales, Salidas
  <2> QED BY <1>2, <2>1 DEF Sale
<1>5. \A p \in De(q, {"contexto"}) : ~Dormido(p)
  <2>1. De(q, {"contexto"}) \subseteq Procesos
    BY DEF De
  <2> QED BY <1>4, <2>1, NoDuermeQuienSale
<1> HIDE DEF u
<1>6. Sale(u, aKS[c], Visto(ks))
  BY <1>3, <1>4 DEF Sale
<1>7. \A p \in De(aKM[c], {"contexto"}) :
        \/ p \in De(u, {"contexto"})
        \/ "mutex" \notin desvios /\ km'[p].vivo /\ Dormido(p) => km'[p].pc = real[p]
  BY <1>5
<1>8. \A p \in Procesos : /\ km'[p].vivo => km[p].vivo
                          /\ km'[p].pc = km[p].pc \/ ("mutex" \notin desvios => km'[p].pc = real[p])
  OBVIOUS
<1> QED BY <1>1, <1>3, <1>6, <1>7, <1>8, ContextosLeidos

\* A request that is no context is read.
LEMMA ContextosPide ==
  ASSUME TiposDeCPU, Fases, Turnos, Contextuales, NEW c \in CPUs, NEW pc, NEW n \in {1, 2}, Atiende(c, pc, n),
         Pedido(c).t \in {"INIT", "FETCH"}, UNCHANGED <<cpu, aKS, deKS, ks, real, desvios, km>>,
         \A d \in CPUs : /\ De(Flujo(d)', {"contexto"}) = De(Flujo(d), {"contexto"})
                         /\ \A r : AlDiaEn(Flujo(d), r) => AlDiaEn(Flujo(d)', r)
  PROVE  Contextuales'
<1> DEFINE q == aKM[c]
           u == Resto(q, n)
<1>0. n \in {1, 2, 3} /\ n \in Nat /\ n >= 1
  OBVIOUS
<1>1. Len(q) >= n /\ aKM' = [aKM EXCEPT ![c] = u] /\ u \in Seq(Tramas)
      /\ Peticiones(sesion[c], q)
  BY <1>0, AtiendeEs DEF Fase
<1>2. q \in Seq(Tramas) /\ Len(q) \in Nat /\ q # <<>> /\ q[1].t \in {"INIT", "FETCH"}
  <2>1. q \in Seq(Tramas) /\ Len(q) \in Nat
    BY TiposDe, LenProperties
  <2>2. q # <<>>
    BY <1>0, <1>1, <2>1, EmptySeq
  <2> QED BY <2>1, <2>2 DEF Pedido
<1>3. De(u, {"contexto"}) \subseteq De(q, {"contexto"}) /\ \A r : AlDiaEn(q, r) => AlDiaEn(u, r)
  BY <1>0, <1>1, <1>2, DeResto
<1>4. \/ Len(q) = 1
      \/ Len(q) = 2 /\ q[2].t \in {"pid", "pc"}
  BY <1>1, <1>2 DEF Peticiones
<1> HIDE DEF u
<1>5. De(q, {"contexto"}) = {}
  <2> SUFFICES ASSUME NEW i \in 1..Len(q) PROVE q[i].t # "contexto"
    BY DEF De
  <2>1. CASE Len(q) = 1
    <3>1. i = 1
      BY <2>1
    <3> QED BY <1>2, <3>1
  <2>2. CASE Len(q) = 2 /\ q[2].t \in {"pid", "pc"}
    <3>1. i = 1 \/ i = 2
      BY <2>2
    <3> QED BY <1>2, <2>2, <3>1
  <2> QED BY <1>4, <2>1, <2>2
<1>6. Sale(u, aKS[c], Visto(ks))
  BY <1>3, <1>5 DEF Sale
<1>7. \A p \in De(aKM[c], {"contexto"}) :
        \/ p \in De(u, {"contexto"})
        \/ "mutex" \notin desvios /\ km'[p].vivo /\ Dormido(p) => km'[p].pc = real[p]
  BY <1>5
<1>8. \A p \in Procesos : /\ km'[p].vivo => km[p].vivo
                          /\ km'[p].pc = km[p].pc \/ ("mutex" \notin desvios => km'[p].pc = real[p])
  OBVIOUS
<1> QED BY <1>1, <1>3, <1>6, <1>7, <1>8, ContextosLeidos

\* The context is saved: Kernel Memory has what the process has reached.
LEMMA ContextosSalva ==
  ASSUME Tipos, Fases, Turnos, Contextuales, NEW c \in CPUs, NEW pc, Atiende(c, pc, 3),
         Pedido(c).t \in {"INTERRUPT", "EXIT_CPU"}, actualizar_contexto(c),
         UNCHANGED <<cpu, aKS, deKS, ks, real, desvios>>,
         \A d \in CPUs : /\ De(Flujo(d)', {"contexto"}) = De(Flujo(d), {"contexto"})
                         /\ \A r : AlDiaEn(Flujo(d), r) => AlDiaEn(Flujo(d)', r)
  PROVE  Contextuales'
<1> DEFINE q == aKM[c]
           u == Resto(q, 3)
           m == q[3]
<1>0. TiposDeCPU /\ TiposDeProceso
  BY DEF Tipos
<1>1. Len(q) >= 3 /\ aKM' = [aKM EXCEPT ![c] = u] /\ u \in Seq(Tramas) /\ Peticiones(sesion[c], q)
  BY <1>0, AtiendeEs DEF Fase
<1>2. q \in Seq(Tramas) /\ Len(q) \in Nat /\ q # <<>> /\ q[1].t \in {"INTERRUPT", "EXIT_CPU"}
  <2>1. q \in Seq(Tramas) /\ Len(q) \in Nat
    BY <1>0, TiposDe, LenProperties
  <2>2. q # <<>>
    BY <1>1, <2>1, EmptySeq
  <2> QED BY <2>1, <2>2 DEF Pedido
<1>3. De(u, {"contexto"}) \subseteq De(q, {"contexto"}) /\ \A r : AlDiaEn(q, r) => AlDiaEn(u, r)
  BY <1>1, <1>2, DeResto
<1>4. Len(q) = 3 /\ q[2].t = "pid"
  BY <1>1, <1>2 DEF Peticiones
<1>5. m.t = "contexto" /\ m.pid \in Procesos /\ m.pc \in Nat
  BY <1>1, <1>2, ActualizarTipo
<1>6. km' = IF km[m.pid].vivo THEN [km EXCEPT ![m.pid].pc = m.pc] ELSE km
  BY DEF actualizar_contexto
<1>7. u = <<>>
  BY <1>1, <1>2, <1>4, RestoEs
<1>8. De(u, {"contexto"}) = {}
  BY <1>7, DeNada
<1>9. De(q, {"contexto"}) \subseteq {m.pid}
  <2> SUFFICES ASSUME NEW i \in 1..Len(q), q[i].t = "contexto" PROVE q[i].pid = m.pid
    BY DEF De
  <2>1. i = 1 \/ i = 2 \/ i = 3
    BY <1>4
  <2> QED BY <1>2, <1>4, <2>1
<1>10. "mutex" \notin desvios => m.pc = real[m.pid]
  <2> SUFFICES ASSUME "mutex" \notin desvios PROVE m.pc = real[m.pid]
    OBVIOUS
  <2>1. AlDiaEn(q, real)
    BY DEF Contextuales, AlDia, Copia
  <2>2. 3 \in 1..Len(q)
    BY <1>4
  <2> QED BY <1>5, <2>1, <2>2 DEF AlDiaEn
<1>11. km \in [Procesos -> Memorias] /\ \A p \in Procesos : km[p] \in Memorias
  BY <1>0 DEF TiposDeProceso
<1> HIDE DEF u, m
<1>12. ASSUME NEW p \in Procesos
       PROVE  /\ km'[p].vivo = km[p].vivo
              /\ km'[p].pc = km[p].pc \/ (p = m.pid /\ km'[p].pc = m.pc)
              /\ p = m.pid /\ km[p].vivo => km'[p].pc = m.pc
  <2>1. CASE ~km[m.pid].vivo
    BY <1>6, <2>1
  <2>2. CASE km[m.pid].vivo
    <3> DEFINE w == [km[m.pid] EXCEPT !.pc = m.pc]
    <3>1. km' = [km EXCEPT ![m.pid] = w]
      BY <1>6, <2>2
    <3>2. w.pc = m.pc /\ w.vivo = km[m.pid].vivo
      BY <1>5, <1>11 DEF Memorias
    <3> HIDE DEF w
    <3>3. CASE p = m.pid
      <4>1. km'[p] = w
        BY <1>5, <1>11, <3>1, <3>3
      <4> QED BY <3>2, <3>3, <4>1
    <3>4. CASE p # m.pid
      <4>1. km'[p] = km[p]
        BY <1>5, <1>11, <3>1, <3>4
      <4> QED BY <3>4, <4>1
    <3> QED BY <3>3, <3>4
  <2> QED BY <2>1, <2>2
<1>13. Sale(u, aKS[c], Visto(ks))
  BY <1>8 DEF Sale
<1>14. \A p \in De(aKM[c], {"contexto"}) :
         \/ p \in De(u, {"contexto"})
         \/ "mutex" \notin desvios /\ km'[p].vivo /\ Dormido(p) => km'[p].pc = real[p]
  BY <1>5, <1>9, <1>10, <1>12
<1>15. \A p \in Procesos : /\ km'[p].vivo => km[p].vivo
                           /\ km'[p].pc = km[p].pc \/ ("mutex" \notin desvios => km'[p].pc = real[p])
  BY <1>10, <1>12
<1> QED BY <1>0, <1>1, <1>3, <1>13, <1>14, <1>15, ContextosLeidos


\* A step that neither reads a frame of a CPU nor writes a context.
LEMMA ContextosMudos ==
  ASSUME TiposDeCPU, Turnos, Contextuales, UNCHANGED <<cpu, aKM, aKS, deKS, ks, real, desvios, km>>,
         \A d \in CPUs : /\ De(Flujo(d)', {"contexto"}) = De(Flujo(d), {"contexto"})
                         /\ \A r : AlDiaEn(Flujo(d), r) => AlDiaEn(Flujo(d)', r)
  PROVE  Contextuales'
<1>1. \A p \in Procesos : (km'[p].vivo => km[p].vivo) /\ km'[p].pc = km[p].pc
  OBVIOUS
<1>2. Visto(ks') = Visto(ks) /\ ("mutex" \in desvios => "mutex" \in desvios')
  OBVIOUS
<1> QED BY <1>1, <1>2, ContextosQuietos

\* enviar and existe_proceso: the frames on their way to the CPU are the same.
LEMMA Contextos_enviar ==
  ASSUME Tipos, Turnos, Contextuales, NEW c \in CPUs, enviar(c)
  PROVE  Contextuales'
<1> DEFINE s == sesion[c]
           e == Head(s.envio)
           r == [s EXCEPT !.envio = Tail(@)]
<1>1. /\ s.envio # <<>> /\ deKM' = [deKM EXCEPT ![c] = Append(@, e)]
      /\ sesion' = [sesion EXCEPT ![c] = r]
      /\ UNCHANGED <<cpu, aKS, deKS, aKM, ks, real, desvios, km>> /\ TiposDeCPU
  BY DEF enviar, SoloSesion, Tipos
<1>2. s \in Sesiones /\ s.envio \in Seq(Tramas) /\ deKM[c] \in Seq(Tramas)
  BY <1>1, TiposDe
<1>3. r.envio = Tail(s.envio)
  BY <1>2 DEF Sesiones
<1>4. Append(deKM[c], e) \o r.envio = Flujo(c)
  BY <1>1, <1>2, <1>3, EscribirDelFlujo DEF Flujo
<1> HIDE DEF r, e
<1>5. /\ deKM'[c] = Append(deKM[c], e) /\ sesion'[c] = r
      /\ \A d \in CPUs \ {c} : deKM'[d] = deKM[d] /\ sesion'[d] = sesion[d]
  BY <1>1 DEF TiposDeCPU
<1>6. Flujo(c)' = Flujo(c)
  BY <1>4, <1>5 DEF Flujo
<1>7. \A d \in CPUs : Flujo(d)' = Flujo(d)
  BY <1>5, <1>6 DEF Flujo
<1>8. \A d \in CPUs : /\ De(Flujo(d)', {"contexto"}) = De(Flujo(d), {"contexto"})
                      /\ \A z : AlDiaEn(Flujo(d), z) => AlDiaEn(Flujo(d)', z)
  BY <1>7
<1> QED BY <1>1, <1>8, ContextosMudos

\* The look at the process between two requests reads no context.
LEMMA Contextos_existe_proceso ==
  ASSUME Tipos, Fases, Turnos, Contextuales, NEW c \in CPUs, existe_proceso(c)
  PROVE  Contextuales'
<1> DEFINE q == aKM[c]
           pc == IF km[sesion[c].pid].vivo THEN "pedido" ELSE "mensaje"
           v == <<>>
<1>1. /\ UNCHANGED <<cpu, deKM, aKS, deKS, ks, real, desvios, km>> /\ TiposDeCPU
      /\ sesion[c].envio = <<>> /\ Sigue(c, pc, v)
      /\ aKM' = [aKM EXCEPT ![c] = SubSeq(q, 0 + 1, Len(q))]
  BY DEF existe_proceso, SoloSesion, Atiende, Tipos
<1>2. q \in Seq(Tramas)
  BY <1>1, TiposDe
<1>3. SubSeq(q, 0 + 1, Len(q)) = q
  BY <1>2, SubSeqFull
<1>4. pc \in EtapasKM /\ v \in Seq(Tramas)
  BY EtapasDeKM
<1>5. De(v, {"contexto"}) = {} /\ \A r : AlDiaEn(v, r)
  BY DeNada
<1> HIDE DEF q, pc, v
<1>6. aKM' = [aKM EXCEPT ![c] = q]
  BY <1>1, <1>3
<1>7. aKM' = aKM
  BY <1>1, <1>6 DEF q, TiposDeCPU
<1>8. \A d \in CPUs : /\ De(Flujo(d)', {"contexto"}) = De(Flujo(d), {"contexto"})
                      /\ \A r : AlDiaEn(Flujo(d), r) => AlDiaEn(Flujo(d)', r)
  BY <1>1, <1>4, <1>5, FlujoDeSesion
<1> QED BY <1>1, <1>7, <1>8, ContextosMudos

\* What the sessions write, but for the context of a process.
LEMMA EscritosSinContexto ==
  /\ \A r : De(<<Trama("MAPA"), Trama("mapa")>>, {"contexto"}) = {} /\ AlDiaEn(<<Trama("MAPA"), Trama("mapa")>>, r)
  /\ \A r : De(<<Trama("OK")>>, {"contexto"}) = {} /\ AlDiaEn(<<Trama("OK")>>, r)
<1>1. EsRuido(<<Trama("MAPA"), Trama("mapa")>>)
  BY EscritosPorKM
<1>2. "OK" \in TiposDeTrama \ {"pid", "contexto", "instruccion"}
  BY DEF TiposDeTrama
<1>3. Trama("OK").t = "OK"
  BY <1>2, TramaSimple
<1> DEFINE e == Trama("OK")
           a == <<Trama("MAPA"), Trama("mapa")>>
<1>4. e.t # "contexto" /\ EsRuido(a)
  BY <1>1, <1>3
<1> HIDE DEF e, a
<1>5. De(<<e>>, {"contexto"}) = {} /\ \A r : AlDiaEn(<<e>>, r)
  <2>1. /\ De(<<e>>, {"contexto"}) = {p \in Procesos : e.t \in {"contexto"} /\ e.pid = p}
        /\ \A r : AlDiaEn(<<e>>, r) <=> (e.t = "contexto" => e.pc = r[e.pid])
    BY DeUna
  <2> QED BY <1>4, <2>1
<1>6. De(a, {"contexto"}) = {} /\ \A r : AlDiaEn(a, r)
  BY <1>4, SinContexto
<1> QED BY <1>5, <1>6 DEF e, a

\* The session of a CPU without a process, and that of one with it.
LEMMA Contextos_atender_mensaje_cpu ==
  ASSUME Tipos, Fases, Turnos, Contextuales, NEW c \in CPUs, atender_mensaje_cpu(c)
  PROVE  Contextuales'
<1>0. UNCHANGED <<cpu, deKM, aKS, deKS, ks, real, desvios>> /\ TiposDeCPU
  BY DEF atender_mensaje_cpu, SoloSesion, Tipos
<1> DEFINE a == <<Trama("MAPA"), Trama("mapa")>>
           o == <<Trama("OK")>>
<1>1. a \in Seq(Tramas) /\ o \in Seq(Tramas)
  BY EscritosPorKM
<1>2. De(a, {"contexto"}) = {} /\ (\A r : AlDiaEn(a, r)) /\ De(o, {"contexto"}) = {} /\ (\A r : AlDiaEn(o, r))
  BY EscritosSinContexto
<1>3. \/ Atiende(c, "mensaje", 1) /\ Pedido(c).t = "INIT" /\ Sigue(c, "pidInit", a) /\ UNCHANGED km
      \/ Atiende(c, "mensaje", 3) /\ Pedido(c).t = "INTERRUPT" /\ Sigue(c, "mensaje", o) /\ actualizar_contexto(c)
      \/ Atiende(c, "mensaje", 1) /\ Pedido(c).t \notin {"INIT", "INTERRUPT"} /\ UNCHANGED <<sesion, km>>
  BY DEF atender_mensaje_cpu
<1>4. \A n : Atiende(c, "mensaje", n) => sesion[c].envio = <<>>
  BY DEF Atiende
<1> HIDE DEF a, o
<1>5. CASE Atiende(c, "mensaje", 1) /\ Pedido(c).t = "INIT" /\ Sigue(c, "pidInit", a) /\ UNCHANGED km
  <2>1. \A d \in CPUs : /\ De(Flujo(d)', {"contexto"}) = De(Flujo(d), {"contexto"})
                        /\ \A r : AlDiaEn(Flujo(d), r) => AlDiaEn(Flujo(d)', r)
    BY <1>0, <1>1, <1>2, <1>4, <1>5, EtapasDeKM, FlujoDeSesion
  <2>2. 1 \in {1, 2} /\ Pedido(c).t \in {"INIT", "FETCH"}
    BY <1>5
  <2> QED BY <1>0, <1>5, <2>1, <2>2, ContextosPide
<1>6. CASE Atiende(c, "mensaje", 3) /\ Pedido(c).t = "INTERRUPT" /\ Sigue(c, "mensaje", o) /\ actualizar_contexto(c)
  <2>1. \A d \in CPUs : /\ De(Flujo(d)', {"contexto"}) = De(Flujo(d), {"contexto"})
                        /\ \A r : AlDiaEn(Flujo(d), r) => AlDiaEn(Flujo(d)', r)
    BY <1>0, <1>1, <1>2, <1>4, <1>6, EtapasDeKM, FlujoDeSesion
  <2> QED BY <1>0, <1>6, <2>1, ContextosSalva
<1>7. CASE Atiende(c, "mensaje", 1) /\ Pedido(c).t \notin {"INIT", "INTERRUPT"} /\ UNCHANGED <<sesion, km>>
  <2>1. \A d \in CPUs : /\ De(Flujo(d)', {"contexto"}) = De(Flujo(d), {"contexto"})
                        /\ \A r : AlDiaEn(Flujo(d), r) => AlDiaEn(Flujo(d)', r)
    BY <1>0, <1>7 DEF Flujo
  <2> QED BY <1>0, <1>7, <2>1, ContextosDescarta
<1> QED BY <1>3, <1>5, <1>6, <1>7

\* The context that is kept is the one the CPU last wrote: the others are of processes that end.
LEMMA Contextos_manejar_proceso ==
  ASSUME Tipos, Fases, Turnos, Contextuales, NEW c \in CPUs, manejar_proceso(c)
  PROVE  Contextuales'
<1> DEFINE p == sesion[c].pid
           n == aKM[c][2].pc
           g == Respuesta(p, n)
           o == <<Trama("OK")>>
           v == <<>>
           l == IF Pedido(c).t = "SEG_FAULT" THEN "mensaje" ELSE "lazo"
<1>0. UNCHANGED <<cpu, deKM, aKS, deKS, ks, real, desvios>> /\ TiposDeCPU /\ TiposDeProceso
  BY DEF manejar_proceso, SoloSesion, Tipos
<1>1. o \in Seq(Tramas) /\ v \in Seq(Tramas) /\ l \in EtapasKM
  BY EscritosPorKM, EtapasDeKM
<1>2. De(v, {"contexto"}) = {} /\ (\A r : AlDiaEn(v, r)) /\ De(o, {"contexto"}) = {} /\ (\A r : AlDiaEn(o, r))
  BY EscritosSinContexto, DeNada
<1>3. \/ Atiende(c, "pedido", 2) /\ Pedido(c).t = "FETCH" /\ Sigue(c, "lazo", g) /\ UNCHANGED km
      \/ /\ Atiende(c, "pedido", 3) /\ Pedido(c).t \in {"INTERRUPT", "EXIT_CPU"}
         /\ Sigue(c, "mensaje", o) /\ actualizar_contexto(c)
      \/ /\ Atiende(c, "pedido", 1) /\ Pedido(c).t \notin {"FETCH", "INTERRUPT", "EXIT_CPU"}
         /\ Sigue(c, l, v) /\ UNCHANGED km
  BY DEF manejar_proceso, Respuesta
<1>4. \A k : Atiende(c, "pedido", k) => sesion[c].envio = <<>> /\ sesion[c].pc = "pedido"
  BY DEF Atiende
<1> HIDE DEF g, n, o, v, l
<1>5. CASE Atiende(c, "pedido", 2) /\ Pedido(c).t = "FETCH" /\ Sigue(c, "lazo", g) /\ UNCHANGED km
  <2>1. p \in Procesos
    BY <1>4, <1>5 DEF Fases, Fase
  <2>2. g \in Seq(Tramas) /\ Acaba(g, InstruccionDe(p, n), {"OK", "ERROR"})
    BY <1>0, <2>1, RespuestaTipo DEF g
  <2>3. De(g, {"contexto"}) = {} /\ \A r : AlDiaEn(g, r)
    BY <2>2, SinContexto
  <2>4. \A d \in CPUs : /\ De(Flujo(d)', {"contexto"}) = De(Flujo(d), {"contexto"})
                        /\ \A r : AlDiaEn(Flujo(d), r) => AlDiaEn(Flujo(d)', r)
    BY <1>0, <1>4, <1>5, <2>2, <2>3, EtapasDeKM, FlujoDeSesion
  <2>5. 2 \in {1, 2} /\ Pedido(c).t \in {"INIT", "FETCH"}
    BY <1>5
  <2> QED BY <1>0, <1>5, <2>4, <2>5, ContextosPide
<1>6. CASE /\ Atiende(c, "pedido", 3) /\ Pedido(c).t \in {"INTERRUPT", "EXIT_CPU"}
           /\ Sigue(c, "mensaje", o) /\ actualizar_contexto(c)
  <2>1. \A d \in CPUs : /\ De(Flujo(d)', {"contexto"}) = De(Flujo(d), {"contexto"})
                        /\ \A r : AlDiaEn(Flujo(d), r) => AlDiaEn(Flujo(d)', r)
    BY <1>0, <1>1, <1>2, <1>4, <1>6, EtapasDeKM, FlujoDeSesion
  <2> QED BY <1>0, <1>6, <2>1, ContextosSalva
<1>7. CASE /\ Atiende(c, "pedido", 1) /\ Pedido(c).t \notin {"FETCH", "INTERRUPT", "EXIT_CPU"}
           /\ Sigue(c, l, v) /\ UNCHANGED km
  <2>1. \A d \in CPUs : /\ De(Flujo(d)', {"contexto"}) = De(Flujo(d), {"contexto"})
                        /\ \A r : AlDiaEn(Flujo(d), r) => AlDiaEn(Flujo(d)', r)
    BY <1>0, <1>1, <1>2, <1>4, <1>7, FlujoDeSesion
  <2>2. Pedido(c).t # "INTERRUPT"
    BY <1>7
  <2> QED BY <1>0, <1>7, <2>1, <2>2, ContextosDescarta
<1> QED BY <1>3, <1>5, <1>6, <1>7

\* Every step of a session keeps the contexts.
LEMMA ContextosDeSesion ==
  ASSUME Tipos, Fases, Turnos, Guardados, Contextuales, NEW c \in CPUs, Sesion(c)
  PROVE  Contextuales'
BY Contextos_enviar, Contextos_atender_mensaje_cpu, Contextos_inicializar_proceso, Contextos_existe_proceso,
   Contextos_manejar_proceso DEF Sesion


-----------------------------------------------------------------------------
(* The inductive invariant of the contexts.                                 *)

\* Each process is on one CPU, the contexts that are saved are of the process that the
\* scheduler has there, and every context is the last.
Traspasos == Unicos(ks) /\ Guardados /\ Contextuales

\* The contexts at the start: none is on its way.
LEMMA InicioDeContextos == Init => Traspasos
<1> SUFFICES ASSUME Init PROVE Traspasos
  OBVIOUS
<1> DEFINE v == <<>>
<1>1. /\ cpu = [c \in CPUs |-> CPUOciosa] /\ aKM = [c \in CPUs |-> v]
      /\ aKS = [c \in CPUs |-> v] /\ deKS = [c \in CPUs |-> v]
      /\ ks.estado = [p \in Procesos |-> "READY"] /\ real = [p \in Procesos |-> 1]
      /\ \A c \in CPUs : ks.manejador[c].pc = "libre"
      /\ km = [p \in Procesos |-> [vivo |-> TRUE, pc |-> 1, segmentos |-> 0, cambios |-> 0]]
  BY DEF Init
<1>2. \A T : De(v, T) = {} /\ \A r : AlDiaEn(v, r)
  BY DeNada
<1>3. \A c \in CPUs : cpu[c].pc = "ocioso" /\ aKM[c] = v
  BY <1>1, OciosaTipo
<1> HIDE DEF v
<1>8. \A p \in Procesos : Visto(ks)[p] = "READY"
  BY <1>1 DEF Visto
<1>4. Unicos(ks)
  BY <1>8 DEF Unicos
<1>5. Guardados
  BY <1>2, <1>3 DEF Guardados, Guarda
<1>6. Salidas
  BY <1>2, <1>3 DEF Salidas, Sale
<1>7. AlDia
  <2>1. \A c \in CPUs : LlevaDe(c) = {}
    BY <1>3 DEF LlevaDe, Lleva, Cicladas
  <2>2. \A c \in CPUs : Copia(cpu[c], aKM[c], Flujo(c), real)
    BY <1>2, <1>3 DEF Copia, Cicladas
  <2>3. \A p \in Procesos : km[p].pc = real[p]
    BY <1>1
  <2> QED BY <2>1, <2>2, <2>3 DEF AlDia
<1> QED BY <1>4, <1>5, <1>6, <1>7 DEF Traspasos, Contextuales

\* As long as no thread is late to block a process.
EnTraspaso == "bloqueo" \notin desvios => Traspasos

\* What a step starts from.
LEMMA AntesDelPaso ==
  ASSUME Tipos, Fases, EnTurno, EnTraspaso, [Next]_vars, "bloqueo" \notin desvios'
  PROVE  Turnos /\ EnAvisos /\ Unicos(ks) /\ Guardados /\ Contextuales /\ Esperas(ks')
<1>1. "bloqueo" \notin desvios
  BY DesviosCrecen
<1>2. Turnos'
  BY PasoDeTurnos DEF EnTurno
<1> QED BY <1>1, <1>2 DEF EnTurno, EnTraspaso, Traspasos, Turnos

\* Every step keeps one process for each CPU and the contexts that are saved.
LEMMA PasoDeUnicos ==
  ASSUME Tipos, Fases, EnTurno, EnTraspaso, [Next]_vars, "bloqueo" \notin desvios'
  PROVE  Unicos(ks)' /\ Guardados'
<1>0. Turnos /\ EnAvisos /\ Unicos(ks) /\ Guardados /\ Esperas(ks')
  BY AntesDelPaso
<1>1. Fases' /\ TiposDeCPU
  BY PasoDeFases DEF Tipos
<1>2. ASSUME NEW c \in CPUs, Ciclo(c) PROVE Unicos(ks)' /\ Guardados'
  <2>1. ks' = ks
    BY <1>2 DEF Ciclo, esperar_pid, recibir_mapa, recibirContexto, recibirInstruccion,
       actualizar_tabla_segmentos, ejecutar, respuestaKS, guardado, okExit, manejar_seg_fault,
       atender_interrupcion_en_espera, atender_interrupcion, SoloKM, enKM
  <2>2. Guardados'
    BY <1>0, <1>1, <1>2, GuardadosDeCiclo
  <2> QED BY <1>0, <2>1, <2>2
<1>3. ASSUME NEW c \in CPUs, Sesion(c) PROVE Unicos(ks)' /\ Guardados'
  <2>1. ks' = ks
    BY <1>1, <1>3, FormasDeSesion
  <2>2. Guardados'
    BY <1>0, <1>1, <1>3, GuardadosDeSesion
  <2> QED BY <1>0, <2>1, <2>2
<1>4. CASE UNCHANGED vars
  BY <1>0, <1>4 DEF vars, Guardados
<1>5. CASE \/ \E c \in CPUs : atender_cpu_ks(c) \/ \E p \in Procesos : despachar(c, p)
           \/ \E p \in Procesos : decidir_interrupcion(p) \/ reubicar(p) \/ finalizar_io_y_desbloquear(p)
           \/ \E i \in DOMAIN ks.interrumpe : enviar_interrupcion_cpu(i)
           \/ avisar \/ notificar_mapa_a_todas(SetToSeq(CPUs))
  BY <1>0, <1>5, UnicosDeKS
<1> QED BY <1>2, <1>3, <1>4, <1>5 DEF Next

\* Every step keeps the contexts.
LEMMA PasoDeContextos ==
  ASSUME Tipos, Fases, EnTurno, EnTraspaso, [Next]_vars, "bloqueo" \notin desvios'
  PROVE  Contextuales'
<1>0. Turnos /\ EnAvisos /\ Unicos(ks) /\ Guardados /\ Contextuales
  BY AntesDelPaso
<1>1. ASSUME NEW c \in CPUs, Ciclo(c) PROVE Contextuales'
  BY <1>0, <1>1, ContextosDeCiclo
<1>2. ASSUME NEW c \in CPUs, Sesion(c) PROVE Contextuales'
  BY <1>0, <1>2, ContextosDeSesion
<1>3. ASSUME NEW c \in CPUs, atender_cpu_ks(c) PROVE Contextuales'
  <2>1. CASE km_notificar_exit(c)
    BY <1>0, <2>1, ContextosDeMemoria
  <2>2. CASE ~km_notificar_exit(c)
    <3>1. /\ UNCHANGED <<cpu, aKM, deKM, sesion, real>> /\ ("mutex" \in desvios => "mutex" \in desvios')
          /\ \A r \in Procesos : (km'[r].vivo => km[r].vivo) /\ km'[r].pc = km[r].pc
      BY <1>3, AtencionDeja
    <3>2. CASE Atencion(c)
      BY <1>0, <3>1, <3>2, ContextosDeAtencion
    <3>3. CASE UNCHANGED <<aKS, deKS>> /\ Parado(ks')
      <4>1. Visto(ks') = Visto(ks) /\ TiposDeCPU
        BY <3>3 DEF Tipos, Parado
      <4> QED BY <1>0, <3>1, <3>3, <4>1, ContextosParados
    <3> QED BY <1>0, <1>3, <3>2, <3>3, AtencionEs
  <2> QED BY <2>1, <2>2
<1>4. ASSUME NEW c \in CPUs, NEW p \in Procesos, despachar(c, p) PROVE Contextuales'
  BY <1>0, <1>4, Contextos_despachar
<1>5. CASE \E p \in Procesos : decidir_interrupcion(p) \/ reubicar(p) \/ finalizar_io_y_desbloquear(p)
  BY <1>0, <1>5, ContextosDeMemoria, Contextos_finalizar_io
<1>6. CASE \E i \in DOMAIN ks.interrumpe : enviar_interrupcion_cpu(i)
  BY <1>0, <1>6, Contextos_enviar_interrupcion
<1>7. CASE avisar \/ notificar_mapa_a_todas(SetToSeq(CPUs))
  BY <1>0, <1>7, Contextos_avisar, ContextosDeMemoria
<1>8. CASE UNCHANGED vars
  <2>1. /\ UNCHANGED <<cpu, aKM, aKS, deKS, deKM, sesion, real, km, desvios>> /\ TiposDeCPU /\ ks' = ks
    BY <1>8 DEF vars, Tipos
  <2>3. Visto(ks') = Visto(ks)
    BY <2>1
  <2>2. \A p \in Procesos : (km'[p].vivo => km[p].vivo) /\ km'[p].pc = km[p].pc
    BY <2>1
  <2> QED BY <1>0, <2>1, <2>2, <2>3, ContextosParados
<1> QED BY <1>1, <1>2, <1>3, <1>4, <1>5, <1>6, <1>7, <1>8 DEF Next

\* On its way from a CPU to the next, a process has one last context and one CPU that may
\* have it: no CPU has two processes, a context that Kernel Memory has not read is of a
\* process the scheduler still has on that CPU, of one that blocked in a call or of one
\* that ends, and, unless the context of a mutex came late, it is the last.  The reserve: the
\* mutex is never handed to a process that a thread has queued and is still to block.
THEOREM TraspasoDeContextos == Spec => [](Tipos /\ Fases /\ ("bloqueo" \notin desvios => Turnos /\ Traspasos))
<1>1. Init => Tipos /\ Fases /\ EnTurno /\ EnTraspaso
  BY InicioDeFases, InicioDeTurnos, InicioDeContextos DEF EnTraspaso
<1>2. Tipos /\ Fases /\ EnTurno /\ EnTraspaso /\ [Next]_vars => (Tipos /\ Fases /\ EnTurno /\ EnTraspaso)'
  <2> SUFFICES ASSUME Tipos, Fases, EnTurno, EnTraspaso, [Next]_vars
               PROVE  (Tipos /\ Fases /\ EnTurno /\ EnTraspaso)'
    OBVIOUS
  <2>1. Tipos' /\ Fases' /\ EnTurno'
    BY PasoDeFases, PasoDeTurnos
  <2>2. "bloqueo" \notin desvios' => Unicos(ks)' /\ Guardados' /\ Contextuales'
    BY PasoDeUnicos, PasoDeContextos
  <2> QED BY <2>1, <2>2 DEF EnTraspaso, Traspasos
<1>3. EnTurno /\ EnTraspaso => ("bloqueo" \notin desvios => Turnos /\ Traspasos)
  BY DEF EnTurno, EnTraspaso
<1> QED BY <1>1, <1>2, <1>3, PTL DEF Spec

\* A process goes on where it was, on whatever CPU and whatever took it from the one
\* before: the context a CPU executes with is the one the process has reached, unless the
\* scheduler has handed a process to a CPU before the one it blocked on has saved it
\* (syscall_mutex_lock saves the context once the process may already be READY), or the
\* mutex to a process before blocking it (mutex_lock blocks with mutex_listas released).
THEOREM ContextoSiempreAlDia == Spec => []ContextoAlDia
<1>1. ("bloqueo" \notin desvios => Turnos /\ Traspasos) => ContextoAlDia
  BY DEF Traspasos, Contextuales, AlDia, Copia, Cicladas, ContextoAlDia, EnCiclo
<1> QED BY <1>1, TraspasoDeContextos, PTL

-----------------------------------------------------------------------------
(* The tables of segments, while no stick connects late, no segment moves  *)
(* under a process in EXEC and no thread is late to block one: what is on  *)
(* its way to a CPU (f) is exactly what it waits for, with the last table  *)
(* (t) of its process.                                                     *)

EnOrden(causas) == causas \cap {"stick", "bloqueo", "reubicado"} = {}

\* From its frame i on, f is the answer of Kernel Memory about the table.
ConTabla(f, i, t) ==
  \/ t = 0 /\ Len(f) = i /\ f[i].t = "VACIA"
  \/ /\ t # 0 /\ Len(f) = i + 1 /\ f[i].t = "NO_VACIA"
     /\ f[i + 1].t = "segmentos" /\ f[i + 1].tabla = t
Exacta(k, q, f, t) ==
  /\ k.pc # "fin" => Len(q) = 0 \/ Len(f) = 0
  /\ k.pc \in {"ocioso", "ejecuta", "respKS", "interrupciones", "ackSegFault"} => Len(f) = 0
  /\ k.pc = "mapaCod" => Len(f) = 0 \/ (Len(f) = 2 /\ f[1].t = "MAPA" /\ f[2].t = "mapa")
  /\ k.pc = "mapaBuf" => Len(f) = 1
  /\ k.pc = "contexto" => Len(f) <= 1 /\ Len(q) <= 1
  /\ k.pc = "respuesta" =>
       \/ Len(f) = 0
       \/ Len(f) = 1 /\ f[1].t = "ERROR"
       \/ ConTabla(f, 3, t) /\ f[1].t = "OK" /\ f[2].t = "instruccion"
  /\ k.pc = "instruccion" => ConTabla(f, 2, t) /\ f[1].t = "instruccion"
  /\ k.pc \in {"tabla", "segmentos", "ejecuta"} => k.instr.t = "instruccion"
  /\ k.pc = "tabla" => ConTabla(f, 1, t)
  /\ k.pc = "segmentos" => t # 0 /\ Len(f) = 1 /\ f[1].t = "segmentos" /\ f[1].tabla = t
  /\ k.pc = "ejecuta" => t = 0 \/ k.tabla = t
  /\ k.pc \in {"okGuarda", "okExit"} => Len(f) <= 1
ExactaDe(c) == Exacta(cpu[c], aKM[c], Flujo(c), Tabla(cpu[c].pid))
Exactas == EnOrden(desvios) => aviso = <<>> /\ \A c \in CPUs : ExactaDe(c)

\* What is left after the first frame.
LEMMA ColaDe ==
  ASSUME NEW f \in Seq(Tramas)
  PROVE  /\ Len(f) \in Nat /\ (Len(f) = 0 <=> f = <<>>)
         /\ f # <<>> => /\ Tail(f) \in Seq(Tramas) /\ Len(Tail(f)) = Len(f) - 1 /\ Head(f) = f[1]
                        /\ \A i \in 1..(Len(f) - 1) : Tail(f)[i] = f[i + 1]
<1>1. Len(f) \in Nat /\ (Len(f) = 0 <=> f = <<>>)
  BY LenProperties, EmptySeq
<1>2. ASSUME f # <<>>
      PROVE  /\ Tail(f) \in Seq(Tramas) /\ Len(Tail(f)) = Len(f) - 1 /\ Head(f) = f[1]
             /\ \A i \in 1..(Len(f) - 1) : Tail(f)[i] = f[i + 1]
  BY <1>2, HeadTailProperties
<1> QED BY <1>1, <1>2

\* The answer about the table comes nearer with each frame that is read.
LEMMA ConTablaCola ==
  ASSUME NEW f \in Seq(Tramas), NEW i \in {1, 2}, NEW t, ConTabla(f, i + 1, t)
  PROVE  f # <<>> /\ ConTabla(Tail(f), i, t)
<1>1. Len(f) \in Nat /\ (Len(f) = 0 <=> f = <<>>) /\ (Len(f) = i + 1 \/ Len(f) = i + 2)
  BY ColaDe DEF ConTabla
<1>2. f # <<>>
  BY <1>1
<1>3. Len(Tail(f)) = Len(f) - 1 /\ \A j \in 1..(Len(f) - 1) : Tail(f)[j] = f[j + 1]
  BY <1>2, ColaDe
<1>4. CASE t = 0 /\ Len(f) = i + 1 /\ f[i + 1].t = "VACIA"
  <2>1. Len(Tail(f)) = i /\ i \in 1..(Len(f) - 1)
    BY <1>3, <1>4
  <2> QED BY <1>2, <1>3, <1>4, <2>1 DEF ConTabla
<1>5. CASE /\ t # 0 /\ Len(f) = i + 2 /\ f[i + 1].t = "NO_VACIA"
           /\ f[i + 2].t = "segmentos" /\ f[i + 2].tabla = t
  <2>1. Len(Tail(f)) = i + 1 /\ i \in 1..(Len(f) - 1) /\ i + 1 \in 1..(Len(f) - 1) /\ (i + 1) + 1 = i + 2
    BY <1>3, <1>5
  <2>2. Tail(f)[i] = f[i + 1] /\ Tail(f)[i + 1] = f[i + 2]
    BY <1>3, <2>1
  <2> QED BY <1>2, <1>5, <2>1, <2>2 DEF ConTabla
<1>6. (i + 1) + 1 = i + 2
  OBVIOUS
<1> QED BY <1>4, <1>5, <1>6 DEF ConTabla

\* Where nothing is on its way to the CPU and nothing need be, it has what it has to have.
LEMMA ExactaCallada ==
  ASSUME NEW k, NEW q, NEW f, NEW t, Len(f) = 0,
         k.pc \in {"ocioso", "mapaCod", "respuesta", "respKS", "interrupciones", "okGuarda", "okExit",
                   "ackSegFault", "fin"}
  PROVE  Exacta(k, q, f, t)
BY DEF Exacta

\* A CPU that has ended waits for nothing.
LEMMA ExactaDeFin == ASSUME NEW k, NEW q, NEW f, NEW t, k.pc = "fin" PROVE Exacta(k, q, f, t)
BY DEF Exacta

\* A step of a CPU, which may have read a frame.
LEMMA ExactasDeCPU ==
  ASSUME TiposDeCPU, Exactas, NEW c \in CPUs, UNCHANGED <<km, sesion, aviso>>, desvios \subseteq desvios',
         \A d \in CPUs \ {c} : cpu'[d] = cpu[d] /\ aKM'[d] = aKM[d],
         NEW f, \/ deKM' = deKM /\ f = Flujo(c)
                \/ deKM[c] # <<>> /\ deKM' = [deKM EXCEPT ![c] = Tail(@)] /\ f = Tail(Flujo(c)),
         EnOrden(desvios) => Exacta(cpu'[c], aKM'[c], f, Tabla(cpu'[c].pid))
  PROVE  Exactas'
<1> SUFFICES ASSUME EnOrden(desvios')
             PROVE  aviso' = <<>> /\ \A d \in CPUs : ExactaDe(d)'
  BY DEF Exactas
<1>1. EnOrden(desvios) /\ aviso = <<>> /\ \A d \in CPUs : ExactaDe(d)
  BY DEF Exactas, EnOrden
<1>2. \A p : Tabla(p)' = Tabla(p)
  BY DEF Tabla
<1>3. ASSUME NEW d \in CPUs PROVE ExactaDe(d)'
  <2>1. CASE d = c
    <3>2. deKM'[c] \o sesion[c].envio = f
      <4>1. CASE deKM' = deKM /\ f = Flujo(c)
        BY <4>1 DEF Flujo
      <4>2. CASE deKM[c] # <<>> /\ deKM' = [deKM EXCEPT ![c] = Tail(@)] /\ f = Tail(Flujo(c))
        <5>1. Tail(deKM[c]) \o sesion[c].envio = Tail(Flujo(c))
          BY <4>2, Lectura
        <5> QED BY <4>2, <5>1 DEF TiposDeCPU
      <4> QED BY <4>1, <4>2
    <3>3. Exacta(cpu'[c], aKM'[c], f, Tabla(cpu'[c].pid))
      BY <1>1
    <3> QED BY <2>1, <1>2, <3>2, <3>3 DEF ExactaDe, Flujo
  <2>2. CASE d # c
    <3>1. cpu'[d] = cpu[d] /\ aKM'[d] = aKM[d] /\ deKM'[d] = deKM[d]
      BY <2>2 DEF TiposDeCPU
    <3>2. ExactaDe(d)
      BY <1>1
    <3> QED BY <1>2, <3>1, <3>2 DEF ExactaDe, Flujo
  <2> QED BY <2>1, <2>2
<1> QED BY <1>1, <1>3

\* What c has to have, as long as no stick connects.
LEMMA ExactaEs ==
  ASSUME TiposDeCPU, Fases, Exactas, NEW c \in CPUs, EnOrden(desvios)
  PROVE  /\ Exacta(cpu[c], aKM[c], Flujo(c), Tabla(cpu[c].pid))
         /\ Fase(cpu[c], sesion[c], aKM[c], Flujo(c))
         /\ cpu[c] \in Registros /\ sesion[c] \in Sesiones /\ aKM[c] \in Seq(Tramas)
         /\ Flujo(c) \in Seq(Tramas) /\ Len(aKM[c]) \in Nat /\ (Len(aKM[c]) = 0 <=> aKM[c] = <<>>)
<1>1. Exacta(cpu[c], aKM[c], Flujo(c), Tabla(cpu[c].pid))
  BY DEF Exactas, ExactaDe
<1>2. Fase(cpu[c], sesion[c], aKM[c], Flujo(c))
  BY DEF Fases
<1>3. /\ cpu[c] \in Registros /\ sesion[c] \in Sesiones /\ aKM[c] \in Seq(Tramas)
      /\ Flujo(c) \in Seq(Tramas)
  BY TiposDe
<1> QED BY <1>1, <1>2, <1>3, ColaDe

\* A CPU that reads the next frame.
LEMMA ExactaLee ==
  ASSUME TiposDeCPU, Fases, Exactas, NEW c \in CPUs, EnOrden(desvios), deKM[c] # <<>>
  PROVE  LET f == Flujo(c) IN
         /\ f # <<>> /\ Len(f) \in Nat /\ Len(f) # 0 /\ Tail(f) \in Seq(Tramas) /\ Lee(c) = f[1]
         /\ Len(Tail(f)) = Len(f) - 1 /\ \A i \in 1..(Len(f) - 1) : Tail(f)[i] = f[i + 1]
<1>1. Flujo(c) # <<>> /\ Head(Flujo(c)) = Lee(c) /\ Flujo(c) \in Seq(Tramas)
  BY Lectura, TiposDe
<1> QED BY <1>1, ColaDe

\* Where nothing need be on its way to a CPU.
Descansos ==
  {"ocioso", "mapaCod", "respuesta", "respKS", "interrupciones", "okGuarda", "okExit", "ackSegFault", "fin"}
\* A step of a CPU that leaves nothing on its way to it, where nothing need be.
LEMMA ExactasCalla ==
  ASSUME TiposDeCPU, Fases, Exactas, NEW c \in CPUs, UNCHANGED <<km, sesion, aviso>>,
         desvios \subseteq desvios', \A d \in CPUs \ {c} : cpu'[d] = cpu[d] /\ aKM'[d] = aKM[d],
         \/ deKM' = deKM /\ cpu[c].pc \in {"ocioso", "ejecuta", "respKS", "interrupciones", "ackSegFault"}
         \/ /\ deKM[c] # <<>> /\ deKM' = [deKM EXCEPT ![c] = Tail(@)]
            /\ cpu[c].pc \in {"mapaBuf", "contexto", "okGuarda", "okExit"},
         cpu'[c].pc \in Descansos
  PROVE  Exactas'
<1>1. CASE deKM' = deKM /\ cpu[c].pc \in {"ocioso", "ejecuta", "respKS", "interrupciones", "ackSegFault"}
  <2>1. EnOrden(desvios) => Len(Flujo(c)) = 0
    BY <1>1, ExactaEs DEF Exacta
  <2>2. EnOrden(desvios) => Exacta(cpu'[c], aKM'[c], Flujo(c), Tabla(cpu'[c].pid))
    BY <2>1, ExactaCallada DEF Descansos
  <2> QED BY <1>1, <2>2, ExactasDeCPU
<1>2. CASE /\ deKM[c] # <<>> /\ deKM' = [deKM EXCEPT ![c] = Tail(@)]
           /\ cpu[c].pc \in {"mapaBuf", "contexto", "okGuarda", "okExit"}
  <2>1. ASSUME EnOrden(desvios) PROVE Len(Tail(Flujo(c))) = 0
    <3> DEFINE n == Len(Flujo(c))
    <3>1. n \in Nat /\ n # 0 /\ Len(Tail(Flujo(c))) = n - 1
      BY <1>2, <2>1, ExactaLee
    <3>2. n = 1 \/ n <= 1
      BY <1>2, <2>1, ExactaEs DEF Exacta
    <3> HIDE DEF n
    <3>3. n - 1 = 0
      BY <3>1, <3>2
    <3> QED BY <3>1, <3>3
  <2>2. EnOrden(desvios) => Exacta(cpu'[c], aKM'[c], Tail(Flujo(c)), Tabla(cpu'[c].pid))
    BY <2>1, ExactaCallada DEF Descansos
  <2> QED BY <1>2, <2>2, ExactasDeCPU
<1> QED BY <1>1, <1>2

\* What has happened is not forgotten.
LEMMA DesviosDeCiclo == ASSUME NEW c \in CPUs, Ciclo(c) PROVE desvios \subseteq desvios'
<1>1. CASE esperar_pid(c) \/ recibir_mapa(c) \/ recibirContexto(c) \/ recibirInstruccion(c)
  BY <1>1 DEF esperar_pid, recibir_mapa, recibirContexto, recibirInstruccion
<1>2. CASE actualizar_tabla_segmentos(c) \/ ejecutar(c) \/ guardado(c) \/ okExit(c) \/ manejar_seg_fault(c)
           \/ atender_interrupcion(c)
  BY <1>2 DEF actualizar_tabla_segmentos, ejecutar, guardado, okExit, manejar_seg_fault, atender_interrupcion
<1>3. CASE respuestaKS(c) \/ atender_interrupcion_en_espera(c)
  BY <1>3 DEF respuestaKS, atender_interrupcion_en_espera, Desvio
<1> QED BY <1>1, <1>2, <1>3 DEF Ciclo

\* Where each step of a CPU that needs nothing of Kernel Memory, or its last frame, leads.
LEMMA CalladasDeCiclo ==
  ASSUME TiposDeCPU, NEW c \in CPUs,
         \/ esperar_pid(c) \/ recibirContexto(c) \/ ejecutar(c) \/ respuestaKS(c) \/ guardado(c)
         \/ okExit(c) \/ manejar_seg_fault(c) \/ atender_interrupcion_en_espera(c) \/ atender_interrupcion(c)
  PROVE  /\ \/ deKM' = deKM /\ cpu[c].pc \in {"ocioso", "ejecuta", "respKS", "interrupciones", "ackSegFault"}
            \/ /\ deKM[c] # <<>> /\ deKM' = [deKM EXCEPT ![c] = Tail(@)]
               /\ cpu[c].pc \in {"mapaBuf", "contexto", "okGuarda", "okExit"}
         /\ cpu'[c].pc \in Descansos
<1> DEFINE x == cpu[c]
<1>0. x \in Registros /\ cpu \in [CPUs -> Registros]
  BY DEF TiposDeCPU
<1>1. \A pc : Va(c, pc) => cpu'[c].pc = pc
  BY <1>0 DEF Va, Registros
<1>2. \A r \in Registros : fetch(c, r) => cpu'[c].pc = "respuesta"
  BY <1>0 DEF fetch, Registros
<1>3. Ocioso(c) => cpu'[c].pc = "ocioso"
  BY <1>0 DEF Ocioso, CPUOciosa
<1>5. Avanzada(c) \in Registros /\ Avanzada(c).pid = x.pid
  BY AvanzadaTipo
<1>4. noop(c) => cpu'[c].pc = "interrupciones"
  <2> DEFINE k == Avanzada(c)
  <2>1. noop(c) => cpu' = [cpu EXCEPT ![c] = [k EXCEPT !.pc = "interrupciones"]]
    BY DEF noop
  <2> HIDE DEF k
  <2> QED BY <1>0, <1>5, <2>1 DEF Registros, k
<1>6. \A k \in Registros : \A tras : guardar_contexto_km(c, k, tras) => cpu'[c].pc = "okGuarda"
  BY <1>0 DEF guardar_contexto_km, Registros
<1> HIDE DEF x
<1>7. CASE esperar_pid(c)
  <2>1. deKM' = deKM /\ cpu[c].pc = "ocioso"
    BY <1>7 DEF esperar_pid, LeeKS, EnPC
  <2>2. cpu'[c].pc \in {"ocioso", "mapaCod"}
    BY <1>7, <1>0, <2>1 DEF esperar_pid, CPUOciosa, x
  <2> QED BY <2>1, <2>2 DEF Descansos
<1>8. CASE recibirContexto(c)
  <2> DEFINE r == [x EXCEPT !.ctx = Lee(c).pc, !.tabla = Lee(c).tabla]
  <2>1. cpu[c].pc = "contexto" /\ deKM[c] # <<>> /\ deKM' = [deKM EXCEPT ![c] = Tail(@)]
    BY <1>8 DEF recibirContexto, LeeKM, EnPC
  <2>2. Lee(c) \in Tramas
    BY <2>1, Lectura
  <2>3. r \in Registros
    BY <1>0, <2>2 DEF Registros, Tramas
  <2>4. fetch(c, r) \/ Va(c, "fin")
    BY <1>8 DEF recibirContexto, x
  <2> HIDE DEF r
  <2> QED BY <1>1, <1>2, <2>1, <2>3, <2>4 DEF Descansos
<1>9. CASE ejecutar(c)
  <2>1. deKM' = deKM /\ cpu[c].pc = "ejecuta"
    BY <1>9 DEF ejecutar, EnPC
  <2>2. syscall_sleep(c) => cpu'[c].pc = "okGuarda"
    BY <1>5, <1>6 DEF syscall_sleep
  <2>3. syscall_exit(c) => cpu'[c].pc = "okExit"
    BY <1>1 DEF syscall_exit
  <2> QED BY <1>1, <1>4, <1>9, <2>1, <2>2, <2>3, ejecutarFormas DEF Descansos
<1>10. CASE respuestaKS(c)
  <2>1. deKM' = deKM /\ cpu[c].pc = "respKS"
    BY <1>10 DEF respuestaKS, LeeKS, EnPC
  <2>2. \/ \E m : cpu' = [cpu EXCEPT ![c].espera = m]
        \/ noop(c)
        \/ guardar_contexto_km(c, Avanzada(c), "BLOQUEADO")
        \/ Va(c, "interrupciones") \/ Va(c, "fin")
    BY <1>10 DEF respuestaKS
  <2>3. ASSUME NEW m, cpu' = [cpu EXCEPT ![c].espera = m] PROVE cpu'[c].pc = cpu[c].pc
    BY <1>0, <2>3 DEF Registros, x
  <2> QED BY <1>1, <1>4, <1>5, <1>6, <2>1, <2>2, <2>3 DEF Descansos
<1>11. CASE guardado(c) \/ okExit(c)
  <2>1. cpu[c].pc \in {"okGuarda", "okExit"} /\ deKM[c] # <<>> /\ deKM' = [deKM EXCEPT ![c] = Tail(@)]
    BY <1>11 DEF guardado, okExit, LeeKM, EnPC
  <2>2. Ocioso(c) \/ Va(c, "fin")
    BY <1>11 DEF guardado, okExit
  <2> QED BY <1>1, <1>3, <2>1, <2>2 DEF Descansos
<1>12. CASE manejar_seg_fault(c)
  <2>1. deKM' = deKM /\ cpu[c].pc = "ackSegFault" /\ Ocioso(c)
    BY <1>12 DEF manejar_seg_fault, LeeKS, EnPC
  <2> QED BY <1>3, <2>1 DEF Descansos
<1>13. CASE atender_interrupcion_en_espera(c) \/ atender_interrupcion(c)
  <2>1. deKM' = deKM /\ cpu[c].pc = "interrupciones"
    BY <1>13 DEF atender_interrupcion_en_espera, atender_interrupcion, EnPC
  <2>2. guardar_contexto_km(c, x, "ATENDIDA") \/ Ocioso(c) \/ fetch(c, x) \/ Va(c, "fin")
    BY <1>13 DEF atender_interrupcion_en_espera, atender_interrupcion, x
  <2> QED BY <1>0, <1>1, <1>2, <1>3, <1>6, <2>1, <2>2 DEF Descansos
<1> QED BY <1>7, <1>8, <1>9, <1>10, <1>11, <1>12, <1>13

\* The map of the sticks comes whole, and nothing else with it.
LEMMA Exactas_recibir_mapa ==
  ASSUME TiposDeCPU, Fases, Exactas, NEW c \in CPUs, recibir_mapa(c), Ciclo(c)
  PROVE  Exactas'
<1> DEFINE f == Flujo(c)
           q == aKM[c]
           v == [Trama("pid") EXCEPT !.pid = cpu[c].pid]
<1>0. /\ UNCHANGED <<km, sesion, aviso>> /\ desvios \subseteq desvios'
      /\ \A d \in CPUs \ {c} : cpu'[d] = cpu[d] /\ aKM'[d] = aKM[d]
  BY CicloSuyo, DesviosDeCiclo DEF recibir_mapa, SoloKM
<1>1. /\ deKM[c] # <<>> /\ deKM' = [deKM EXCEPT ![c] = Tail(@)]
      /\ \/ cpu[c].pc = "mapaCod" /\ Va(c, IF Lee(c).t = "MAPA" THEN "mapaBuf" ELSE "fin") /\ aKM' = aKM
         \/ cpu[c].pc = "mapaBuf" /\ Va(c, "contexto") /\ aKM' = [aKM EXCEPT ![c] = q \o <<v>>]
         \/ cpu[c].pc = "mapaBuf" /\ Va(c, "fin")
  BY DEF recibir_mapa, LeeKM, EnPC, EscribeKM
<1>2. \A pc : Va(c, pc) => cpu'[c].pc = pc
  BY DEF Va, TiposDeCPU, Registros
<1>3. ASSUME EnOrden(desvios) PROVE Exacta(cpu'[c], aKM'[c], Tail(f), Tabla(cpu'[c].pid))
  <2>1. /\ Exacta(cpu[c], q, f, Tabla(cpu[c].pid)) /\ Len(q) \in Nat
        /\ q \in Seq(Tramas) /\ (Len(q) = 0 <=> q = <<>>)
    BY <1>3, ExactaEs
  <2>2. Len(f) \in Nat /\ Len(f) # 0 /\ Len(Tail(f)) = Len(f) - 1
    BY <1>1, <1>3, ExactaLee
  <2>3. CASE cpu'[c].pc = "fin"
    BY <2>3, ExactaDeFin
  <2>4. CASE cpu[c].pc = "mapaCod" /\ Va(c, "mapaBuf") /\ aKM' = aKM
    <3>1. Len(f) = 0 \/ Len(f) = 2
      BY <2>1, <2>4 DEF Exacta
    <3>2. Len(Tail(f)) = 1 /\ cpu'[c].pc = "mapaBuf" /\ aKM'[c] = q
      BY <3>1, <2>2, <2>4, <1>2
    <3>3. Len(q) = 0
      BY <2>1, <2>2, <2>4 DEF Exacta
    <3> HIDE DEF f, q
    <3> QED BY <3>2, <3>3 DEF Exacta
  <2>5. CASE cpu[c].pc = "mapaBuf" /\ Va(c, "contexto") /\ aKM' = [aKM EXCEPT ![c] = q \o <<v>>]
    <3>1. Len(f) = 1 /\ Len(q) = 0
      BY <2>1, <2>2, <2>5 DEF Exacta
    <3>2. cpu[c].pid \in Procesos
      BY <1>3, <2>5, ExactaEs DEF Fase
    <3>3. v \in Tramas
      BY <3>2, TramasHechas
    <3>4. Len(q \o <<v>>) = 1
      <4> HIDE DEF v, q
      <4> QED BY <2>1, <3>1, <3>3, Agrega
    <3>5. aKM'[c] = q \o <<v>>
      BY <2>5 DEF TiposDeCPU
    <3>6. Len(aKM'[c]) = 1 /\ Len(Tail(f)) = 0 /\ cpu'[c].pc = "contexto"
      BY <1>2, <2>2, <2>5, <3>1, <3>4, <3>5
    <3> DEFINE a == Len(Tail(f))
               b == Len(aKM'[c])
    <3>8. a = 0 /\ b = 1
      BY <3>6
    <3> HIDE DEF f, a, b
    <3>9. a <= 1 /\ b <= 1
      BY <3>8
    <3>7. Len(Tail(f)) <= 1 /\ Len(aKM'[c]) <= 1
      BY <3>9 DEF a, b
    <3> QED BY <3>6, <3>7 DEF Exacta
  <2> QED BY <1>1, <1>2, <2>3, <2>4, <2>5
<1> QED BY <1>0, <1>1, <1>3, ExactasDeCPU

\* The instruction comes after OK, and the table after the instruction.
LEMMA Exactas_recibirInstruccion ==
  ASSUME TiposDeCPU, Fases, Exactas, NEW c \in CPUs, recibirInstruccion(c), Ciclo(c)
  PROVE  Exactas'
<1> DEFINE f == Flujo(c)
           q == aKM[c]
           t == Tabla(cpu[c].pid)
<1>0. /\ UNCHANGED <<km, sesion, aviso, aKM>> /\ desvios \subseteq desvios'
      /\ \A d \in CPUs \ {c} : cpu'[d] = cpu[d] /\ aKM'[d] = aKM[d]
  BY CicloSuyo, DesviosDeCiclo DEF recibirInstruccion, SoloKM
<1>1. /\ deKM[c] # <<>> /\ deKM' = [deKM EXCEPT ![c] = Tail(@)]
      /\ \/ cpu[c].pc = "respuesta" /\ Lee(c).t = "ERROR" /\ Va(c, "fin")
         \/ cpu[c].pc = "respuesta" /\ Lee(c).t # "ERROR" /\ Va(c, "instruccion")
         \/ cpu[c].pc = "instruccion" /\ cpu' = [cpu EXCEPT ![c].instr = Lee(c), ![c].pc = "tabla"]
  BY DEF recibirInstruccion, LeeKM, EnPC
<1>2. \A pc : Va(c, pc) => cpu'[c].pc = pc /\ cpu'[c].pid = cpu[c].pid
  BY DEF Va, TiposDeCPU, Registros
<1>3. cpu' = [cpu EXCEPT ![c].instr = Lee(c), ![c].pc = "tabla"] =>
        cpu'[c].pc = "tabla" /\ cpu'[c].instr = Lee(c) /\ cpu'[c].pid = cpu[c].pid
  BY DEF TiposDeCPU, Registros
<1>4. ASSUME EnOrden(desvios) PROVE Exacta(cpu'[c], aKM'[c], Tail(f), Tabla(cpu'[c].pid))
  <2>1. Exacta(cpu[c], q, f, t) /\ Len(q) \in Nat /\ f \in Seq(Tramas)
    BY <1>4, ExactaEs
  <2>2. /\ Len(f) \in Nat /\ Len(f) # 0 /\ Len(Tail(f)) = Len(f) - 1 /\ Lee(c) = f[1]
        /\ \A i \in 1..(Len(f) - 1) : Tail(f)[i] = f[i + 1]
    BY <1>1, <1>4, ExactaLee
  <2>3. CASE cpu'[c].pc = "fin"
    BY <2>3, ExactaDeFin
  <2>4. CASE cpu[c].pc = "respuesta" /\ Lee(c).t # "ERROR" /\ Va(c, "instruccion")
    <3>1. ConTabla(f, 3, t) /\ f[2].t = "instruccion" /\ Len(q) = 0
      BY <2>1, <2>2, <2>4 DEF Exacta
    <3>2. ConTabla(f, 2 + 1, t) /\ 2 \in {1, 2}
      BY <3>1
    <3>3. ConTabla(Tail(f), 2, t)
      BY <2>1, <3>2, ConTablaCola
    <3>4. Len(f) = 3 \/ Len(f) = 4
      BY <3>1 DEF ConTabla
    <3>5. Tail(f)[1].t = "instruccion"
      BY <2>2, <3>1, <3>4
    <3>6. cpu'[c].pc = "instruccion" /\ cpu'[c].pid = cpu[c].pid /\ aKM'[c] = q
      BY <1>0, <1>2, <2>4
    <3> HIDE DEF f, q, t
    <3>7. Exacta(cpu'[c], q, Tail(f), t)
      BY <3>1, <3>3, <3>5, <3>6 DEF Exacta
    <3> QED BY <3>6, <3>7 DEF t
  <2>5. CASE cpu[c].pc = "instruccion" /\ cpu' = [cpu EXCEPT ![c].instr = Lee(c), ![c].pc = "tabla"]
    <3>1. ConTabla(f, 2, t) /\ f[1].t = "instruccion" /\ Len(q) = 0
      BY <2>1, <2>2, <2>5 DEF Exacta
    <3>2. ConTabla(f, 1 + 1, t) /\ 1 \in {1, 2}
      BY <3>1
    <3>3. ConTabla(Tail(f), 1, t)
      BY <2>1, <3>2, ConTablaCola
    <3>6. /\ cpu'[c].pc = "tabla" /\ cpu'[c].pid = cpu[c].pid /\ aKM'[c] = q
          /\ cpu'[c].instr.t = "instruccion"
      BY <1>0, <1>3, <2>2, <2>5, <3>1
    <3> HIDE DEF f, q, t
    <3>7. Exacta(cpu'[c], q, Tail(f), t)
      BY <3>1, <3>3, <3>6 DEF Exacta
    <3> QED BY <3>6, <3>7 DEF t
  <2> QED BY <1>1, <1>2, <2>3, <2>4, <2>5
<1> QED BY <1>0, <1>1, <1>4, ExactasDeCPU

\* What the CPU takes for its table is the last one.
LEMMA Exactas_actualizar_tabla_segmentos ==
  ASSUME TiposDeCPU, Fases, Exactas, NEW c \in CPUs, actualizar_tabla_segmentos(c), Ciclo(c)
  PROVE  Exactas'
<1> DEFINE f == Flujo(c)
           q == aKM[c]
           t == Tabla(cpu[c].pid)
           n == IF Lee(c).t = "segmentos" THEN Lee(c).tabla ELSE cpu[c].tabla
<1>0. /\ UNCHANGED <<km, sesion, aviso, aKM>> /\ desvios \subseteq desvios'
      /\ \A d \in CPUs \ {c} : cpu'[d] = cpu[d] /\ aKM'[d] = aKM[d]
  BY CicloSuyo, DesviosDeCiclo DEF actualizar_tabla_segmentos, SoloKM
<1>1. /\ deKM[c] # <<>> /\ deKM' = [deKM EXCEPT ![c] = Tail(@)]
      /\ \/ cpu[c].pc = "tabla" /\ Lee(c).t = "NO_VACIA" /\ Va(c, "segmentos")
         \/ cpu[c].pc = "tabla" /\ Lee(c).t # "NO_VACIA" /\ Va(c, "ejecuta")
         \/ cpu[c].pc = "segmentos" /\ cpu' = [cpu EXCEPT ![c].pc = "ejecuta", ![c].tabla = n]
  BY DEF actualizar_tabla_segmentos, LeeKM, EnPC, TiposDeCPU
<1>2. \A pc : Va(c, pc) => cpu'[c].pc = pc /\ cpu'[c].pid = cpu[c].pid /\ cpu'[c].instr = cpu[c].instr
  BY DEF Va, TiposDeCPU, Registros
<1>3. cpu' = [cpu EXCEPT ![c].pc = "ejecuta", ![c].tabla = n] =>
        /\ cpu'[c].pc = "ejecuta" /\ cpu'[c].tabla = n /\ cpu'[c].pid = cpu[c].pid
        /\ cpu'[c].instr = cpu[c].instr
  BY DEF TiposDeCPU, Registros
<1> HIDE DEF n
<1>4. ASSUME EnOrden(desvios) PROVE Exacta(cpu'[c], aKM'[c], Tail(f), Tabla(cpu'[c].pid))
  <2>1. Exacta(cpu[c], q, f, t) /\ Len(q) \in Nat /\ f \in Seq(Tramas)
    BY <1>4, ExactaEs
  <2>2. /\ Len(f) \in Nat /\ Len(f) # 0 /\ Len(Tail(f)) = Len(f) - 1 /\ Lee(c) = f[1]
        /\ \A i \in 1..(Len(f) - 1) : Tail(f)[i] = f[i + 1]
    BY <1>1, <1>4, ExactaLee
  <2>3. aKM'[c] = q /\ cpu[c].pc \in {"tabla", "segmentos"}
    BY <1>0, <1>1
  <2>4. Len(q) = 0 /\ cpu[c].instr.t = "instruccion"
    BY <2>1, <2>2, <2>3 DEF Exacta
  <2>5. CASE cpu[c].pc = "tabla" /\ Lee(c).t = "NO_VACIA" /\ Va(c, "segmentos")
    <3>1. ConTabla(f, 1, t)
      BY <2>1, <2>5 DEF Exacta
    <3>2. f[1].t = "NO_VACIA"
      BY <2>2, <2>5
    <3>3. t # 0 /\ Len(f) = 1 + 1 /\ f[1 + 1].t = "segmentos" /\ f[1 + 1].tabla = t
      BY <3>1, <3>2 DEF ConTabla
    <3>5. Len(f) - 1 = 1 /\ 1 \in 1..1
      BY <3>3
    <3>4. Len(Tail(f)) = 1 /\ Tail(f)[1] = f[1 + 1]
      <4> DEFINE u == Tail(f)
                 m == Len(f) - 1
      <4>1. Len(u) = m /\ (\A i \in 1..m : u[i] = f[i + 1]) /\ m = 1
        BY <2>2, <3>5
      <4> HIDE DEF f, u, m
      <4> QED BY <4>1 DEF u
    <3>6. cpu'[c].pc = "segmentos" /\ cpu'[c].pid = cpu[c].pid /\ cpu'[c].instr.t = "instruccion"
      BY <1>2, <2>4, <2>5
    <3> HIDE DEF f, q, t
    <3>7. Exacta(cpu'[c], q, Tail(f), t)
      BY <2>4, <3>3, <3>4, <3>6 DEF Exacta
    <3> QED BY <2>3, <3>6, <3>7 DEF t
  <2>6. CASE cpu[c].pc = "tabla" /\ Lee(c).t # "NO_VACIA" /\ Va(c, "ejecuta")
    <3>1. ConTabla(f, 1, t)
      BY <2>1, <2>6 DEF Exacta
    <3>2. f[1].t # "NO_VACIA"
      BY <2>2, <2>6
    <3>3. t = 0 /\ Len(f) = 1
      BY <3>1, <3>2 DEF ConTabla
    <3>4. Len(Tail(f)) = 0
      BY <2>2, <3>3
    <3>6. cpu'[c].pc = "ejecuta" /\ cpu'[c].pid = cpu[c].pid /\ cpu'[c].instr.t = "instruccion"
      BY <1>2, <2>4, <2>6
    <3> HIDE DEF f, q, t
    <3>7. Exacta(cpu'[c], q, Tail(f), t)
      BY <2>4, <3>3, <3>4, <3>6 DEF Exacta
    <3> QED BY <2>3, <3>6, <3>7 DEF t
  <2>7. CASE cpu[c].pc = "segmentos" /\ cpu' = [cpu EXCEPT ![c].pc = "ejecuta", ![c].tabla = n]
    <3>1. Len(f) = 1 /\ f[1].t = "segmentos" /\ f[1].tabla = t
      BY <2>1, <2>7 DEF Exacta
    <3>2. n = t /\ Len(Tail(f)) = 0
      BY <2>2, <3>1 DEF n
    <3>6. /\ cpu'[c].pc = "ejecuta" /\ cpu'[c].tabla = n /\ cpu'[c].pid = cpu[c].pid
          /\ cpu'[c].instr.t = "instruccion"
      BY <1>3, <2>4, <2>7
    <3> HIDE DEF f, q, t
    <3>7. Exacta(cpu'[c], q, Tail(f), t)
      BY <2>4, <3>2, <3>6 DEF Exacta
    <3> QED BY <2>3, <3>6, <3>7 DEF t
  <2> QED BY <1>1, <2>5, <2>6, <2>7
<1> QED BY <1>0, <1>1, <1>4, ExactasDeCPU

\* Every step of a CPU.
LEMMA ExactasDeCiclo ==
  ASSUME Tipos, Fases, Exactas, NEW c \in CPUs, Ciclo(c)
  PROVE  Exactas'
<1>0. TiposDeCPU
  BY DEF Tipos
<1>1. CASE recibir_mapa(c) \/ recibirInstruccion(c) \/ actualizar_tabla_segmentos(c)
  BY <1>0, <1>1, Exactas_recibir_mapa, Exactas_recibirInstruccion, Exactas_actualizar_tabla_segmentos
<1>2. CASE \/ esperar_pid(c) \/ recibirContexto(c) \/ ejecutar(c) \/ respuestaKS(c) \/ guardado(c)
           \/ okExit(c) \/ manejar_seg_fault(c) \/ atender_interrupcion_en_espera(c) \/ atender_interrupcion(c)
  <2>1. /\ \/ deKM' = deKM /\ cpu[c].pc \in {"ocioso", "ejecuta", "respKS", "interrupciones", "ackSegFault"}
           \/ /\ deKM[c] # <<>> /\ deKM' = [deKM EXCEPT ![c] = Tail(@)]
              /\ cpu[c].pc \in {"mapaBuf", "contexto", "okGuarda", "okExit"}
        /\ cpu'[c].pc \in Descansos
    BY <1>0, <1>2, CalladasDeCiclo
  <2>2. UNCHANGED <<km, sesion, aviso>> /\ desvios \subseteq desvios'
    BY CicloProceso, DesviosDeCiclo
  <2>3. \A d \in CPUs \ {c} : cpu'[d] = cpu[d] /\ aKM'[d] = aKM[d]
    BY <1>0, CicloSuyo
  <2> QED BY <1>0, <2>1, <2>2, <2>3, ExactasCalla
<1> QED BY <1>1, <1>2 DEF Ciclo

\* What is left after fewer requests, with nothing on its way to the CPU.
LEMMA ExactaMenos ==
  ASSUME NEW k, NEW q, NEW u, NEW f, NEW g, NEW t, Exacta(k, q, f, t), Len(f) = 0, Len(g) = 0,
         Len(q) \in Nat, Len(u) \in Nat, Len(u) <= Len(q)
  PROVE  Exacta(k, u, g, t)
<1> DEFINE n == Len(q)
           m == Len(u)
           l == Len(f)
           h == Len(g)
<1>1. n \in Nat /\ m \in Nat /\ m <= n /\ l = 0 /\ h = 0
  OBVIOUS
<1>2. /\ k.pc \notin {"mapaBuf", "instruccion", "tabla", "segmentos"} \/ k.pc = "fin"
      /\ k.pc \in {"tabla", "segmentos", "ejecuta"} => k.instr.t = "instruccion"
      /\ k.pc = "ejecuta" => t = 0 \/ k.tabla = t
      /\ k.pc = "contexto" => n <= 1
  BY DEF Exacta, ConTabla
<1> HIDE DEF n, m, l, h
<1>3. h <= 1 /\ (n <= 1 => m <= 1)
  BY <1>1
<1>4. Len(g) = 0 /\ Len(g) <= 1 /\ (k.pc = "contexto" => Len(u) <= 1)
  BY <1>1, <1>2, <1>3 DEF h, m
<1> QED BY <1>2, <1>4 DEF Exacta

\* Who sends the request a session reads, when nothing is on its way to the CPU.
LEMMA QuienPide ==
  ASSUME NEW k \in Registros, NEW s, NEW q \in Seq(Tramas), NEW f, NEW t, Fase(k, s, q, f),
         Exacta(k, q, f, t), Len(f) = 0, q # <<>>, k.pc # "fin"
  PROVE  /\ q[1].t = "INIT" => k.pc = "mapaCod" /\ Len(q) = 1
         /\ q[1].t = "FETCH" => k.pc = "respuesta" /\ Len(q) = 2 /\ s.pid = k.pid
         /\ q[1].t \in {"INTERRUPT", "EXIT_CPU"} => k.pc \in {"okGuarda", "okExit"} /\ Len(q) = 3
         /\ s.pc = "pidInit" => k.pc = "contexto" /\ Len(q) = 1
<1> DEFINE n == Len(q)
<1>1. n \in Nat
  BY LenProperties
<1>2. /\ k.pc \notin {"mapaBuf", "instruccion", "tabla", "segmentos"}
      /\ k.pc = "ejecuta" => k.instr.t = "instruccion"
      /\ k.pc = "contexto" => n <= 1
  BY DEF Exacta, ConTabla
<1>3. k.pc \in {"ocioso", "mapaCod", "contexto", "respuesta", "ejecuta", "respKS", "interrupciones",
               "okGuarda", "okExit", "ackSegFault"}
  BY <1>2 DEF Registros, Etapas
<1>4. k.pc \notin {"ejecuta", "respKS", "interrupciones", "ackSegFault"}
  BY <1>2 DEF Fase, Quieto
<1>5. CASE k.pc = "ocioso"
  BY <1>5 DEF Fase, EnOcioso
<1>6. CASE k.pc = "mapaCod"
  BY <1>6 DEF Fase, EnMapa
<1>7. CASE k.pc = "contexto"
  <2>1. EnContexto(k, s, q, f) /\ (n = 1 \/ n = 2 \/ n = 3) /\ n <= 1
    BY <1>2, <1>7 DEF Fase, EnContexto
  <2>2. n # 2 /\ n # 3
    BY <2>1
  <2> QED BY <1>7, <2>1, <2>2 DEF EnContexto
<1>8. CASE k.pc = "respuesta"
  BY <1>8 DEF Fase, EnRespuesta, PidLeido
<1>9. CASE k.pc \in {"okGuarda", "okExit"}
  BY <1>9 DEF Fase, EnGuarda, EnSalida
<1> QED BY <1>3, <1>4, <1>5, <1>6, <1>7, <1>8, <1>9

\* The answer to a FETCH is an error, or the instruction and then the table of the process.
LEMMA RespuestaExacta ==
  ASSUME TiposDeProceso, NEW p \in Procesos, NEW n
  PROVE  LET g == Respuesta(p, n) IN
         \/ Len(g) = 1 /\ g[1].t = "ERROR"
         \/ ConTabla(g, 3, Tabla(p)) /\ g[1].t = "OK" /\ g[2].t = "instruccion"
<1> DEFINE t == Tabla(p)
           a == Trama("ERROR")
           b == Trama("OK")
           e == [Trama("instruccion") EXCEPT !.pid = p, !.pc = n]
           x == Trama("VACIA")
           y == Trama("NO_VACIA")
           z == [Trama("segmentos") EXCEPT !.tabla = t]
<1>1. t \in Nat
  BY TablaTipo
<1>2. /\ "ERROR" \in TiposDeTrama \ {"pid", "contexto", "instruccion"}
      /\ "OK" \in TiposDeTrama \ {"pid", "contexto", "instruccion"}
      /\ "VACIA" \in TiposDeTrama \ {"pid", "contexto", "instruccion"}
      /\ "NO_VACIA" \in TiposDeTrama \ {"pid", "contexto", "instruccion"}
  BY DEF TiposDeTrama
<1>3. a.t = "ERROR"
  BY <1>2, TramaSimple
<1>4. b \in Tramas /\ b.t = "OK"
  BY <1>2, TramaSimple
<1>5. x \in Tramas /\ x.t = "VACIA"
  BY <1>2, TramaSimple
<1>6. y \in Tramas /\ y.t = "NO_VACIA"
  BY <1>2, TramaSimple
<1>7. z \in Tramas /\ z.t = "segmentos" /\ z.tabla = t
  <2>1. z = [t |-> "segmentos", pid |-> Nadie, pc |-> 0, tabla |-> t]
    BY DEF Trama
  <2>2. \A m \in Nat : LET d == [Trama("segmentos") EXCEPT !.tabla = m] IN d \in Tramas /\ d.t = "segmentos"
    BY TramasHechas
  <2>3. z \in Tramas
    BY <1>1, <2>2
  <2> QED BY <2>1, <2>3
<1>8. CASE n \notin DOMAIN Programa[p]
  <2>1. Respuesta(p, n) = <<a>>
    BY <1>8 DEF Respuesta, devolver_instruccion
  <2> HIDE DEF a
  <2>2. Len(<<a>>) = 1 /\ <<a>>[1] = a
    OBVIOUS
  <2> QED BY <1>3, <2>1, <2>2
<1>9. CASE n \in DOMAIN Programa[p]
  <2>1. e \in Tramas /\ e.t = "instruccion"
    BY <1>9, TramasHechas
  <2>2. devolver_instruccion(p, n) = <<e>>
    BY <1>9 DEF devolver_instruccion
  <2>3. notificar_segmentos_a_cpu(p) = IF t = 0 THEN <<x>> ELSE <<y, z>>
    BY DEF notificar_segmentos_a_cpu
  <2> HIDE DEF b, e, x, y, z, t
  <2>5. Respuesta(p, n) = <<b>> \o <<e>> \o (IF t = 0 THEN <<x>> ELSE <<y, z>>)
    BY <2>2, <2>3 DEF Respuesta, b
  <2> DEFINE w == <<b>> \o <<e>>
             v == IF t = 0 THEN <<x>> ELSE <<y, z>>
  <2>6. <<b>> \in Seq(Tramas) /\ <<e>> \in Seq(Tramas) /\ v \in Seq(Tramas)
    BY <1>4, <1>5, <1>6, <1>7, <2>1
  <2>7. Len(<<b>>) = 1 /\ Len(<<e>>) = 1 /\ <<b>>[1] = b /\ <<e>>[1] = e
    OBVIOUS
  <2>8. w \in Seq(Tramas) /\ Len(w) = 2 /\ w[1] = b /\ w[2] = e
    <3>1. /\ w \in Seq(Tramas) /\ Len(w) = Len(<<b>>) + Len(<<e>>)
          /\ \A i \in 1..(Len(<<b>>) + Len(<<e>>)) :
               w[i] = IF i <= Len(<<b>>) THEN <<b>>[i] ELSE <<e>>[i - Len(<<b>>)]
      BY <2>6, ConcatProperties
    <3> HIDE DEF w
    <3> QED BY <2>7, <3>1
  <2>9. /\ t = 0 => Len(v) = 1 /\ v[1] = x
        /\ t # 0 => Len(v) = 2 /\ v[1] = y /\ v[2] = z
    OBVIOUS
  <2> DEFINE g == w \o v
  <2> HIDE DEF w, v
  <2>10. /\ Len(g) = Len(w) + Len(v)
         /\ \A i \in 1..(Len(w) + Len(v)) : g[i] = IF i <= Len(w) THEN w[i] ELSE v[i - Len(w)]
    BY <2>6, <2>8, ConcatProperties
  <2>11. Respuesta(p, n) = g
    BY <2>5 DEF w, v
  <2> HIDE DEF g
  <2> DEFINE m == Len(w)
             l == Len(v)
  <2>14. Len(g) = m + l /\ \A i \in 1..(m + l) : g[i] = IF i <= m THEN w[i] ELSE v[i - m]
    BY <2>10
  <2>12. CASE t = 0
    <3>2. m = 2 /\ l = 1
      BY <2>8, <2>9, <2>12
    <3> HIDE DEF m, l
    <3>3. /\ Len(g) = 3 /\ 1 \in 1..(m + l) /\ 2 \in 1..(m + l) /\ 3 \in 1..(m + l)
          /\ 1 <= m /\ 2 <= m /\ ~(3 <= m) /\ 3 - m = 1
      BY <2>14, <3>2
    <3>1. Len(g) = 3 /\ g[1] = b /\ g[2] = e /\ g[3] = x
      BY <2>8, <2>9, <2>12, <2>14, <3>3
    <3> QED BY <1>4, <1>5, <2>1, <2>11, <2>12, <3>1 DEF ConTabla, t
  <2>13. CASE t # 0
    <3>3. m = 2 /\ l = 2
      BY <2>8, <2>9, <2>13
    <3> HIDE DEF m, l
    <3>4. /\ Len(g) = 4 /\ 1 \in 1..(m + l) /\ 2 \in 1..(m + l) /\ 3 \in 1..(m + l) /\ 4 \in 1..(m + l)
          /\ 1 <= m /\ 2 <= m /\ ~(3 <= m) /\ ~(4 <= m) /\ 3 - m = 1 /\ 4 - m = 2 /\ 3 + 1 = 4
      BY <2>14, <3>3
    <3>1. Len(g) = 3 + 1 /\ g[1] = b /\ g[2] = e /\ g[3] = y /\ g[3 + 1] = z
      BY <2>8, <2>9, <2>13, <2>14, <3>4
    <3>2. ConTabla(g, 3, t)
      BY <1>6, <1>7, <2>13, <3>1 DEF ConTabla
    <3> QED BY <1>4, <2>1, <2>11, <3>1, <3>2 DEF t
  <2> QED BY <2>12, <2>13
<1> QED BY <1>8, <1>9

\* Where the answer of Kernel Memory about the table is waited for or has just come.
ConLaTabla == {"respuesta", "instruccion", "tabla", "segmentos", "ejecuta"}

\* A step of Kernel Memory, which does not change the table of a process that runs.
LEMMA ExactasDeKM ==
  ASSUME Exactas, UNCHANGED <<cpu, aviso>>, desvios \subseteq desvios',
         \A d \in CPUs : cpu[d].pc \in ConLaTabla => Tabla(cpu[d].pid)' = Tabla(cpu[d].pid),
         \A d \in CPUs : EnOrden(desvios) => Exacta(cpu[d], aKM'[d], Flujo(d)', Tabla(cpu[d].pid))
  PROVE  Exactas'
<1> SUFFICES ASSUME EnOrden(desvios')
             PROVE  aviso' = <<>> /\ \A d \in CPUs : ExactaDe(d)'
  BY DEF Exactas
<1>1. EnOrden(desvios) /\ aviso = <<>>
  BY DEF Exactas, EnOrden
<1>2. ASSUME NEW d \in CPUs PROVE ExactaDe(d)'
  <2> DEFINE t == Tabla(cpu[d].pid)
             w == Tabla(cpu[d].pid)'
             f == Flujo(d)'
             q == aKM'[d]
             k == cpu[d]
  <2>1. Exacta(k, q, f, t) /\ (k.pc \in ConLaTabla => w = t)
    BY <1>1
  <2> HIDE DEF t, w, f, q, k
  <2>2. Exacta(k, q, f, w)
    BY <2>1 DEF Exacta, ConLaTabla
  <2>3. ExactaDe(d)' = Exacta(k, q, f, w)
    BY DEF ExactaDe, k, q, f, w
  <2> QED BY <2>2, <2>3
<1> QED BY <1>1, <1>2

\* A step of the session of c, which now has g to write: the rest has not changed.
LEMMA ExactasDeSesion ==
  ASSUME TiposDeCPU, Exactas, NEW c \in CPUs, NEW r \in Sesiones, NEW u \in Seq(Tramas),
         sesion' = [sesion EXCEPT ![c] = r], aKM' = [aKM EXCEPT ![c] = u],
         UNCHANGED <<cpu, aviso, deKM>>, desvios \subseteq desvios',
         \A p \in Procesos : Tabla(p)' = Tabla(p), Fases,
         EnOrden(desvios) => Exacta(cpu[c], u, deKM[c] \o r.envio, Tabla(cpu[c].pid))
  PROVE  Exactas'
<1>1. \A d \in CPUs : cpu[d].pc \in ConLaTabla => Tabla(cpu[d].pid)' = Tabla(cpu[d].pid)
  <2> SUFFICES ASSUME NEW d \in CPUs, cpu[d].pc \in ConLaTabla PROVE cpu[d].pid \in Procesos
    OBVIOUS
  <2>1. Fase(cpu[d], sesion[d], aKM[d], Flujo(d))
    BY DEF Fases
  <2> QED BY <2>1 DEF Fase, ConLaTabla
<1>2. ASSUME NEW d \in CPUs, EnOrden(desvios)
      PROVE  Exacta(cpu[d], aKM'[d], Flujo(d)', Tabla(cpu[d].pid))
  <2>1. CASE d = c
    <3>1. aKM'[c] = u /\ sesion'[c] = r
      BY DEF TiposDeCPU
    <3>2. Flujo(c)' = deKM[c] \o r.envio
      BY <3>1 DEF Flujo
    <3> QED BY <1>2, <2>1, <3>1, <3>2
  <2>2. CASE d # c
    <3>1. aKM'[d] = aKM[d] /\ sesion'[d] = sesion[d]
      BY <2>2 DEF TiposDeCPU
    <3>2. Flujo(d)' = Flujo(d)
      BY <3>1 DEF Flujo
    <3> QED BY <1>2, <3>1, <3>2 DEF Exactas, ExactaDe
  <2> QED BY <2>1, <2>2
<1> QED BY <1>1, <1>2, ExactasDeKM

\* The session of c reads n frames, and writes g if its CPU waits for it.
LEMMA ExactasAtiende ==
  ASSUME TiposDeCPU, Fases, Exactas, NEW c \in CPUs, NEW pc, NEW n \in {1, 2, 3}, Atiende(c, pc, n),
         NEW r \in Sesiones, sesion' = [sesion EXCEPT ![c] = r],
         UNCHANGED <<cpu, aviso, deKM>>, desvios \subseteq desvios',
         \A p \in Procesos : Tabla(p)' = Tabla(p),
         /\ EnOrden(desvios) /\ cpu[c].pc # "fin" /\ aKM[c] # <<>>
         /\ Fase(cpu[c], sesion[c], aKM[c], Flujo(c)) /\ Len(Flujo(c)) = 0
         /\ Exacta(cpu[c], aKM[c], Flujo(c), Tabla(cpu[c].pid))
         => Exacta(cpu[c], Resto(aKM[c], n), r.envio, Tabla(cpu[c].pid))
  PROVE  Exactas'
<1> DEFINE u == Resto(aKM[c], n)
           f == Flujo(c)
           q == aKM[c]
           t == Tabla(cpu[c].pid)
           k == cpu[c]
           g == r.envio
           s == sesion[c]
<1>1. /\ Len(q) >= n /\ f = deKM[c] /\ aKM' = [aKM EXCEPT ![c] = u] /\ u \in Seq(Tramas)
  BY AtiendeEs
<1>2. q \in Seq(Tramas) /\ f \in Seq(Tramas) /\ g \in Seq(Tramas)
  BY TiposDe DEF Sesiones
<1>3. Len(q) \in Nat /\ (Len(q) = 0 <=> q = <<>>) /\ Len(f) \in Nat /\ (Len(f) = 0 <=> f = <<>>)
  BY <1>2, ColaDe
<1>4. Len(q) # 0 /\ q # <<>>
  <2> DEFINE m == Len(q)
  <2>1. m \in Nat /\ m >= n
    BY <1>1, <1>3
  <2> HIDE DEF m
  <2>2. m # 0
    BY <2>1
  <2> QED BY <2>2, <1>3 DEF m
<1>5. ASSUME EnOrden(desvios) PROVE Exacta(k, u, deKM[c] \o g, t)
  <2>1. CASE k.pc = "fin"
    BY <2>1, ExactaDeFin
  <2>2. CASE k.pc # "fin"
    <3>1. Exacta(k, q, f, t) /\ Fase(k, s, q, f)
      BY <1>5 DEF Exactas, ExactaDe, Fases
    <3>2. Len(f) = 0
      BY <1>4, <2>2, <3>1 DEF Exacta
    <3>3. deKM[c] \o g = g
      BY <1>1, <1>2, <1>3, <3>2, ConcatEmptySeq
    <3>4. Exacta(k, u, g, t)
      BY <1>4, <1>5, <2>2, <3>1, <3>2
    <3> QED BY <3>3, <3>4
  <2> QED BY <2>1, <2>2
<1> HIDE DEF u, g
<1>6. EnOrden(desvios) => Exacta(cpu[c], u, deKM[c] \o r.envio, Tabla(cpu[c].pid))
  BY <1>5 DEF g
<1> QED BY <1>1, <1>6, ExactasDeSesion

\* The context that is saved does not change the tables.
LEMMA TablaAlGuardar ==
  ASSUME TiposDeCPU, TiposDeProceso, NEW c \in CPUs, actualizar_contexto(c)
  PROVE  \A p \in Procesos : Tabla(p)' = Tabla(p)
<1> DEFINE x == aKM[c][3]
<1> HIDE DEF x
<1>1. km' = IF km[x.pid].vivo THEN [km EXCEPT ![x.pid].pc = x.pc] ELSE km
  BY DEF actualizar_contexto, x
<1> SUFFICES ASSUME NEW p \in Procesos PROVE Tabla(p)' = Tabla(p)
  OBVIOUS
<1>2. km \in [Procesos -> Memorias] /\ km[p] \in Memorias
  BY DEF TiposDeProceso
<1>3. km'[p].segmentos = km[p].segmentos /\ km'[p].cambios = km[p].cambios
  BY <1>1, <1>2 DEF Memorias
<1> QED BY <1>3 DEF Tabla

\* A frame is read and dropped.
LEMMA ExactasDescarta ==
  ASSUME TiposDeCPU, Fases, Exactas, NEW c \in CPUs, NEW pc, NEW n \in {1, 2, 3}, Atiende(c, pc, n),
         NEW r \in Sesiones, r.envio = <<>>, sesion' = [sesion EXCEPT ![c] = r],
         UNCHANGED <<cpu, aviso, deKM, km>>, desvios \subseteq desvios'
  PROVE  Exactas'
<1> DEFINE u == Resto(aKM[c], n)
           f == Flujo(c)
           q == aKM[c]
           t == Tabla(cpu[c].pid)
           k == cpu[c]
           g == r.envio
<1>1. Len(q) >= n
  BY AtiendeEs
<1>2. q \in Seq(Tramas) /\ Len(q) \in Nat
  BY TiposDe, LenProperties
<1>3. Len(u) = Len(q) - n
  <2> HIDE DEF q
  <2>1. n <= Len(q)
    BY <1>1, <1>2
  <2>2. Len(Resto(q, n)) = Len(q) - n
    BY <1>2, <2>1, RestoEs
  <2> QED BY <2>2 DEF q
<1>4. Len(g) = 0
  BY EmptySeq
<1>5. Len(u) \in Nat /\ Len(u) <= Len(q)
  <2> DEFINE l == Len(q)
             m == Len(u)
  <2>1. l \in Nat /\ l >= n /\ m = l - n
    BY <1>1, <1>2, <1>3
  <2> HIDE DEF l, m
  <2>2. m \in Nat /\ m <= l
    BY <2>1
  <2> QED BY <2>2 DEF l, m
<1>6. Exacta(k, q, f, t) /\ Len(f) = 0 => Exacta(k, u, g, t)
  <2> HIDE DEF k, q, f, t, u, g
  <2> QED BY <1>2, <1>4, <1>5, ExactaMenos
<1>7. \A p \in Procesos : Tabla(p)' = Tabla(p)
  BY DEF Tabla
<1> QED BY <1>6, <1>7, ExactasAtiende

\* The last request of a process is answered with one frame.
LEMMA ExactasUltima ==
  ASSUME Tipos, Fases, Exactas, NEW c \in CPUs, NEW pc, Atiende(c, pc, 3),
         Pedido(c).t \in {"INTERRUPT", "EXIT_CPU"}, actualizar_contexto(c), Sigue(c, "mensaje", <<Trama("OK")>>),
         UNCHANGED <<cpu, aviso, deKM>>, desvios \subseteq desvios'
  PROVE  Exactas'
<1>0. TiposDeCPU /\ TiposDeProceso
  BY DEF Tipos
<1> DEFINE u == Resto(aKM[c], 3)
           f == Flujo(c)
           q == aKM[c]
           t == Tabla(cpu[c].pid)
           k == cpu[c]
           e == Trama("OK")
           g == <<e>>
           s == sesion[c]
           r == Seguida(s, "mensaje", g)
<1>1. Len(q) >= 3 /\ q \in Seq(Tramas) /\ Len(q) \in Nat /\ k \in Registros
  BY <1>0, AtiendeEs, TiposDe, LenProperties
<1>2. g \in Seq(Tramas) /\ "mensaje" \in EtapasKM /\ Sigue(c, "mensaje", g)
  BY EscritosPorKM, EtapasDeKM
<1>8. Len(g) = 1
  BY DEF g
<1> HIDE DEF g
<1>3. r \in Sesiones /\ sesion' = [sesion EXCEPT ![c] = r] /\ r.envio = g
  BY <1>0, <1>2, SigueTipo
<1>4. \A p \in Procesos : Tabla(p)' = Tabla(p)
  BY <1>0, TablaAlGuardar
<1>5. ASSUME k.pc # "fin", q # <<>>, Fase(k, s, q, f), Len(f) = 0, Exacta(k, q, f, t)
      PROVE  Exacta(k, u, g, t)
  <2>1. q[1].t \in {"INTERRUPT", "EXIT_CPU"}
    BY <1>1, <1>5 DEF Pedido
  <2> HIDE DEF k, s, q, f, t
  <2>2. k.pc \in {"okGuarda", "okExit"} /\ Len(q) = 3
    BY <1>1, <1>5, <2>1, QuienPide
  <2>3. Len(Resto(q, 3)) = 0
    <3>1. q \in Seq(Tramas) /\ 3 \in {1, 2, 3} /\ 3 <= Len(q)
      BY <1>1, <2>2
    <3>2. Len(Resto(q, 3)) = Len(q) - 3
      BY <3>1, RestoEs
    <3> QED BY <2>2, <3>2
  <2>4. Len(u) = 0
    BY <2>3 DEF q
  <2> DEFINE l == Len(g)
  <2>5. l = 1
    BY <1>8
  <2> HIDE DEF l, u
  <2>6. l <= 1
    BY <2>5
  <2>7. Len(g) <= 1
    BY <2>6 DEF l
  <2> QED BY <2>2, <2>4, <2>7 DEF Exacta
<1>6. /\ EnOrden(desvios) /\ cpu[c].pc # "fin" /\ aKM[c] # <<>>
      /\ Fase(cpu[c], sesion[c], aKM[c], Flujo(c)) /\ Len(Flujo(c)) = 0
      /\ Exacta(cpu[c], aKM[c], Flujo(c), Tabla(cpu[c].pid))
      => Exacta(cpu[c], Resto(aKM[c], 3), r.envio, Tabla(cpu[c].pid))
  <2>1. r.envio = g
    BY <1>3
  <2> HIDE DEF r
  <2> QED BY <1>5, <2>1
<1> HIDE DEF r
<1> QED BY <1>0, <1>3, <1>4, <1>6, ExactasAtiende

\* The map is written for a CPU that waits for it and for nothing else.
LEMMA Exactas_atender_mensaje_cpu ==
  ASSUME Tipos, Fases, Exactas, NEW c \in CPUs, atender_mensaje_cpu(c)
  PROVE  Exactas'
<1>0. TiposDeCPU /\ TiposDeProceso
  BY DEF Tipos
<1>1. UNCHANGED <<cpu, deKM, aviso>> /\ desvios \subseteq desvios'
  BY DEF atender_mensaje_cpu, SoloSesion
<1> DEFINE f == Flujo(c)
           q == aKM[c]
           t == Tabla(cpu[c].pid)
           k == cpu[c]
           s == sesion[c]
<1>2. CASE Atiende(c, "mensaje", 1) /\ Pedido(c).t = "INIT"
           /\ Sigue(c, "pidInit", <<Trama("MAPA"), Trama("mapa")>>) /\ UNCHANGED km
  <2> DEFINE u == Resto(aKM[c], 1)
             a == Trama("MAPA")
             b == Trama("mapa")
             g == <<a, b>>
             r == Seguida(s, "pidInit", g)
  <2>1. Len(q) >= 1 /\ q \in Seq(Tramas) /\ Len(q) \in Nat /\ k \in Registros
    BY <1>0, <1>2, AtiendeEs, TiposDe, LenProperties
  <2>2. g \in Seq(Tramas) /\ "pidInit" \in EtapasKM /\ Sigue(c, "pidInit", g)
    BY <1>2, EscritosPorKM, EtapasDeKM
  <2>3. Len(g) = 2 /\ g[1].t = "MAPA" /\ g[2].t = "mapa"
    BY DEF Trama
  <2> HIDE DEF g
  <2>4. r \in Sesiones /\ sesion' = [sesion EXCEPT ![c] = r] /\ r.envio = g
    BY <1>0, <2>2, SigueTipo
  <2>5. \A p \in Procesos : Tabla(p)' = Tabla(p)
    BY <1>2 DEF Tabla
  <2>6. ASSUME k.pc # "fin", q # <<>>, Fase(k, s, q, f), Len(f) = 0, Exacta(k, q, f, t)
        PROVE  Exacta(k, u, g, t)
    <3>1. q[1].t = "INIT"
      BY <1>2, <2>1, <2>6 DEF Pedido
    <3> HIDE DEF k, s, q, f, t
    <3>2. k.pc = "mapaCod" /\ Len(q) = 1
      BY <2>1, <2>6, <3>1, QuienPide
    <3>3. q \in Seq(Tramas) /\ 1 \in {1, 2, 3} /\ 1 <= Len(q)
      BY <2>1, <3>2
    <3>4. Len(Resto(q, 1)) = Len(q) - 1
      BY <3>3, RestoEs
    <3>5. Len(u) = 0
      BY <3>2, <3>4 DEF q
    <3> HIDE DEF u
    <3> QED BY <2>3, <3>2, <3>5 DEF Exacta
  <2>7. /\ EnOrden(desvios) /\ cpu[c].pc # "fin" /\ aKM[c] # <<>>
        /\ Fase(cpu[c], sesion[c], aKM[c], Flujo(c)) /\ Len(Flujo(c)) = 0
        /\ Exacta(cpu[c], aKM[c], Flujo(c), Tabla(cpu[c].pid))
        => Exacta(cpu[c], Resto(aKM[c], 1), r.envio, Tabla(cpu[c].pid))
    <3>1. r.envio = g
      BY <2>4
    <3> HIDE DEF r
    <3> QED BY <2>6, <3>1
  <2> HIDE DEF r
  <2> QED BY <1>0, <1>1, <1>2, <2>4, <2>5, <2>7, ExactasAtiende
<1>3. CASE Atiende(c, "mensaje", 3) /\ Pedido(c).t = "INTERRUPT"
           /\ Sigue(c, "mensaje", <<Trama("OK")>>) /\ actualizar_contexto(c)
  BY <1>1, <1>3, ExactasUltima
<1>4. CASE Atiende(c, "mensaje", 1) /\ UNCHANGED <<sesion, km>>
  <2>1. s \in Sesiones /\ s.envio = <<>> /\ sesion' = [sesion EXCEPT ![c] = s]
    BY <1>0, <1>4 DEF TiposDeCPU, Atiende
  <2> QED BY <1>0, <1>1, <1>4, <2>1, ExactasDescarta
<1> QED BY <1>2, <1>3, <1>4 DEF atender_mensaje_cpu

\* The context is written for a CPU that waits for it and for nothing else.
LEMMA Exactas_inicializar_proceso ==
  ASSUME Tipos, Fases, Exactas, NEW c \in CPUs, inicializar_proceso(c)
  PROVE  Exactas'
<1>0. TiposDeCPU /\ TiposDeProceso
  BY DEF Tipos
<1>1. UNCHANGED <<cpu, deKM, aviso, km>> /\ desvios \subseteq desvios' /\ Atiende(c, "pidInit", 1)
  BY DEF inicializar_proceso, SoloSesion, Desvio
<1> DEFINE f == Flujo(c)
           q == aKM[c]
           t == Tabla(cpu[c].pid)
           k == cpu[c]
           s == sesion[c]
           u == Resto(aKM[c], 1)
           p == Pedido(c).pid
           e == [Trama("contexto") EXCEPT !.pid = p, !.pc = km[p].pc, !.tabla = Tabla(p)]
<1>2. PICK r \in Sesiones : sesion' = [sesion EXCEPT ![c] = r] /\ (Len(r.envio) = 0 \/ Len(r.envio) = 1)
  <2>1. sesion[c] \in Sesiones /\ sesion'[c] \in Sesiones
    BY <1>0, inicializar_procesoPaso DEF TiposDeCPU
  <2>2. CASE km[p].vivo
    <3> DEFINE r == [pc |-> "lazo", pid |-> p, envio |-> <<e>>]
    <3>1. sesion' = [sesion EXCEPT ![c] = r]
      BY <2>2 DEF inicializar_proceso
    <3> HIDE DEF e, p
    <3>2. r.envio = <<e>>
      OBVIOUS
    <3>3. Len(<<e>>) = 1
      OBVIOUS
    <3>4. sesion'[c] = r
      BY <1>0, <3>1 DEF TiposDeCPU
    <3>5. r \in Sesiones
      BY <2>1, <3>4
    <3> HIDE DEF r
    <3> QED BY <3>1, <3>2, <3>3, <3>5
  <2>3. CASE ~km[p].vivo
    <3> DEFINE v == <<>>
               l == "mensaje"
    <3>1. Sigue(c, l, v) /\ v \in Seq(Tramas) /\ l \in EtapasKM
      BY <2>3, EtapasDeKM DEF inicializar_proceso
    <3>4. Len(v) = 0
      OBVIOUS
    <3> DEFINE r == Seguida(s, l, v)
    <3> HIDE DEF v, l, e, p
    <3>2. r \in Sesiones /\ sesion' = [sesion EXCEPT ![c] = r] /\ r.envio = v
      BY <1>0, <3>1, SigueTipo
    <3>3. Len(r.envio) = 0
      BY <3>2, <3>4
    <3> HIDE DEF r
    <3> QED BY <3>2, <3>3
  <2> QED BY <2>2, <2>3
<1> DEFINE g == r.envio
<1>3. Len(q) >= 1 /\ q \in Seq(Tramas) /\ Len(q) \in Nat /\ k \in Registros /\ s.pc = "pidInit"
  BY <1>0, <1>1, AtiendeEs, TiposDe, LenProperties
<1>4. ASSUME k.pc # "fin", q # <<>>, Fase(k, s, q, f), Len(f) = 0, Exacta(k, q, f, t)
      PROVE  Exacta(k, u, g, t)
  <2> HIDE DEF k, s, q, f, t
  <2>1. k.pc = "contexto" /\ Len(q) = 1
    BY <1>3, <1>4, QuienPide
  <2>2. q \in Seq(Tramas) /\ 1 \in {1, 2, 3} /\ 1 <= Len(q)
    BY <1>3, <2>1
  <2>3. Len(Resto(q, 1)) = Len(q) - 1
    BY <2>2, RestoEs
  <2> DEFINE l == Len(g)
             m == Len(u)
  <2>4. m = 0 /\ (l = 0 \/ l = 1)
    BY <1>2, <2>1, <2>3 DEF q
  <2> HIDE DEF l, m, u, g
  <2>5. l <= 1 /\ m <= 1
    BY <2>4
  <2>6. Len(g) <= 1 /\ Len(u) <= 1 /\ Len(u) = 0
    BY <2>4, <2>5 DEF l, m
  <2> QED BY <2>1, <2>6 DEF Exacta
<1>5. \A x \in Procesos : Tabla(x)' = Tabla(x)
  BY <1>1 DEF Tabla
<1>6. /\ EnOrden(desvios) /\ cpu[c].pc # "fin" /\ aKM[c] # <<>>
      /\ Fase(cpu[c], sesion[c], aKM[c], Flujo(c)) /\ Len(Flujo(c)) = 0
      /\ Exacta(cpu[c], aKM[c], Flujo(c), Tabla(cpu[c].pid))
      => Exacta(cpu[c], Resto(aKM[c], 1), r.envio, Tabla(cpu[c].pid))
  BY <1>4
<1> QED BY <1>0, <1>1, <1>2, <1>5, <1>6, ExactasAtiende

\* Nothing is read or written.
LEMMA Exactas_existe_proceso ==
  ASSUME Tipos, Fases, Exactas, NEW c \in CPUs, existe_proceso(c)
  PROVE  Exactas'
<1>0. TiposDeCPU
  BY DEF Tipos
<1> DEFINE q == aKM[c]
           pc == IF km[sesion[c].pid].vivo THEN "pedido" ELSE "mensaje"
           v == <<>>
<1>1. /\ UNCHANGED <<cpu, deKM, aviso, km>> /\ desvios \subseteq desvios' /\ sesion[c].envio = v
      /\ aKM' = [aKM EXCEPT ![c] = SubSeq(q, 0 + 1, Len(q))] /\ Sigue(c, pc, v)
  BY DEF existe_proceso, SoloSesion, Atiende
<1>2. q \in Seq(Tramas) /\ v \in Seq(Tramas) /\ pc \in EtapasKM
  BY <1>0, TiposDe, EtapasDeKM
<1> HIDE DEF pc, v
<1>3. SubSeq(q, 0 + 1, Len(q)) = q
  BY <1>2, SubSeqFull
<1> DEFINE r == Seguida(sesion[c], pc, v)
<1>4. r \in Sesiones /\ sesion' = [sesion EXCEPT ![c] = r] /\ r.envio = v
  BY <1>0, <1>1, <1>2, SigueTipo
<1> HIDE DEF r
<1>5. EnOrden(desvios) => Exacta(cpu[c], q, deKM[c] \o r.envio, Tabla(cpu[c].pid))
  BY <1>1, <1>4 DEF Exactas, ExactaDe, Flujo
<1>6. \A p \in Procesos : Tabla(p)' = Tabla(p)
  BY <1>1 DEF Tabla
<1>7. aKM' = [aKM EXCEPT ![c] = q]
  BY <1>1, <1>3
<1> QED BY <1>0, <1>1, <1>2, <1>4, <1>5, <1>6, <1>7, ExactasDeSesion

\* The answer to FETCH carries the table of the process of the CPU that asked.
LEMMA Exactas_manejar_proceso ==
  ASSUME Tipos, Fases, Exactas, NEW c \in CPUs, manejar_proceso(c)
  PROVE  Exactas'
<1>0. TiposDeCPU /\ TiposDeProceso
  BY DEF Tipos
<1>1. UNCHANGED <<cpu, deKM, aviso>> /\ desvios \subseteq desvios'
  BY DEF manejar_proceso, SoloSesion
<1> DEFINE f == Flujo(c)
           q == aKM[c]
           t == Tabla(cpu[c].pid)
           k == cpu[c]
           s == sesion[c]
<1>2. CASE /\ Atiende(c, "pedido", 2) /\ Pedido(c).t = "FETCH"
           /\ Sigue(c, "lazo", Respuesta(s.pid, aKM[c][2].pc)) /\ UNCHANGED km
  <2> DEFINE u == Resto(aKM[c], 2)
             p == s.pid
             n == aKM[c][2].pc
             g == Respuesta(p, n)
             r == Seguida(s, "lazo", g)
  <2>1. /\ Len(q) >= 2 /\ q \in Seq(Tramas) /\ Len(q) \in Nat /\ k \in Registros
        /\ s.pc = "pedido" /\ Fase(k, s, q, deKM[c])
    BY <1>0, <1>2, AtiendeEs, TiposDe, LenProperties
  <2>2. p \in Procesos
    BY <2>1 DEF Fase
  <2>3. g \in Seq(Tramas)
    BY <1>0, <2>2, RespuestaTipo
  <2>4. \/ Len(g) = 1 /\ g[1].t = "ERROR"
        \/ ConTabla(g, 3, Tabla(p)) /\ g[1].t = "OK" /\ g[2].t = "instruccion"
    BY <1>0, <2>2, RespuestaExacta
  <2>5. "lazo" \in EtapasKM /\ Sigue(c, "lazo", g)
    BY <1>2, EtapasDeKM
  <2> HIDE DEF g
  <2>6. r \in Sesiones /\ sesion' = [sesion EXCEPT ![c] = r] /\ r.envio = g
    BY <1>0, <2>3, <2>5, SigueTipo
  <2>7. \A x \in Procesos : Tabla(x)' = Tabla(x)
    BY <1>2 DEF Tabla
  <2>8. ASSUME k.pc # "fin", q # <<>>, Fase(k, s, q, f), Len(f) = 0, Exacta(k, q, f, t)
        PROVE  Exacta(k, u, g, t)
    <3>1. q[1].t = "FETCH"
      BY <1>2, <2>1, <2>8 DEF Pedido
    <3> HIDE DEF s, q, f
    <3>2. k.pc = "respuesta" /\ Len(q) = 2 /\ s.pid = k.pid
      <4> HIDE DEF k, t
      <4> QED BY <2>1, <2>8, <3>1, QuienPide
    <3>3. q \in Seq(Tramas) /\ 2 \in {1, 2, 3} /\ 2 <= Len(q)
      BY <2>1, <3>2
    <3>4. Len(Resto(q, 2)) = Len(q) - 2
      BY <3>3, RestoEs
    <3>5. Len(u) = 0
      BY <3>2, <3>4 DEF q
    <3>6. Tabla(p) = t
      BY <3>2
    <3> HIDE DEF u, k, t
    <3> QED BY <2>4, <3>2, <3>5, <3>6 DEF Exacta
  <2>9. /\ EnOrden(desvios) /\ cpu[c].pc # "fin" /\ aKM[c] # <<>>
        /\ Fase(cpu[c], sesion[c], aKM[c], Flujo(c)) /\ Len(Flujo(c)) = 0
        /\ Exacta(cpu[c], aKM[c], Flujo(c), Tabla(cpu[c].pid))
        => Exacta(cpu[c], Resto(aKM[c], 2), r.envio, Tabla(cpu[c].pid))
    <3>1. r.envio = g
      BY <2>6
    <3> HIDE DEF r
    <3> QED BY <2>8, <3>1
  <2> HIDE DEF r
  <2> QED BY <1>0, <1>1, <1>2, <2>6, <2>7, <2>9, ExactasAtiende
<1>3. CASE /\ Atiende(c, "pedido", 3) /\ Pedido(c).t \in {"INTERRUPT", "EXIT_CPU"}
           /\ Sigue(c, "mensaje", <<Trama("OK")>>) /\ actualizar_contexto(c)
  BY <1>1, <1>3, ExactasUltima
<1>4. CASE /\ Atiende(c, "pedido", 1) /\ UNCHANGED km
           /\ Sigue(c, IF Pedido(c).t = "SEG_FAULT" THEN "mensaje" ELSE "lazo", <<>>)
  <2> DEFINE l == IF Pedido(c).t = "SEG_FAULT" THEN "mensaje" ELSE "lazo"
             v == <<>>
             r == Seguida(s, l, v)
  <2>1. l \in EtapasKM /\ Sigue(c, l, v) /\ v \in Seq(Tramas)
    BY <1>4, EtapasDeKM
  <2>2. v = <<>>
    OBVIOUS
  <2> HIDE DEF l, v
  <2>3. r \in Sesiones /\ sesion' = [sesion EXCEPT ![c] = r] /\ r.envio = v
    BY <1>0, <2>1, SigueTipo
  <2> HIDE DEF r
  <2>4. r.envio = <<>>
    BY <2>2, <2>3
  <2> QED BY <1>0, <1>1, <1>4, <2>3, <2>4, ExactasDescarta
<1>5. \/ /\ Atiende(c, "pedido", 2) /\ Pedido(c).t = "FETCH"
         /\ Sigue(c, "lazo", Respuesta(s.pid, aKM[c][2].pc)) /\ UNCHANGED km
      \/ /\ Atiende(c, "pedido", 3) /\ Pedido(c).t \in {"INTERRUPT", "EXIT_CPU"}
         /\ Sigue(c, "mensaje", <<Trama("OK")>>) /\ actualizar_contexto(c)
      \/ /\ Atiende(c, "pedido", 1) /\ UNCHANGED km
         /\ Sigue(c, IF Pedido(c).t = "SEG_FAULT" THEN "mensaje" ELSE "lazo", <<>>)
  BY DEF manejar_proceso, Respuesta
<1> QED BY <1>2, <1>3, <1>4, <1>5

\* A frame that is written was already on its way.
LEMMA Exactas_enviar ==
  ASSUME Tipos, Fases, Exactas, NEW c \in CPUs, enviar(c)
  PROVE  Exactas'
<1> DEFINE s == sesion[c]
           e == Head(s.envio)
           r == [s EXCEPT !.envio = Tail(@)]
<1>0. TiposDeCPU
  BY DEF Tipos
<1>1. /\ s.envio # <<>> /\ deKM' = [deKM EXCEPT ![c] = Append(@, e)]
      /\ sesion' = [sesion EXCEPT ![c] = r]
      /\ UNCHANGED <<cpu, aKM, aviso, km, desvios>>
  BY DEF enviar, SoloSesion
<1>2. s \in Sesiones /\ s.envio \in Seq(Tramas) /\ deKM[c] \in Seq(Tramas)
  BY <1>0, TiposDe
<1>3. Tail(s.envio) \in Seq(Tramas)
  BY <1>1, <1>2, HeadTailProperties
<1>4. r.envio = Tail(s.envio)
  BY <1>2, <1>3 DEF Sesiones
<1>5. Append(deKM[c], e) \o r.envio = Flujo(c)
  BY <1>1, <1>2, <1>4, EscribirDelFlujo DEF Flujo
<1> HIDE DEF r, e
<1>6. \A d \in CPUs : Flujo(d)' = Flujo(d)
  <2> SUFFICES ASSUME NEW d \in CPUs PROVE Flujo(d)' = Flujo(d)
    OBVIOUS
  <2>1. CASE d = c
    <3>1. deKM'[c] = Append(deKM[c], e) /\ sesion'[c] = r
      BY <1>0, <1>1 DEF TiposDeCPU
    <3> QED BY <1>5, <2>1, <3>1 DEF Flujo
  <2>2. CASE d # c
    <3>1. deKM'[d] = deKM[d] /\ sesion'[d] = sesion[d]
      BY <1>0, <1>1, <2>2 DEF TiposDeCPU
    <3> QED BY <3>1 DEF Flujo
  <2> QED BY <2>1, <2>2
<1>7. \A d \in CPUs : cpu[d].pc \in ConLaTabla => Tabla(cpu[d].pid)' = Tabla(cpu[d].pid)
  BY <1>1 DEF Tabla
<1>8. \A d \in CPUs : EnOrden(desvios) => Exacta(cpu[d], aKM'[d], Flujo(d)', Tabla(cpu[d].pid))
  BY <1>1, <1>6 DEF Exactas, ExactaDe
<1> QED BY <1>1, <1>7, <1>8, ExactasDeKM

\* A step that touches neither a CPU, nor a session, nor the table of a process that runs.
LEMMA ExactasDeOtros ==
  ASSUME Exactas, UNCHANGED <<cpu, aKM, deKM, sesion, aviso>>, desvios \subseteq desvios',
         \A d \in CPUs : cpu[d].pc \in ConLaTabla => Tabla(cpu[d].pid)' = Tabla(cpu[d].pid)
  PROVE  Exactas'
<1>1. \A d \in CPUs : EnOrden(desvios) => Exacta(cpu[d], aKM'[d], Flujo(d)', Tabla(cpu[d].pid))
  <2>1. \A d \in CPUs : Flujo(d)' = Flujo(d)
    BY DEF Flujo
  <2> QED BY <2>1 DEF Exactas, ExactaDe
<1> QED BY <1>1, ExactasDeKM

\* A CPU in its cycle runs a process the scheduler has there, and no message of it waits.
LEMMA QuienCorre ==
  ASSUME TiposDeCPU, Turnos, NEW d \in CPUs, cpu[d].pc \in ConLaTabla
  PROVE  cpu[d].pid \in Procesos /\ ks.estado[cpu[d].pid] = "EXEC" /\ ks.en[cpu[d].pid] = d /\ aKS[d] = <<>>
<1>1. Turno(cpu[d], aKS[d], deKS[d], Suyos(ks, d), Libres(ks) \cap {d})
  BY DEF Turnos, TurnoDe
<1>2. cpu[d].pc \in EnMarcha
  BY DEF ConLaTabla, EnMarcha
<1>3. cpu[d].pid \in Suyos(ks, d) /\ aKS[d] = <<>>
  BY <1>1, <1>2 DEF Turno, Corre
<1> QED BY <1>3 DEF Suyos

\* The table of a process changes only with its own record.
LEMMA TablaDeOtro ==
  ASSUME TiposDeProceso, NEW p \in Procesos, NEW w, km' = [km EXCEPT ![p] = w]
  PROVE  \A r \in Procesos \ {p} : Tabla(r)' = Tabla(r)
<1>1. km \in [Procesos -> Memorias]
  BY DEF TiposDeProceso
<1>2. \A r \in Procesos \ {p} : km'[r] = km[r]
  BY <1>1
<1> QED BY <1>2 DEF Tabla

\* MEM_ALLOC and MEM_FREE change the table of a process whose CPU waits for the answer.
LEMMA Exactas_memoria ==
  ASSUME Tipos, Turnos, Exactas, NEW c \in CPUs, memoria(c)
  PROVE  Exactas'
<1> DEFINE p == Head(aKS[c]).pid
           delta == IF Mensaje(c, "MEM_ALLOC") THEN 1 ELSE -1
<1>0. TiposDeCPU /\ TiposDeProceso /\ km \in [Procesos -> Memorias]
  BY DEF Tipos, TiposDeProceso
<1>1. UNCHANGED <<cpu, aKM, deKM, sesion, aviso, desvios>> /\ aKS[c] # <<>>
  BY DEF memoria, SoloKS, Mensaje, Recibido
<1>2. p \in Procesos /\ ks.en[p] = c
  BY <1>0, <1>1, TurnoDelMensaje DEF Suyos
<1>3. km' = km \/ \E w : km' = [km EXCEPT ![p] = w]
  <2>1. km' = km \/ km' = [km EXCEPT ![p].segmentos = @ + delta, ![p].cambios = @ + 1]
    BY DEF memoria
  <2> HIDE DEF delta, p
  <2>2. ASSUME km' = [km EXCEPT ![p].segmentos = @ + delta, ![p].cambios = @ + 1]
        PROVE  \E w : km' = [km EXCEPT ![p] = w]
    <3> DEFINE m == [km[p] EXCEPT !.segmentos = km[p].segmentos + delta]
               w == [m EXCEPT !.cambios = km[p].cambios + 1]
    <3>1. km[p] \in Memorias
      BY <1>0, <1>2
    <3>3. km' = [km EXCEPT ![p] = [km[p] EXCEPT !.segmentos = km[p].segmentos + delta,
                                                !.cambios = km[p].cambios + 1]]
      BY <1>0, <1>2, <2>2, <3>1 DEF Memorias
    <3> QED BY <3>3
  <2> QED BY <2>1, <2>2
<1>4. \A d \in CPUs : cpu[d].pc \in ConLaTabla => Tabla(cpu[d].pid)' = Tabla(cpu[d].pid)
  <2> SUFFICES ASSUME NEW d \in CPUs, cpu[d].pc \in ConLaTabla
               PROVE  Tabla(cpu[d].pid)' = Tabla(cpu[d].pid)
    OBVIOUS
  <2>1. cpu[d].pid \in Procesos /\ ks.en[cpu[d].pid] = d /\ d # c
    BY <1>0, <1>1, QuienCorre
  <2>2. cpu[d].pid # p
    BY <1>2, <2>1
  <2> HIDE DEF p
  <2>3. CASE km' = km
    BY <1>1, <2>3 DEF Tabla
  <2>4. ASSUME NEW w, km' = [km EXCEPT ![p] = w] PROVE Tabla(cpu[d].pid)' = Tabla(cpu[d].pid)
    <3>1. \A r \in Procesos \ {p} : Tabla(r)' = Tabla(r)
      BY <1>0, <1>2, <2>4, TablaDeOtro
    <3> QED BY <1>1, <2>1, <2>2, <3>1
  <2> QED BY <1>3, <2>3, <2>4
<1> QED BY <1>1, <1>4, ExactasDeOtros

\* What is moved is of a process that no CPU runs, or there is nothing to keep.
LEMMA Exactas_reubicar ==
  ASSUME Tipos, Turnos, Exactas, NEW p \in Procesos, reubicar(p), EnOrden(desvios')
  PROVE  Exactas'
<1>0. TiposDeCPU /\ TiposDeProceso /\ km \in [Procesos -> Memorias]
  BY DEF Tipos, TiposDeProceso
<1>1. /\ UNCHANGED <<cpu, aKM, deKM, sesion, aviso>> /\ desvios \subseteq desvios'
      /\ ks.estado[p] # "EXEC"
  BY DEF reubicar, enCPU, Desvio, EnOrden
<1>2. PICK w : km' = [km EXCEPT ![p] = w]
  BY DEF reubicar
<1>3. \A r \in Procesos \ {p} : Tabla(r)' = Tabla(r)
  BY <1>0, <1>2, TablaDeOtro
<1>4. \A d \in CPUs : cpu[d].pc \in ConLaTabla => Tabla(cpu[d].pid)' = Tabla(cpu[d].pid)
  <2> SUFFICES ASSUME NEW d \in CPUs, cpu[d].pc \in ConLaTabla
               PROVE  Tabla(cpu[d].pid)' = Tabla(cpu[d].pid)
    OBVIOUS
  <2>1. cpu[d].pid \in Procesos \ {p}
    BY <1>0, <1>1, QuienCorre
  <2> QED BY <1>1, <1>3, <2>1
<1> QED BY <1>1, <1>4, ExactasDeOtros

\* The death of a process does not change its table.
LEMMA Exactas_km_notificar_exit ==
  ASSUME Tipos, Turnos, Exactas, NEW c \in CPUs, km_notificar_exit(c)
  PROVE  Exactas'
<1> DEFINE p == Head(aKS[c]).pid
<1>0. TiposDeCPU /\ km \in [Procesos -> Memorias]
  BY DEF Tipos, TiposDeProceso
<1>1. UNCHANGED <<cpu, aKM, deKM, sesion, aviso>> /\ desvios \subseteq desvios'
      /\ km' = [km EXCEPT ![p].vivo = FALSE]
  BY DEF km_notificar_exit, SoloKS, Desvio
<1> HIDE DEF p
<1>2. \A r \in Procesos : Tabla(r)' = Tabla(r)
  <2> SUFFICES ASSUME NEW r \in Procesos PROVE Tabla(r)' = Tabla(r)
    OBVIOUS
  <2>1. km'[r].segmentos = km[r].segmentos /\ km'[r].cambios = km[r].cambios
    BY <1>0, <1>1 DEF Memorias
  <2> QED BY <2>1 DEF Tabla
<1>3. \A d \in CPUs : cpu[d].pc \in ConLaTabla => Tabla(cpu[d].pid)' = Tabla(cpu[d].pid)
  BY <1>0, <1>1, <1>2, QuienCorre
<1> QED BY <1>1, <1>3, ExactasDeOtros

\* What is exactly on its way at the start: nothing.
LEMMA InicioDeExactas == Init => Exactas
<1> SUFFICES ASSUME Init PROVE Exactas
  OBVIOUS
<1> DEFINE v == <<>>
<1>1. /\ cpu = [c \in CPUs |-> CPUOciosa] /\ aKM = [c \in CPUs |-> v] /\ deKM = [c \in CPUs |-> v]
      /\ sesion = [c \in CPUs |-> [pc |-> "mensaje", pid |-> Nadie, envio |-> v]] /\ aviso = v
  BY DEF Init
<1>2. \A c \in CPUs : cpu[c].pc = "ocioso" /\ Flujo(c) = v \o v
  BY <1>1, OciosaTipo DEF Flujo
<1>3. v \o v = v /\ Len(v) = 0
  <2>1. v \in Seq(Tramas)
    OBVIOUS
  <2> QED BY <2>1, ConcatEmptySeq
<1> HIDE DEF v
<1>4. \A c \in CPUs : ExactaDe(c)
  BY <1>2, <1>3, ExactaCallada DEF ExactaDe
<1> QED BY <1>1, <1>4 DEF Exactas, v

\* Every step keeps what is on its way exactly what is waited for.
LEMMA PasoDeExactas == Tipos /\ Fases /\ EnTurno /\ Exactas /\ [Next]_vars => Exactas'
<1> SUFFICES ASSUME Tipos, Fases, EnTurno, Exactas, [Next]_vars, EnOrden(desvios') PROVE Exactas'
  BY DEF Exactas
<1>0. Turnos
  BY DesviosCrecen DEF EnTurno, EnOrden
<1>1. ASSUME NEW c \in CPUs, Ciclo(c) PROVE Exactas'
  BY <1>1, ExactasDeCiclo
<1>2. ASSUME NEW c \in CPUs, Sesion(c) PROVE Exactas'
  BY <1>2, Exactas_enviar, Exactas_atender_mensaje_cpu, Exactas_inicializar_proceso,
     Exactas_existe_proceso, Exactas_manejar_proceso DEF Sesion
<1>3. ASSUME UNCHANGED <<cpu, aKM, deKM, sesion, aviso, km, desvios>> PROVE Exactas'
  <2>1. \A d \in CPUs : cpu[d].pc \in ConLaTabla => Tabla(cpu[d].pid)' = Tabla(cpu[d].pid)
    BY <1>3 DEF Tabla
  <2> QED BY <1>3, <2>1, ExactasDeOtros
<1>4. ASSUME NEW c \in CPUs, atender_cpu_ks(c) PROVE Exactas'
  <2>1. CASE km_notificar_exit(c) \/ memoria(c)
    BY <1>0, <2>1, Exactas_km_notificar_exit, Exactas_memoria
  <2>2. CASE finalizar_proceso(c) \/ interrupcionAtendida(c) \/ atender_sleep_ks(c) \/ crear(c)
    BY <1>3, <2>2 DEF finalizar_proceso, interrupcionAtendida, atender_sleep_ks, crear, SoloKS
  <2>3. CASE mutex_lock_libre(c) \/ mutex_lock_ocupado(c) \/ avisarBloqueado(c) \/ bloquearPorMutex(c)
    BY <1>3, <2>3 DEF mutex_lock_libre, mutex_lock_ocupado, avisarBloqueado, bloquearPorMutex, SoloKS
  <2>4. CASE sin_memoria(c)
    BY <1>3, <2>4 DEF sin_memoria, enKM
  <2>5. CASE mutex_unlock(c)
    <3>1. UNCHANGED <<cpu, aKM, deKM, sesion, aviso, km>> /\ desvios \subseteq desvios'
      BY <2>5 DEF mutex_unlock, SoloKS, Desvio
    <3>2. \A d \in CPUs : cpu[d].pc \in ConLaTabla => Tabla(cpu[d].pid)' = Tabla(cpu[d].pid)
      BY <3>1 DEF Tabla
    <3> QED BY <3>1, <3>2, ExactasDeOtros
  <2> QED BY <1>4, <2>1, <2>2, <2>3, <2>4, <2>5 DEF atender_cpu_ks
<1>5. ASSUME NEW p \in Procesos, reubicar(p) PROVE Exactas'
  BY <1>0, <1>5, Exactas_reubicar
<1>6. CASE \/ \E c \in CPUs : \E p \in Procesos : despachar(c, p)
           \/ \E p \in Procesos : decidir_interrupcion(p) \/ finalizar_io_y_desbloquear(p)
           \/ \E i \in DOMAIN ks.interrumpe : enviar_interrupcion_cpu(i)
  BY <1>3, <1>6 DEF despachar, decidir_interrupcion, finalizar_io_y_desbloquear, enviar_interrupcion_cpu,
     SoloKS, enCPU, enKM
<1>7. CASE avisar
  <2>1. aviso # <<>> /\ desvios' = desvios
    BY <1>7 DEF avisar
  <2> QED BY <2>1 DEF Exactas
<1>8. CASE notificar_mapa_a_todas(SetToSeq(CPUs))
  <2>1. "stick" \in desvios'
    BY <1>8 DEF notificar_mapa_a_todas
  <2> QED BY <2>1 DEF EnOrden
<1>9. CASE UNCHANGED vars
  BY <1>3, <1>9 DEF vars
<1> QED BY <1>1, <1>2, <1>4, <1>5, <1>6, <1>7, <1>8, <1>9 DEF Next

\* While no stick connects late, no segment moves under a process in EXEC and no thread is
\* late to block one, no frame too many is on its way to a CPU: what is there is what it
\* waits for, and the table that comes with an instruction is the last one of the process,
\* however the frames, the requests, the calls and the moves of segments interleave.
THEOREM SesionesExactas ==
  Spec => [](Tipos /\ Fases /\ ("bloqueo" \notin desvios => Turnos) /\ Exactas)
<1>1. Init => Tipos /\ Fases /\ EnTurno /\ Exactas
  BY InicioDeFases, InicioDeTurnos, InicioDeExactas
<1>2. Tipos /\ Fases /\ EnTurno /\ Exactas /\ [Next]_vars => (Tipos /\ Fases /\ EnTurno /\ Exactas)'
  BY PasoDeFases, PasoDeTurnos, PasoDeExactas
<1>3. EnTurno => ("bloqueo" \notin desvios => Turnos)
  BY DEF EnTurno
<1> QED BY <1>1, <1>2, <1>3, PTL DEF Spec

\* The MMU translates with the table that Kernel Memory has for the process, unless that
\* table is empty, a stick has connected (notificar_mapa_a_todas writes to the sockets of
\* the sessions), a waiter got the mutex before it was blocked, or the segments of a process
\* in EXEC were moved (by a compaction its dispatcher did not see, or an old timer): then the
\* table may be another from the answer to a FETCH to the instruction that uses it.
THEOREM TablaSiempreAlDia == Spec => []TablaAlDia
<1>1. Exactas => TablaAlDia
  <2> SUFFICES ASSUME Exactas, EnOrden(desvios), NEW c \in CPUs, cpu[c].pc = "ejecuta",
                      Tabla(cpu[c].pid) # 0
               PROVE  cpu[c].tabla = Tabla(cpu[c].pid)
    BY DEF TablaAlDia, EnPC, EnOrden
  <2>1. Exacta(cpu[c], aKM[c], Flujo(c), Tabla(cpu[c].pid))
    BY DEF Exactas, ExactaDe
  <2> QED BY <2>1 DEF Exacta
<1> QED BY <1>1, SesionesExactas, PTL
=============================================================================
