-------------------------- MODULE SesionCPUProofs --------------------------
(* Theorems about the sessions of the CPUs, for any number of CPUs, any    *)
(* programs and any bounds.                                                *)
EXTENDS SesionCPU, SequenceTheorems, FiniteSetTheorems, TLAPS

-----------------------------------------------------------------------------
(* Sequences.                                                               *)

\* What is left of a sequence without its first n elements.
LEMMA RestoDe ==
  ASSUME NEW S, NEW s \in Seq(S), NEW n \in Nat, n <= Len(s)
  PROVE  /\ SubSeq(s, n + 1, Len(s)) \in Seq(S)
         /\ Len(SubSeq(s, n + 1, Len(s))) = Len(s) - n
         /\ \A i \in 1..(Len(s) - n) : SubSeq(s, n + 1, Len(s))[i] = s[i + n]
<1>1. Len(s) \in Nat /\ \A i \in 1..Len(s) : s[i] \in S
  BY LenProperties, ElementOfSeq
<1> DEFINE m == n + 1
           l == Len(s)
           u == SubSeq(s, m, l)
<1>2. m \in Int /\ l \in Int /\ \A i \in m..l : s[i] \in S
  BY <1>1
<1>3. /\ u \in Seq(S) /\ Len(u) = IF m <= l THEN l - m + 1 ELSE 0
      /\ \A i \in 1..(l - m + 1) : u[i] = s[m + i - 1]
  BY <1>2, SubSeqProperties
<1>4. Len(u) = l - n
  BY <1>1, <1>3
<1>5. \A i \in 1..(l - n) : u[i] = s[i + n]
  <2> TAKE i \in 1..(l - n)
  <2>1. i \in 1..(l - m + 1) /\ m + i - 1 = i + n
    BY <1>1
  <2> QED BY <2>1, <1>3
<1> QED BY <1>3, <1>4, <1>5

\* What a socket gives the CPU is what the socket and the thread that writes to it still
\* hold, in that order: reading takes the first frame of both.
LEMMA LeerDelFlujo ==
  ASSUME NEW S, NEW a \in Seq(S), NEW b \in Seq(S), a # <<>>
  PROVE  /\ a \o b # <<>> /\ Head(a \o b) = Head(a) /\ Tail(a) \o b = Tail(a \o b)
         /\ a \o b \in Seq(S)
<1> DEFINE ab == a \o b
<1>1. /\ ab \in Seq(S) /\ Len(ab) = Len(a) + Len(b)
      /\ \A i \in 1..(Len(a) + Len(b)) : ab[i] = IF i <= Len(a) THEN a[i] ELSE b[i - Len(a)]
  BY ConcatProperties
<1>2. Len(a) \in Nat /\ Len(b) \in Nat /\ Len(a) # 0
  BY EmptySeq, LenProperties
<1>3. ab # <<>> /\ ab[1] = a[1]
  BY <1>1, <1>2, EmptySeq
<1>4. Head(ab) = Head(a)
  BY <1>3
<1> HIDE DEF ab
<1>5. /\ Tail(a) \in Seq(S) /\ Len(Tail(a)) = Len(a) - 1
      /\ \A i \in 1..Len(Tail(a)) : Tail(a)[i] = a[i + 1]
  BY HeadTailProperties
<1>6. /\ Tail(ab) \in Seq(S) /\ Len(Tail(ab)) = Len(ab) - 1
      /\ \A i \in 1..Len(Tail(ab)) : Tail(ab)[i] = ab[i + 1]
  BY <1>1, <1>3, HeadTailProperties
<1> DEFINE ta == Tail(a)
           tb == ta \o b
<1>7. /\ tb \in Seq(S) /\ Len(tb) = Len(ta) + Len(b)
      /\ \A i \in 1..(Len(ta) + Len(b)) : tb[i] = IF i <= Len(ta) THEN ta[i] ELSE b[i - Len(ta)]
  BY <1>5, ConcatProperties
<1>11. Len(ta) = Len(a) - 1 /\ Len(tb) = Len(a) - 1 + Len(b)
  BY <1>2, <1>5, <1>7
<1> HIDE DEF ta, tb
<1>8. Len(tb) = Len(Tail(ab))
  BY <1>1, <1>2, <1>5, <1>6, <1>7 DEF ta
<1>9. \A i \in 1..Len(tb) : tb[i] = Tail(ab)[i]
  <2> TAKE i \in 1..Len(tb)
  <2>1. i \in Nat /\ i >= 1 /\ i <= Len(a) - 1 + Len(b) /\ Len(ta) = Len(a) - 1
    BY <1>2, <1>11
  <2>2. Tail(ab)[i] = ab[i + 1]
    BY <1>6, <1>8
  <2>7. i + 1 \in 1..(Len(a) + Len(b))
    BY <2>1, <1>2
  <2>3. ab[i + 1] = IF i + 1 <= Len(a) THEN a[i + 1] ELSE b[i + 1 - Len(a)]
    BY <2>7, <1>1
  <2>4. tb[i] = IF i <= Len(ta) THEN ta[i] ELSE b[i - Len(ta)]
    BY <2>1, <1>2, <1>7
  <2>5. CASE i <= Len(a) - 1
    <3>1. ta[i] = a[i + 1]
      BY <2>1, <2>5, <1>2, <1>5 DEF ta
    <3>2. i <= Len(ta) /\ i + 1 <= Len(a)
      BY <2>1, <2>5, <1>2
    <3>3. tb[i] = ta[i] /\ ab[i + 1] = a[i + 1]
      BY <3>2, <2>3, <2>4
    <3> QED BY <3>1, <3>3, <2>2
  <2>6. CASE ~(i <= Len(a) - 1)
    <3>1. i + 1 - Len(a) = i - Len(ta)
      BY <2>1, <1>2
    <3>2. ~(i <= Len(ta)) /\ ~(i + 1 <= Len(a))
      BY <2>1, <2>6, <1>2
    <3>3. tb[i] = b[i - Len(ta)] /\ ab[i + 1] = b[i + 1 - Len(a)]
      BY <3>2, <2>3, <2>4
    <3> QED BY <3>1, <3>3, <2>2
  <2> QED BY <2>5, <2>6
<1>10. tb = Tail(ab)
  BY <1>6, <1>7, <1>8, <1>9, SeqEqual
<1> QED BY <1>1, <1>3, <1>4, <1>10 DEF ab, ta, tb

\* Writing the next frame moves it from the thread to the socket.
LEMMA EscribirDelFlujo ==
  ASSUME NEW S, NEW a \in Seq(S), NEW b \in Seq(S), b # <<>>
  PROVE  Append(a, Head(b)) \o Tail(b) = a \o b
<1>1. /\ Head(b) \in S /\ Tail(b) \in Seq(S) /\ Len(Tail(b)) = Len(b) - 1
      /\ \A i \in 1..Len(Tail(b)) : Tail(b)[i] = b[i + 1]
  BY HeadTailProperties
<1> DEFINE h == Head(b)
           ah == Append(a, h)
           tb == Tail(b)
           u == ah \o tb
           v == a \o b
<1>2. /\ ah \in Seq(S) /\ Len(ah) = Len(a) + 1
      /\ \A i \in 1..Len(a) : ah[i] = a[i]
      /\ ah[Len(a) + 1] = h
  BY <1>1, AppendProperties
<1>3. h = b[1]
  OBVIOUS
<1>4. Len(a) \in Nat /\ Len(b) \in Nat /\ Len(b) # 0
  BY EmptySeq, LenProperties
<1>5. /\ u \in Seq(S) /\ Len(u) = Len(ah) + Len(tb)
      /\ \A i \in 1..(Len(ah) + Len(tb)) : u[i] = IF i <= Len(ah) THEN ah[i] ELSE tb[i - Len(ah)]
  BY <1>1, <1>2, ConcatProperties
<1>6. /\ v \in Seq(S) /\ Len(v) = Len(a) + Len(b)
      /\ \A i \in 1..(Len(a) + Len(b)) : v[i] = IF i <= Len(a) THEN a[i] ELSE b[i - Len(a)]
  BY ConcatProperties
<1>7. /\ Len(tb) = Len(b) - 1
      /\ \A i \in 1..Len(tb) : tb[i] = b[i + 1]
  BY <1>1
<1> HIDE DEF h, ah, tb, u, v
<1>8. Len(u) = Len(v)
  BY <1>2, <1>4, <1>5, <1>6, <1>7
<1>9. \A i \in 1..Len(u) : u[i] = v[i]
  <2> TAKE i \in 1..Len(u)
  <2>1. i \in Nat /\ 1 <= i /\ i <= Len(a) + Len(b)
    BY <1>4, <1>6, <1>8
  <2>2. u[i] = IF i <= Len(ah) THEN ah[i] ELSE tb[i - Len(ah)]
    BY <2>1, <1>2, <1>4, <1>5, <1>7
  <2>3. v[i] = IF i <= Len(a) THEN a[i] ELSE b[i - Len(a)]
    BY <2>1, <1>4, <1>6
  <2>4. CASE i <= Len(a)
    BY <2>1, <2>2, <2>3, <2>4, <1>2, <1>4
  <2>5. CASE i = Len(a) + 1
    <3>1. i - Len(a) = 1
      BY <2>1, <2>5, <1>4
    <3>2. v[i] = b[1]
      BY <3>1, <2>1, <2>3, <2>5, <1>4
    <3>3. u[i] = ah[Len(a) + 1]
      BY <2>1, <2>2, <2>5, <1>2, <1>4
    <3> QED BY <3>2, <3>3, <1>2, <1>3
  <2>6. CASE i > Len(a) + 1
    <3>1. /\ i - Len(ah) \in 1..Len(tb) /\ (i - Len(ah)) + 1 = i - Len(a)
      BY <2>1, <2>6, <1>2, <1>4, <1>7
    <3>2. tb[i - Len(ah)] = b[i - Len(a)]
      BY <3>1, <1>7
    <3> QED BY <3>2, <2>1, <2>2, <2>3, <2>6, <1>2, <1>4
  <2> QED BY <2>1, <2>4, <2>5, <2>6, <1>4
<1>10. u = v
  BY <1>5, <1>6, <1>8, <1>9, SeqEqual
<1> QED BY <1>10 DEF h, ah, tb, u, v

\* An order of the CPUs, whatever it is, is a sequence of CPUs.
LEMMA OrdenDeCPUs == SetToSeq(CPUs) \in Seq(CPUs)
<1>1. IsFiniteSet(CPUs)
  BY SesionCPUAssumption
<1>2. \E n \in Nat : ExistsBijection(1..n, CPUs)
  BY <1>1, FS_NatBijection
<1>3. PICK n \in Nat : ExistsBijection(1..n, CPUs)
  BY <1>2
<1>4. Cardinality(CPUs) = n
  BY <1>1, <1>3, FS_CountingElements
<1>5. PICK f \in [1..n -> CPUs] : IsInjective(f)
  BY <1>3 DEF ExistsBijection, Bijection, Injection, IsInjective
<1>6. SetToSeq(CPUs) \in [1..n -> CPUs]
  BY <1>4, <1>5 DEF SetToSeq
<1> QED BY <1>6

-----------------------------------------------------------------------------
(* Types.                                                                   *)

Nombres == Procesos \cup {Nadie}
\* The frames of the sockets with Kernel Memory: a PID and a context are of some process,
\* and an instruction is of its program.
TiposDeTrama ==
  {"nada", "INIT", "pid", "FETCH", "pc", "INTERRUPT", "contexto", "EXIT_CPU", "SEG_FAULT",
   "MAPA", "mapa", "OK", "ERROR", "instruccion", "VACIA", "NO_VACIA", "segmentos"}
Tramas ==
  {f \in [t : TiposDeTrama, pid : Nombres, pc : Nat, tabla : Nat] :
     /\ f.t \in {"pid", "contexto"} => f.pid \in Procesos
     /\ f.t = "instruccion" => f.pid \in Procesos /\ f.pc \in DOMAIN Programa[f.pid]}
Etapas ==
  {"ocioso", "mapaCod", "mapaBuf", "contexto", "respuesta", "instruccion", "tabla", "segmentos",
   "ejecuta", "respKS", "interrupciones", "okGuarda", "okExit", "ackSegFault", "fin"}
Registros ==
  [pc : Etapas, pid : Nombres, ctx : Nat, tabla : Nat, instr : Tramas, espera : Nombres,
   tras : {Nadie, "SLEEP", "ATENDIDA", "BLOQUEADO"}]
Sesiones ==
  [pc : {"mensaje", "pidInit", "lazo", "pedido"}, pid : Nombres, envio : Seq(Tramas)]
Ordenes == [t : {"PID", "INTERRUPT", "OK", "ERROR", "BLOQUEADO"}, pid : Procesos]
Avisados == [t : Llamadas \cup {"SLEEP", "ATENDIDA", "DONE", "SEG_FAULT"}, pid : Procesos]
Avisos == [cpu : CPUs, t : {"MAPA", "mapa"}]
Estados == {"READY", "EXEC", "BLOCK", "EXIT"}
Memorias == [vivo : BOOLEAN, pc : Nat, segmentos : Nat, cambios : Nat]
\* What the thread of a connection of the scheduler is doing with a MUTEX_LOCK that waits.
Hilos ==
  {h \in [pc : {"libre", "avisar", "bloquear"}, pid : Nombres] : h.pc # "libre" => h.pid \in Procesos}
Planes ==
  [estado : [Procesos -> Estados], en : [Procesos -> CPUs \cup {Nadie}], libres : SUBSET CPUs,
   tomador : Nombres, cola : Seq(Procesos), interrumpe : Seq([cpu : CPUs, pid : Procesos]),
   manejador : [CPUs -> Hilos]]

TiposDeCPU ==
  /\ cpu \in [CPUs -> Registros]
  /\ aKM \in [CPUs -> Seq(Tramas)] /\ deKM \in [CPUs -> Seq(Tramas)]
  /\ aKS \in [CPUs -> Seq(Avisados)] /\ deKS \in [CPUs -> Seq(Ordenes)]
  /\ sesion \in [CPUs -> Sesiones] /\ aviso \in Seq(Avisos)
TiposDeProceso ==
  /\ km \in [Procesos -> Memorias] /\ ks \in Planes /\ real \in [Procesos -> Nat]
  /\ \A p \in Procesos : ks.estado[p] = "EXEC" => ks.en[p] \in CPUs
Tipos == TiposDeCPU /\ TiposDeProceso

-----------------------------------------------------------------------------
(* The phases of a session: where the CPU is in its cycle (its record k),  *)
(* where the thread of Kernel Memory is (s), the frames the first has sent *)
(* and the second has not read (q), and those on their way back (f), which *)
(* include what the thread has still to write.                             *)

Flujo(c) == deKM[c] \o sesion[c].envio

\* What the CPU may read at any moment and skips: the map of the Memory Sticks, and a
\* table of segments, which are told apart from what it waits for.
Ruido == {"MAPA", "mapa", "VACIA", "NO_VACIA", "segmentos"}
EsRuido(f) == \A i \in 1..Len(f) : f[i].t \in Ruido
\* The frames of f are noise and answers of T, and after one of F there is only noise.
Acaba(f, F, T) ==
  \A i \in 1..Len(f) :
    \/ f[i].t \in Ruido \cup T
    \/ f[i] \in F /\ \A j \in 1..Len(f) : j > i => f[j].t \in Ruido
Contextos(p) == {f \in Tramas : f.t = "contexto" /\ f.pid = p}
InstruccionDe(p, n) == {f \in Tramas : f.t = "instruccion" /\ f.pid = p /\ f.pc = n}
Buenas == {f \in Tramas : f.t = "OK"}

EnOcioso(s, q, f) ==
  s.pc # "pidInit" /\ EsRuido(f) /\ (q = <<>> \/ (Len(q) = 1 /\ q[1].t = "SEG_FAULT"))
EnMapa(s, q, f) ==
  /\ EsRuido(f) /\ (s.pc = "pidInit" => q = <<>>)
  /\ \/ q = <<>>
     \/ Len(q) = 1 /\ q[1].t = "INIT"
     \/ Len(q) = 2 /\ q[1].t = "SEG_FAULT" /\ q[2].t = "INIT"
EnContexto(k, s, q, f) ==
  \/ q = <<>> /\ s.pc # "pidInit" /\ (EsRuido(f) \/ (s.pid = k.pid /\ Acaba(f, Contextos(k.pid), {})))
  \/ Len(q) = 1 /\ q[1].t = "pid" /\ q[1].pid = k.pid /\ EsRuido(f)
  \/ /\ Len(q) = 2 /\ q[1].t = "INIT" /\ q[2].t = "pid" /\ q[2].pid = k.pid
     /\ EsRuido(f) /\ s.pc # "pidInit"
  \/ /\ Len(q) = 3 /\ q[1].t = "SEG_FAULT" /\ q[2].t = "INIT" /\ q[3].t = "pid" /\ q[3].pid = k.pid
     /\ EsRuido(f) /\ s.pc # "pidInit"
PidLeido(k, s) == s.pc # "pidInit" /\ s.pid = k.pid
EnRespuesta(k, s, q, f) ==
  /\ PidLeido(k, s)
  /\ \/ q = <<>> /\ Acaba(f, InstruccionDe(k.pid, k.ctx), {"OK", "ERROR"})
     \/ Len(q) = 1 /\ q[1].t = "pc" /\ q[1].pc = k.ctx /\ EsRuido(f)
     \/ Len(q) = 2 /\ q[1].t = "FETCH" /\ q[2].t = "pc" /\ q[2].pc = k.ctx /\ EsRuido(f)
Quieto(k, s, q, f) == PidLeido(k, s) /\ q = <<>> /\ EsRuido(f)
InstruccionSuya(k) == k.instr.pid = k.pid /\ k.instr.pc = k.ctx
\* The last request of a process: its context follows it.
EnGuarda(k, s, q, f) ==
  /\ s.pc # "pidInit"
  /\ \/ q = <<>> /\ Acaba(f, Buenas, {})
     \/ /\ Len(q) = 3 /\ q[1].t = "INTERRUPT" /\ q[2].t = "pid"
        /\ q[3].t = "contexto" /\ q[3].pid = k.pid /\ q[3].pc = k.ctx /\ EsRuido(f)
EnSalida(k, s, q, f) ==
  /\ s.pc # "pidInit"
  /\ \/ q = <<>> /\ Acaba(f, Buenas, {})
     \/ Len(q) = 1 /\ q[1].t = "contexto" /\ q[1].pid = k.pid /\ q[1].pc = k.ctx /\ EsRuido(f)
     \/ /\ Len(q) = 2 /\ q[1].t = "pid"
        /\ q[2].t = "contexto" /\ q[2].pid = k.pid /\ q[2].pc = k.ctx /\ EsRuido(f)
     \/ /\ Len(q) = 3 /\ q[1].t = "EXIT_CPU" /\ q[2].t = "pid"
        /\ q[3].t = "contexto" /\ q[3].pid = k.pid /\ q[3].pc = k.ctx /\ EsRuido(f)

\* What the thread of Kernel Memory may find in the socket of a CPU, whatever the CPU does.
Peticiones(s, q) ==
  /\ \/ q = <<>>
     \/ Len(q) = 1 /\ q[1].t \in {"SEG_FAULT", "INIT", "pid", "pc", "contexto"}
     \/ Len(q) = 2 /\ q[1].t = "SEG_FAULT" /\ q[2].t = "INIT"
     \/ Len(q) = 2 /\ q[1].t = "INIT" /\ q[2].t = "pid"
     \/ Len(q) = 2 /\ q[1].t = "FETCH" /\ q[2].t = "pc"
     \/ Len(q) = 2 /\ q[1].t = "pid" /\ q[2].t = "contexto"
     \/ Len(q) = 3 /\ q[1].t = "SEG_FAULT" /\ q[2].t = "INIT" /\ q[3].t = "pid"
     \/ Len(q) = 3 /\ q[1].t \in {"INTERRUPT", "EXIT_CPU"} /\ q[2].t = "pid" /\ q[3].t = "contexto"
  /\ s.pc = "pidInit" => q = <<>> \/ (Len(q) = 1 /\ q[1].t = "pid")

Fase(k, s, q, f) ==
  /\ Peticiones(s, q)
  /\ k.pc \notin {"ocioso", "fin"} => k.pid \in Procesos
  /\ s.pc \in {"lazo", "pedido"} => s.pid \in Procesos
  /\ k.pc = "ocioso" => EnOcioso(s, q, f)
  /\ k.pc \in {"mapaCod", "mapaBuf"} => EnMapa(s, q, f)
  /\ k.pc = "contexto" => EnContexto(k, s, q, f)
  /\ k.pc \in {"respuesta", "instruccion"} => EnRespuesta(k, s, q, f)
  /\ k.pc \in {"tabla", "segmentos", "ejecuta"} /\ k.instr.t = "instruccion" =>
       InstruccionSuya(k) /\ Quieto(k, s, q, f)
  /\ k.pc = "respKS" => k.instr.t = "instruccion" /\ InstruccionSuya(k) /\ Quieto(k, s, q, f)
  /\ k.pc \in {"interrupciones", "ackSegFault"} => Quieto(k, s, q, f)
  /\ k.pc = "okGuarda" => EnGuarda(k, s, q, f)
  /\ k.pc = "okExit" => EnSalida(k, s, q, f)
Fases == \A c \in CPUs : Fase(cpu[c], sesion[c], aKM[c], Flujo(c))

-----------------------------------------------------------------------------
(* The frames.                                                              *)

\* The CPU reads the first frame: what is left is as it was, and what was read is noise, an
\* answer, or the frame after which only noise comes.
LEMMA RuidoCola ==
  ASSUME NEW f \in Seq(Tramas), f # <<>>, EsRuido(f)
  PROVE  EsRuido(Tail(f)) /\ Head(f).t \in Ruido
<1>1. /\ Tail(f) \in Seq(Tramas) /\ Len(Tail(f)) = Len(f) - 1
      /\ \A i \in 1..Len(Tail(f)) : Tail(f)[i] = f[i + 1]
  BY HeadTailProperties
<1>2. Len(f) \in Nat /\ Len(f) # 0 /\ Head(f) = f[1]
  BY LenProperties, EmptySeq
<1> HIDE DEF Ruido
<1>3. \A i \in 1..Len(Tail(f)) : i + 1 \in 1..Len(f)
  BY <1>1, <1>2
<1>4. 1 \in 1..Len(f)
  BY <1>2
<1> QED BY <1>1, <1>2, <1>3, <1>4 DEF EsRuido

\* What is left of a sequence that ends with a frame of F still ends with one, or F has been read.
LEMMA AcabaCola ==
  ASSUME NEW f \in Seq(Tramas), f # <<>>, NEW F, NEW T, Acaba(f, F, T)
  PROVE  /\ Acaba(Tail(f), F, T)
         /\ Head(f).t \in Ruido \cup T \/ (Head(f) \in F /\ EsRuido(Tail(f)))
<1>1. /\ Tail(f) \in Seq(Tramas) /\ Len(Tail(f)) = Len(f) - 1
      /\ \A i \in 1..Len(Tail(f)) : Tail(f)[i] = f[i + 1]
  BY HeadTailProperties
<1>2. Len(f) \in Nat /\ Len(f) # 0 /\ Head(f) = f[1]
  BY LenProperties, EmptySeq
<1>3. \A i \in 1..Len(Tail(f)) : i + 1 \in 1..Len(f)
  BY <1>1, <1>2
<1>4. 1 \in 1..Len(f)
  BY <1>2
<1> DEFINE R == Ruido
<1> HIDE DEF R
<1>5. Acaba(Tail(f), F, T)
  <2> SUFFICES ASSUME NEW i \in 1..Len(Tail(f))
               PROVE  \/ Tail(f)[i].t \in R \cup T
                      \/ Tail(f)[i] \in F /\ \A j \in 1..Len(Tail(f)) : j > i => Tail(f)[j].t \in R
    BY DEF Acaba, R
  <2>1. i + 1 \in 1..Len(f) /\ Tail(f)[i] = f[i + 1]
    BY <1>1, <1>3
  <2>2. CASE f[i + 1].t \in R \cup T
    BY <2>1, <2>2
  <2>3. CASE f[i + 1] \in F /\ \A j \in 1..Len(f) : j > i + 1 => f[j].t \in R
    <3>1. \A j \in 1..Len(Tail(f)) : j > i => j + 1 \in 1..Len(f) /\ j + 1 > i + 1
      BY <1>1, <1>2, <1>3
    <3> QED BY <3>1, <2>1, <2>3, <1>1
  <2> QED BY <2>1, <2>2, <2>3 DEF Acaba, R
<1>6. f[1].t \in R \cup T \/ (f[1] \in F /\ \A j \in 1..Len(f) : j > 1 => f[j].t \in R)
  BY <1>4 DEF Acaba, R
<1>7. (\A j \in 1..Len(f) : j > 1 => f[j].t \in R) => EsRuido(Tail(f))
  <2> SUFFICES ASSUME \A j \in 1..Len(f) : j > 1 => f[j].t \in R, NEW i \in 1..Len(Tail(f))
               PROVE  Tail(f)[i].t \in R
    BY DEF EsRuido, R
  <2>1. i + 1 \in 1..Len(f) /\ i + 1 > 1
    BY <1>1, <1>2
  <2> QED BY <2>1, <1>1
<1> QED BY <1>2, <1>5, <1>6, <1>7 DEF R

\* What is noise only ends as one pleases, and goes on with a frame of F or an answer.
LEMMA RuidoAcaba ==
  ASSUME NEW f, NEW F, NEW T, EsRuido(f)
  PROVE  Acaba(f, F, T)
BY DEF EsRuido, Acaba

\* One more frame of noise, after the rest, leaves it as it was.
LEMMA RuidoMas ==
  ASSUME NEW f \in Seq(Tramas), NEW g \in Seq(Tramas), NEW F, NEW T, EsRuido(f), Acaba(g, F, T)
  PROVE  Acaba(f \o g, F, T) /\ (EsRuido(g) => EsRuido(f \o g))
<1> DEFINE u == f \o g
           R == Ruido
<1>1. /\ u \in Seq(Tramas) /\ Len(u) = Len(f) + Len(g)
      /\ \A i \in 1..(Len(f) + Len(g)) : u[i] = IF i <= Len(f) THEN f[i] ELSE g[i - Len(f)]
  BY ConcatProperties
<1>2. Len(f) \in Nat /\ Len(g) \in Nat
  BY LenProperties
<1> HIDE DEF u, R
<1>3. \A i \in 1..Len(f) : f[i].t \in R
  BY DEF EsRuido, R
<1>4. ASSUME NEW i \in 1..Len(u)
      PROVE  \/ i \in 1..Len(f) /\ u[i] = f[i]
             \/ i > Len(f) /\ i - Len(f) \in 1..Len(g) /\ u[i] = g[i - Len(f)]
  <2>1. CASE i <= Len(f)
    BY <2>1, <1>1, <1>2
  <2>2. CASE ~(i <= Len(f))
    BY <2>2, <1>1, <1>2
  <2> QED BY <2>1, <2>2
<1>5. Acaba(u, F, T)
  <2> SUFFICES ASSUME NEW i \in 1..Len(u)
               PROVE  \/ u[i].t \in R \cup T
                      \/ u[i] \in F /\ \A j \in 1..Len(u) : j > i => u[j].t \in R
    BY DEF Acaba, R
  <2>1. CASE i \in 1..Len(f) /\ u[i] = f[i]
    BY <2>1, <1>3
  <2>2. CASE i > Len(f) /\ i - Len(f) \in 1..Len(g) /\ u[i] = g[i - Len(f)]
    <3>1. \/ g[i - Len(f)].t \in R \cup T
          \/ /\ g[i - Len(f)] \in F
             /\ \A j \in 1..Len(g) : j > i - Len(f) => g[j].t \in R
      BY <2>2 DEF Acaba, R
    <3>2. ASSUME NEW j \in 1..Len(u), j > i, \A l \in 1..Len(g) : l > i - Len(f) => g[l].t \in R
          PROVE  u[j].t \in R
      <4>1. j > Len(f) /\ j - Len(f) \in 1..Len(g) /\ u[j] = g[j - Len(f)]
        BY <3>2, <2>2, <1>1, <1>2, <1>4
      <4>2. j - Len(f) > i - Len(f)
        BY <3>2, <1>1, <1>2
      <4> QED BY <4>1, <4>2, <3>2
    <3> QED BY <3>1, <3>2, <2>2
  <2> QED BY <1>4, <2>1, <2>2
<1>6. EsRuido(g) => EsRuido(u)
  BY <1>3, <1>4 DEF EsRuido, R
<1> QED BY <1>5, <1>6 DEF u

\* The frames another thread writes in between change nothing.
LEMMA RuidoEnMedio ==
  ASSUME NEW a \in Seq(Tramas), NEW b \in Seq(Tramas), NEW e \in Tramas, e.t \in Ruido,
         NEW F, NEW T
  PROVE  /\ EsRuido(a \o b) => EsRuido(Append(a, e) \o b)
         /\ Acaba(a \o b, F, T) => Acaba(Append(a, e) \o b, F, T)
         /\ Append(a, e) \o b \in Seq(Tramas)
<1> DEFINE u == a \o b
           ae == Append(a, e)
           v == ae \o b
           R == Ruido
           m(i) == IF i <= Len(a) THEN i ELSE i - 1
<1>1. /\ u \in Seq(Tramas) /\ Len(u) = Len(a) + Len(b)
      /\ \A i \in 1..(Len(a) + Len(b)) : u[i] = IF i <= Len(a) THEN a[i] ELSE b[i - Len(a)]
  BY ConcatProperties
<1>2. Len(a) \in Nat /\ Len(b) \in Nat
  BY LenProperties
<1>3. /\ ae \in Seq(Tramas) /\ Len(ae) = Len(a) + 1
      /\ \A i \in 1..Len(a) : ae[i] = a[i]
      /\ ae[Len(a) + 1] = e
  BY AppendProperties
<1> HIDE DEF ae
<1>4. /\ v \in Seq(Tramas) /\ Len(v) = Len(ae) + Len(b)
      /\ \A i \in 1..(Len(ae) + Len(b)) : v[i] = IF i <= Len(ae) THEN ae[i] ELSE b[i - Len(ae)]
  BY <1>3, ConcatProperties
<1> HIDE DEF u, v, R
<1>5. e.t \in R
  BY DEF R
<1>6. ASSUME NEW i \in 1..Len(v)
      PROVE  \/ i = Len(a) + 1 /\ v[i] = e
             \/ i # Len(a) + 1 /\ m(i) \in 1..Len(u) /\ v[i] = u[m(i)]
  <2>0. i \in Nat /\ 1 <= i /\ i <= Len(a) + 1 + Len(b)
    BY <1>2, <1>3, <1>4
  <2>4. v[i] = IF i <= Len(ae) THEN ae[i] ELSE b[i - Len(ae)]
    BY <2>0, <1>2, <1>3, <1>4
  <2>1. CASE i <= Len(a)
    <3>1. i \in 1..Len(u) /\ u[i] = a[i]
      BY <2>0, <2>1, <1>1, <1>2
    <3>2. v[i] = a[i]
      BY <2>0, <2>1, <2>4, <1>2, <1>3
    <3> QED BY <3>1, <3>2, <2>1, <2>0, <1>2
  <2>2. CASE i = Len(a) + 1
    BY <2>2, <2>4, <1>2, <1>3
  <2>3. CASE i > Len(a) + 1
    <3>1. i - 1 \in 1..Len(u) /\ i - 1 - Len(a) = i - Len(ae) /\ ~(i - 1 <= Len(a)) /\ m(i) = i - 1
      BY <2>0, <2>3, <1>1, <1>2, <1>3
    <3>2. u[i - 1] = b[i - 1 - Len(a)]
      BY <3>1, <1>1
    <3>3. v[i] = b[i - Len(ae)]
      BY <2>0, <2>3, <2>4, <1>2, <1>3
    <3>4. v[i] = u[i - 1]
      BY <3>1, <3>2, <3>3
    <3> QED BY <3>1, <3>4, <2>0, <2>3, <1>2
  <2> QED BY <2>0, <2>1, <2>2, <2>3, <1>2
<1>7. EsRuido(u) => EsRuido(v)
  BY <1>5, <1>6 DEF EsRuido, R
<1>8. Acaba(u, F, T) => Acaba(v, F, T)
  <2> SUFFICES ASSUME Acaba(u, F, T), NEW i \in 1..Len(v), i # Len(a) + 1
               PROVE  \/ v[i].t \in R \cup T
                      \/ v[i] \in F /\ \A j \in 1..Len(v) : j > i => v[j].t \in R
    BY <1>5, <1>6 DEF Acaba, R
  <2>1. m(i) \in 1..Len(u) /\ v[i] = u[m(i)]
    BY <1>6
  <2>2. \/ u[m(i)].t \in R \cup T
        \/ u[m(i)] \in F /\ \A j \in 1..Len(u) : j > m(i) => u[j].t \in R
    BY <2>1 DEF Acaba, R
  <2>3. ASSUME NEW j \in 1..Len(v), j > i, \A l \in 1..Len(u) : l > m(i) => u[l].t \in R
        PROVE  v[j].t \in R
    <3>1. CASE j = Len(a) + 1
      BY <3>1, <1>5, <1>6
    <3>2. CASE j # Len(a) + 1
      <4>1. m(j) \in 1..Len(u) /\ v[j] = u[m(j)]
        BY <3>2, <1>6
      <4>2. m(j) > m(i)
        <5>1. i \in Nat /\ j \in Nat
          OBVIOUS
        <5> QED BY <5>1, <3>2, <2>3, <1>2
      <4> QED BY <4>1, <4>2, <2>3
    <3> QED BY <3>1, <3>2
  <2> QED BY <2>1, <2>2, <2>3
<1> QED BY <1>4, <1>7, <1>8 DEF u, v, ae

-----------------------------------------------------------------------------
(* What the thread of Kernel Memory does keeps the phase of its CPU.       *)

Resto(q, n) == SubSeq(q, n + 1, Len(q))

\* What is left after one, two or three frames is the sequence of the others.
LEMMA RestoEs ==
  ASSUME NEW q \in Seq(Tramas), NEW n \in {1, 2, 3}, n <= Len(q)
  PROVE  /\ Resto(q, n) \in Seq(Tramas) /\ Len(Resto(q, n)) = Len(q) - n
         /\ Len(q) \in Nat /\ q # <<>>
         /\ Resto(q, n) = <<>> <=> Len(q) = n
         /\ n = 1 /\ Len(q) > 1 => Resto(q, n)[1] = q[2]
         /\ n = 1 /\ Len(q) > 2 => Resto(q, n)[2] = q[3]
<1>1. n \in Nat /\ Len(q) \in Nat
  BY LenProperties
<1>2. /\ Resto(q, n) \in Seq(Tramas) /\ Len(Resto(q, n)) = Len(q) - n
      /\ \A i \in 1..(Len(q) - n) : Resto(q, n)[i] = q[i + n]
  BY <1>1, RestoDe DEF Resto
<1> DEFINE u == Resto(q, n)
<1> HIDE DEF u
<1>3. u \in Seq(Tramas) /\ Len(u) = Len(q) - n /\ \A i \in 1..(Len(q) - n) : u[i] = q[i + n]
  BY <1>2 DEF u
<1>4. u = <<>> <=> Len(u) = 0
  BY <1>3, EmptySeq
<1>5. u = <<>> <=> Len(q) = n
  BY <1>1, <1>3, <1>4
<1>6. n = 1 /\ Len(q) > 1 => u[1] = q[2]
  <2> SUFFICES ASSUME n = 1, Len(q) > 1  PROVE u[1] = q[2]
    OBVIOUS
  <2>1. 1 \in 1..(Len(q) - n) /\ 1 + n = 2
    BY <1>1
  <2> QED BY <2>1, <1>3
<1>7. n = 1 /\ Len(q) > 2 => u[2] = q[3]
  <2> SUFFICES ASSUME n = 1, Len(q) > 2  PROVE u[2] = q[3]
    OBVIOUS
  <2>1. 2 \in 1..(Len(q) - n) /\ 2 + n = 3
    BY <1>1
  <2> QED BY <2>1, <1>3
<1>8. q # <<>>
  BY <1>1
<1> QED BY <1>1, <1>3, <1>5, <1>6, <1>7, <1>8 DEF u

\* MSG_INIT_CPU is read, and the map of the sticks is on its way.
LEMMA FaseMapa ==
  ASSUME NEW k \in Registros, NEW s \in Sesiones, NEW q \in Seq(Tramas), NEW f \in Seq(Tramas),
         Fase(k, s, q, f), s.pc = "mensaje", Len(q) >= 1, q[1].t = "INIT",
         NEW r \in Sesiones, r.pc = "pidInit", NEW g \in Seq(Tramas), EsRuido(g)
  PROVE  Fase(k, r, Resto(q, 1), f \o g)
<1> DEFINE u == Resto(q, 1)
           v == f \o g
<1>1. /\ u \in Seq(Tramas) /\ Len(u) = Len(q) - 1 /\ Len(q) \in Nat /\ q # <<>>
      /\ u = <<>> <=> Len(q) = 1
      /\ Len(q) > 1 => u[1] = q[2]
      /\ Len(q) > 2 => u[2] = q[3]
  BY RestoEs
<1>2. EsRuido(f) => EsRuido(v)
  BY RuidoMas, RuidoAcaba
<1> HIDE DEF u, v
<1>3. Peticiones(s, q)
  BY DEF Fase
<1>4. Peticiones(r, u)
  BY <1>1, <1>3 DEF Peticiones
<1>5. k.pc = "ocioso" => EnOcioso(r, u, v)
  BY <1>1 DEF Fase, EnOcioso
<1>6. k.pc \in {"mapaCod", "mapaBuf"} => EnMapa(r, u, v)
  BY <1>1, <1>2 DEF Fase, EnMapa
<1>7. k.pc = "contexto" => EnContexto(k, r, u, v)
  BY <1>1, <1>2 DEF Fase, EnContexto
<1>8. k.pc \notin {"respuesta", "instruccion"}
  BY <1>1 DEF Fase, EnRespuesta
<1>9. ~Quieto(k, s, q, f)
  BY <1>1 DEF Quieto
<1>10. k.pc \notin {"okGuarda", "okExit"}
  BY <1>1 DEF Fase, EnGuarda, EnSalida
<1>11. Fase(k, r, u, v)
  BY <1>4, <1>5, <1>6, <1>7, <1>8, <1>9, <1>10 DEF Fase
<1> QED BY <1>11 DEF u, v

\* The last request of a process is read, and its answer is on its way.
LEMMA FaseUltima ==
  ASSUME NEW k \in Registros, NEW s \in Sesiones, NEW q \in Seq(Tramas), NEW f \in Seq(Tramas),
         Fase(k, s, q, f), s.pc # "pidInit", Len(q) >= 3, q[1].t \in {"INTERRUPT", "EXIT_CPU"},
         NEW r \in Sesiones, r.pc = "mensaje", NEW g \in Seq(Tramas), Acaba(g, Buenas, {})
  PROVE  Fase(k, r, Resto(q, 3), f \o g)
<1> DEFINE u == Resto(q, 3)
           v == f \o g
<1>1. /\ u \in Seq(Tramas) /\ Len(u) = Len(q) - 3 /\ Len(q) \in Nat /\ q # <<>>
      /\ u = <<>> <=> Len(q) = 3
  BY RestoEs
<1>2. EsRuido(f) => Acaba(v, Buenas, {})
  BY RuidoMas
<1> HIDE DEF u, v
<1>3. Peticiones(s, q)
  BY DEF Fase
<1>4. Peticiones(r, u)
  BY <1>1, <1>3 DEF Peticiones
<1>5. k.pc \notin {"ocioso", "mapaCod", "mapaBuf"}
  BY <1>1 DEF Fase, EnOcioso, EnMapa
<1>7. k.pc \notin {"contexto", "respuesta", "instruccion"}
  BY <1>1 DEF Fase, EnContexto, EnRespuesta
<1>9. ~Quieto(k, s, q, f)
  BY <1>1 DEF Quieto
<1>10. k.pc = "okGuarda" => EnGuarda(k, r, u, v)
  BY <1>1, <1>2 DEF Fase, EnGuarda
<1>11. k.pc = "okExit" => EnSalida(k, r, u, v)
  BY <1>1, <1>2 DEF Fase, EnSalida
<1>12. Fase(k, r, u, v)
  BY <1>4, <1>5, <1>7, <1>9, <1>10, <1>11 DEF Fase
<1> QED BY <1>12 DEF u, v

\* A frame is dropped: by the thread that has no process, or as a request it does not know.
LEMMA FaseDescarta ==
  ASSUME NEW k \in Registros, NEW s \in Sesiones, NEW q \in Seq(Tramas), NEW f \in Seq(Tramas),
         Fase(k, s, q, f), s.pc # "pidInit", Len(q) >= 1, q[1].t # "INTERRUPT",
         NEW r \in Sesiones, r.pc \in {"mensaje", "lazo"}, r.pid = s.pid,
         r.pc = "lazo" => s.pid \in Procesos
  PROVE  Fase(k, r, Resto(q, 1), f)
<1> DEFINE u == Resto(q, 1)
<1>1. /\ u \in Seq(Tramas) /\ Len(u) = Len(q) - 1 /\ Len(q) \in Nat /\ q # <<>>
      /\ u = <<>> <=> Len(q) = 1
      /\ Len(q) > 1 => u[1] = q[2]
      /\ Len(q) > 2 => u[2] = q[3]
  BY RestoEs
<1>2. \A F, T : EsRuido(f) => Acaba(f, F, T)
  BY RuidoAcaba
<1> HIDE DEF u
<1>3. Peticiones(s, q)
  BY DEF Fase
<1>4. Peticiones(r, u)
  BY <1>1, <1>3 DEF Peticiones
<1>5. k.pc = "ocioso" => EnOcioso(r, u, f)
  BY <1>1 DEF Fase, EnOcioso
<1>6. k.pc \in {"mapaCod", "mapaBuf"} => EnMapa(r, u, f)
  BY <1>1 DEF Fase, EnMapa
<1>7. k.pc = "contexto" => EnContexto(k, r, u, f)
  BY <1>1 DEF Fase, EnContexto
<1>8. k.pc \in {"respuesta", "instruccion"} => EnRespuesta(k, r, u, f)
  BY <1>1, <1>2 DEF Fase, EnRespuesta, PidLeido
<1>9. ~Quieto(k, s, q, f)
  BY <1>1 DEF Quieto
<1>10. k.pc = "okGuarda" => EnGuarda(k, r, u, f)
  BY <1>1 DEF Fase, EnGuarda
<1>11. k.pc = "okExit" => EnSalida(k, r, u, f)
  BY <1>1, <1>2 DEF Fase, EnSalida
<1>12. Fase(k, r, u, f)
  BY <1>4, <1>5, <1>6, <1>7, <1>8, <1>9, <1>10, <1>11 DEF Fase
<1> QED BY <1>12 DEF u

\* The PID is read: the context of that process is on its way, or no answer is.
LEMMA FaseContexto ==
  ASSUME NEW k \in Registros, NEW s \in Sesiones, NEW q \in Seq(Tramas), NEW f \in Seq(Tramas),
         Fase(k, s, q, f), s.pc = "pidInit", Len(q) >= 1,
         NEW r \in Sesiones, NEW g \in Seq(Tramas),
         \/ r.pc = "lazo" /\ r.pid = q[1].pid /\ r.pid \in Procesos /\ Acaba(g, Contextos(r.pid), {})
         \/ r.pc = "mensaje" /\ g = <<>>
  PROVE  Fase(k, r, Resto(q, 1), f \o g)
<1> DEFINE u == Resto(q, 1)
           v == f \o g
<1>1. /\ u \in Seq(Tramas) /\ Len(u) = Len(q) - 1 /\ Len(q) \in Nat /\ q # <<>>
      /\ u = <<>> <=> Len(q) = 1
  BY RestoEs
<1>2. ASSUME EsRuido(f), Acaba(g, Contextos(r.pid), {}) PROVE Acaba(v, Contextos(r.pid), {})
  BY <1>2, RuidoMas
<1>3. g = <<>> => v = f
  BY ConcatEmptySeq
<1> HIDE DEF u, v
<1>4. Peticiones(s, q)
  BY DEF Fase
<1>5. Len(q) = 1 /\ u = <<>>
  BY <1>1, <1>4 DEF Peticiones
<1>6. Peticiones(r, u)
  BY <1>5 DEF Peticiones
<1>7. k.pc \notin {"ocioso", "mapaCod", "mapaBuf"}
  BY <1>1 DEF Fase, EnOcioso, EnMapa
<1>8. k.pc = "contexto" => EnContexto(k, r, u, v)
  BY <1>1, <1>2, <1>3, <1>5 DEF Fase, EnContexto
<1>9. k.pc \notin {"respuesta", "instruccion"}
  BY <1>1 DEF Fase, EnRespuesta, PidLeido
<1>10. ~Quieto(k, s, q, f)
  BY <1>1 DEF Quieto
<1>11. k.pc \notin {"okGuarda", "okExit"}
  BY <1>1 DEF Fase, EnGuarda, EnSalida
<1>12. Fase(k, r, u, v)
  BY <1>6, <1>7, <1>8, <1>9, <1>10, <1>11 DEF Fase
<1> QED BY <1>12 DEF u, v

\* MSG_FETCH_CPU is read: the answer is on its way.
LEMMA FaseFetch ==
  ASSUME NEW k \in Registros, NEW s \in Sesiones, NEW q \in Seq(Tramas), NEW f \in Seq(Tramas),
         Fase(k, s, q, f), s.pc = "pedido", Len(q) >= 2, q[1].t = "FETCH",
         NEW r \in Sesiones, r.pc = "lazo", r.pid = s.pid,
         NEW g \in Seq(Tramas), Acaba(g, InstruccionDe(s.pid, q[2].pc), {"OK", "ERROR"})
  PROVE  Fase(k, r, Resto(q, 2), f \o g)
<1> DEFINE u == Resto(q, 2)
           v == f \o g
           I == InstruccionDe(s.pid, q[2].pc)
<1>1. /\ u \in Seq(Tramas) /\ Len(u) = Len(q) - 2 /\ Len(q) \in Nat /\ q # <<>>
      /\ u = <<>> <=> Len(q) = 2
  BY RestoEs
<1>2. EsRuido(f) => Acaba(v, I, {"OK", "ERROR"})
  BY RuidoMas
<1> HIDE DEF u, v, I
<1>3. Peticiones(s, q)
  BY DEF Fase
<1>4. Len(q) = 2 /\ u = <<>>
  BY <1>1, <1>3 DEF Peticiones
<1>5. Peticiones(r, u)
  BY <1>4 DEF Peticiones
<1>6. k.pc \notin {"ocioso", "mapaCod", "mapaBuf"}
  BY <1>1 DEF Fase, EnOcioso, EnMapa
<1>7. k.pc # "contexto"
  BY <1>1 DEF Fase, EnContexto
<1>8. k.pc \in {"respuesta", "instruccion"} => EnRespuesta(k, r, u, v)
  BY <1>1, <1>2, <1>4 DEF Fase, EnRespuesta, PidLeido, I
<1>9. ~Quieto(k, s, q, f)
  BY <1>1 DEF Quieto
<1>10. k.pc \notin {"okGuarda", "okExit"}
  BY <1>1 DEF Fase, EnGuarda, EnSalida
<1>11. s.pid \in Procesos
  BY DEF Fase
<1>12. Fase(k, r, u, v)
  BY <1>5, <1>6, <1>7, <1>8, <1>9, <1>10, <1>11 DEF Fase
<1> QED BY <1>12 DEF u, v

\* The thread looks whether its process is there, or writes a frame.
LEMMA FaseSigue ==
  ASSUME NEW k, NEW s \in Sesiones, NEW q, NEW f, Fase(k, s, q, f), NEW r \in Sesiones,
         r.pid = s.pid, r.pc = s.pc \/ (s.pc = "lazo" /\ r.pc \in {"pedido", "mensaje"})
  PROVE  Fase(k, r, q, f)
<1>1. (r.pc = "pidInit" <=> s.pc = "pidInit") /\ (PidLeido(k, s) => PidLeido(k, r))
  BY DEF PidLeido
<1>2. r.pc \in {"lazo", "pedido"} => r.pid \in Procesos
  BY DEF Fase
<1>3. Peticiones(r, q)
  BY <1>1 DEF Fase, Peticiones
<1>4. /\ EnOcioso(s, q, f) => EnOcioso(r, q, f)
      /\ EnMapa(s, q, f) => EnMapa(r, q, f)
      /\ EnContexto(k, s, q, f) => EnContexto(k, r, q, f)
      /\ EnRespuesta(k, s, q, f) => EnRespuesta(k, r, q, f)
      /\ Quieto(k, s, q, f) => Quieto(k, r, q, f)
      /\ EnGuarda(k, s, q, f) => EnGuarda(k, r, q, f)
      /\ EnSalida(k, s, q, f) => EnSalida(k, r, q, f)
  BY <1>1 DEF EnOcioso, EnMapa, EnContexto, EnRespuesta, Quieto, EnGuarda, EnSalida
<1> QED BY <1>2, <1>3, <1>4 DEF Fase

\* The map of a new Memory Stick gets in between the frames of the session.
LEMMA FaseRuido ==
  ASSUME NEW k, NEW s, NEW q, NEW a \in Seq(Tramas), NEW b \in Seq(Tramas), Fase(k, s, q, a \o b),
         NEW e \in Tramas, e.t \in Ruido
  PROVE  Fase(k, s, q, Append(a, e) \o b)
<1> DEFINE f == a \o b
           g == Append(a, e) \o b
<1>1. EsRuido(f) => EsRuido(g)
  BY RuidoEnMedio
<1>2. Acaba(f, Contextos(k.pid), {}) => Acaba(g, Contextos(k.pid), {})
  BY RuidoEnMedio
<1>3. Acaba(f, InstruccionDe(k.pid, k.ctx), {"OK", "ERROR"}) =>
        Acaba(g, InstruccionDe(k.pid, k.ctx), {"OK", "ERROR"})
  BY RuidoEnMedio
<1>4. Acaba(f, Buenas, {}) => Acaba(g, Buenas, {})
  BY RuidoEnMedio
<1>5. Fase(k, s, q, f)
  OBVIOUS
<1> HIDE DEF f, g
<1>6. /\ EnOcioso(s, q, f) => EnOcioso(s, q, g)
      /\ EnMapa(s, q, f) => EnMapa(s, q, g)
      /\ EnContexto(k, s, q, f) => EnContexto(k, s, q, g)
      /\ EnRespuesta(k, s, q, f) => EnRespuesta(k, s, q, g)
      /\ Quieto(k, s, q, f) => Quieto(k, s, q, g)
      /\ EnGuarda(k, s, q, f) => EnGuarda(k, s, q, g)
      /\ EnSalida(k, s, q, f) => EnSalida(k, s, q, g)
  BY <1>1, <1>2, <1>3, <1>4
     DEF EnOcioso, EnMapa, EnContexto, EnRespuesta, Quieto, EnGuarda, EnSalida
<1>7. Fase(k, s, q, g)
  BY <1>5, <1>6 DEF Fase
<1> QED BY <1>7 DEF g

-----------------------------------------------------------------------------
(* What every step of a CPU has in common.                                 *)

\* A frame that carries only its type is one of the protocol.
LEMMA TramaSimple ==
  ASSUME NEW tipo \in TiposDeTrama \ {"pid", "contexto", "instruccion"}
  PROVE  Trama(tipo) \in Tramas /\ Trama(tipo).t = tipo
<1>1. Nadie \in Nombres /\ 0 \in Nat
  BY DEF Nombres
<1> QED BY <1>1 DEF Trama, Tramas

\* The frames the two programs write are frames.
LEMMA TramasHechas ==
  /\ \A tipo \in TiposDeTrama \ {"pid", "contexto", "instruccion"} :
       Trama(tipo) \in Tramas /\ Trama(tipo).t = tipo
  /\ \A n \in Nat : LET e == [Trama("pc") EXCEPT !.pc = n] IN e \in Tramas /\ e.t = "pc" /\ e.pc = n
  /\ \A p \in Procesos :
       LET e == [Trama("pid") EXCEPT !.pid = p] IN e \in Tramas /\ e.t = "pid" /\ e.pid = p
  /\ \A p \in Procesos : \A n \in Nat :
       LET e == [Trama("contexto") EXCEPT !.pid = p, !.pc = n] IN
       e \in Tramas /\ e.t = "contexto" /\ e.pid = p /\ e.pc = n
  /\ \A p \in Procesos : \A n, m \in Nat :
       LET e == [Trama("contexto") EXCEPT !.pid = p, !.pc = n, !.tabla = m] IN
       e \in Tramas /\ e.t = "contexto" /\ e.pid = p /\ e.pc = n
  /\ \A p \in Procesos : \A n \in DOMAIN Programa[p] :
       LET e == [Trama("instruccion") EXCEPT !.pid = p, !.pc = n] IN
       e \in Tramas /\ e.t = "instruccion" /\ e.pid = p /\ e.pc = n
  /\ \A m \in Nat :
       LET e == [Trama("segmentos") EXCEPT !.tabla = m] IN
       e \in Tramas /\ e.t = "segmentos" /\ e.tabla = m
<1>1. Nadie \in Nombres /\ Procesos \subseteq Nombres /\ 0 \in Nat
  BY DEF Nombres
<1>2. "pc" \in TiposDeTrama /\ "pid" \in TiposDeTrama /\ "contexto" \in TiposDeTrama
      /\ "instruccion" \in TiposDeTrama /\ "segmentos" \in TiposDeTrama
  BY DEF TiposDeTrama
<1> HIDE DEF TiposDeTrama
<1>3. \A p \in Procesos : \A n \in DOMAIN Programa[p] : n \in Nat
  <2> TAKE p \in Procesos
  <2>1. Programa[p] \in Seq(Instrucciones)
    BY SesionCPUAssumption
  <2>2. DOMAIN Programa[p] = 1..Len(Programa[p]) /\ Len(Programa[p]) \in Nat
    BY <2>1, LenProperties
  <2> QED BY <2>2
<1>4. \A tipo \in TiposDeTrama \ {"pid", "contexto", "instruccion"} :
        Trama(tipo) \in Tramas /\ Trama(tipo).t = tipo
  BY TramaSimple
<1>5. \A n \in Nat :
        LET e == [Trama("pc") EXCEPT !.pc = n] IN e \in Tramas /\ e.t = "pc" /\ e.pc = n
  BY <1>1, <1>2 DEF Trama, Tramas
<1>6. \A p \in Procesos :
        LET e == [Trama("pid") EXCEPT !.pid = p] IN e \in Tramas /\ e.t = "pid" /\ e.pid = p
  BY <1>1, <1>2 DEF Trama, Tramas
<1>7. \A p \in Procesos : \A n \in Nat :
        LET e == [Trama("contexto") EXCEPT !.pid = p, !.pc = n] IN
        e \in Tramas /\ e.t = "contexto" /\ e.pid = p /\ e.pc = n
  BY <1>1, <1>2 DEF Trama, Tramas
<1>8. \A p \in Procesos : \A n, m \in Nat :
        LET e == [Trama("contexto") EXCEPT !.pid = p, !.pc = n, !.tabla = m] IN
        e \in Tramas /\ e.t = "contexto" /\ e.pid = p /\ e.pc = n
  BY <1>1, <1>2 DEF Trama, Tramas
<1>9. \A p \in Procesos : \A n \in DOMAIN Programa[p] :
        LET e == [Trama("instruccion") EXCEPT !.pid = p, !.pc = n] IN
        e \in Tramas /\ e.t = "instruccion" /\ e.pid = p /\ e.pc = n
  BY <1>1, <1>2, <1>3 DEF Trama, Tramas
<1>10. \A m \in Nat :
         LET e == [Trama("segmentos") EXCEPT !.tabla = m] IN
         e \in Tramas /\ e.t = "segmentos" /\ e.tabla = m
  BY <1>1, <1>2 DEF Trama, Tramas
<1> QED BY <1>4, <1>5, <1>6, <1>7, <1>8, <1>9, <1>10

\* The types of what one CPU has.
LEMMA TiposDe ==
  ASSUME TiposDeCPU, NEW c \in CPUs
  PROVE  /\ cpu[c] \in Registros /\ sesion[c] \in Sesiones /\ sesion[c].envio \in Seq(Tramas)
         /\ aKM[c] \in Seq(Tramas) /\ deKM[c] \in Seq(Tramas) /\ Flujo(c) \in Seq(Tramas)
         /\ aKS[c] \in Seq(Avisados) /\ deKS[c] \in Seq(Ordenes)
<1>1. /\ cpu[c] \in Registros /\ sesion[c] \in Sesiones
      /\ aKM[c] \in Seq(Tramas) /\ deKM[c] \in Seq(Tramas)
      /\ aKS[c] \in Seq(Avisados) /\ deKS[c] \in Seq(Ordenes)
  BY DEF TiposDeCPU
<1>2. sesion[c].envio \in Seq(Tramas)
  BY <1>1 DEF Sesiones
<1>3. Flujo(c) \in Seq(Tramas)
  BY <1>1, <1>2, ConcatProperties DEF Flujo
<1> QED BY <1>1, <1>2, <1>3

\* What the CPU reads comes first of what is on its way.
LEMMA Lectura ==
  ASSUME TiposDeCPU, NEW c \in CPUs, deKM[c] # <<>>
  PROVE  /\ Lee(c) \in Tramas /\ Flujo(c) # <<>> /\ Head(Flujo(c)) = Lee(c)
         /\ Tail(deKM[c]) \in Seq(Tramas) /\ Tail(deKM[c]) \o sesion[c].envio = Tail(Flujo(c))
<1>1. deKM[c] \in Seq(Tramas) /\ sesion[c].envio \in Seq(Tramas)
  BY TiposDe
<1>2. Lee(c) \in Tramas /\ Tail(deKM[c]) \in Seq(Tramas)
  BY <1>1, HeadTailProperties DEF Lee
<1>3. LET a == deKM[c]
          b == sesion[c].envio
      IN a \o b # <<>> /\ Head(a \o b) = Head(a) /\ Tail(a) \o b = Tail(a \o b)
  BY <1>1, LeerDelFlujo
<1> QED BY <1>2, <1>3 DEF Flujo, Lee

\* Only the session of c changes.
LEMMA UnaFase ==
  ASSUME Fases, NEW c \in CPUs,
         \A d \in CPUs \ {c} : /\ cpu'[d] = cpu[d] /\ sesion'[d] = sesion[d]
                               /\ aKM'[d] = aKM[d] /\ deKM'[d] = deKM[d],
         Fase(cpu'[c], sesion'[c], aKM'[c], deKM'[c] \o sesion'[c].envio)
  PROVE  Fases'
<1> SUFFICES ASSUME NEW d \in CPUs
             PROVE  Fase(cpu'[d], sesion'[d], aKM'[d], deKM'[d] \o sesion'[d].envio)
  BY DEF Fases, Flujo
<1>1. CASE d = c
  BY <1>1
<1>2. CASE d # c
  <2>1. Fase(cpu[d], sesion[d], aKM[d], deKM[d] \o sesion[d].envio)
    BY DEF Fases, Flujo
  <2> QED BY <1>2, <2>1
<1> QED BY <1>1, <1>2

\* A step of a CPU: its record is now k, the requests on their way are now u, and it may
\* have read a frame.
LEMMA PasoDeCPU ==
  ASSUME TiposDeCPU, Fases, NEW c \in CPUs, NEW k \in Registros, NEW u \in Seq(Tramas),
         cpu' = [cpu EXCEPT ![c] = k],
         aKM' = [aKM EXCEPT ![c] = u] \/ (aKM' = aKM /\ u = aKM[c]),
         UNCHANGED <<sesion, aviso>>, NEW f,
         \/ deKM' = deKM /\ f = Flujo(c)
         \/ deKM[c] # <<>> /\ deKM' = [deKM EXCEPT ![c] = Tail(@)] /\ f = Tail(Flujo(c)),
         aKS' \in [CPUs -> Seq(Avisados)], deKS' \in [CPUs -> Seq(Ordenes)],
         Fase(k, sesion[c], u, f)
  PROVE  TiposDeCPU' /\ Fases'
<1>1. /\ cpu' \in [CPUs -> Registros] /\ cpu'[c] = k
      /\ \A d \in CPUs \ {c} : cpu'[d] = cpu[d]
  BY DEF TiposDeCPU
<1>2. /\ aKM' \in [CPUs -> Seq(Tramas)] /\ aKM'[c] = u
      /\ \A d \in CPUs \ {c} : aKM'[d] = aKM[d]
  BY DEF TiposDeCPU
<1>3. /\ deKM' \in [CPUs -> Seq(Tramas)] /\ deKM'[c] \o sesion[c].envio = f
      /\ \A d \in CPUs \ {c} : deKM'[d] = deKM[d]
  <2>1. CASE deKM' = deKM /\ f = Flujo(c)
    BY <2>1 DEF TiposDeCPU, Flujo
  <2>2. CASE deKM[c] # <<>> /\ deKM' = [deKM EXCEPT ![c] = Tail(@)] /\ f = Tail(Flujo(c))
    <3>1. Tail(deKM[c]) \in Seq(Tramas) /\ Tail(deKM[c]) \o sesion[c].envio = Tail(Flujo(c))
      BY <2>2, Lectura
    <3> QED BY <2>2, <3>1 DEF TiposDeCPU
  <2> QED BY <2>1, <2>2
<1>4. TiposDeCPU'
  BY <1>1, <1>2, <1>3 DEF TiposDeCPU
<1>5. Fases'
  BY <1>1, <1>2, <1>3, UnaFase
<1> QED BY <1>4, <1>5

\* The socket of the scheduler: what a CPU writes to it and reads from it.
LEMMA EscribeKSTipo ==
  ASSUME TiposDeCPU, NEW c \in CPUs, cpu[c].pid \in Procesos,
         NEW tipo \in Llamadas \cup {"SLEEP", "ATENDIDA", "DONE", "SEG_FAULT"}, EscribeKS(c, tipo)
  PROVE  aKS' \in [CPUs -> Seq(Avisados)]
<1> DEFINE m == [t |-> tipo, pid |-> cpu[c].pid]
<1>1. m \in Avisados
  BY DEF Avisados
<1>2. aKS' = [aKS EXCEPT ![c] = Append(@, m)]
  BY DEF EscribeKS
<1> HIDE DEF m
<1>3. Append(aKS[c], m) \in Seq(Avisados)
  BY <1>1, TiposDe, AppendProperties
<1> QED BY <1>2, <1>3 DEF TiposDeCPU

\* Reading a message of the scheduler leaves messages.
LEMMA LeeKSTipo ==
  ASSUME TiposDeCPU, NEW c \in CPUs, NEW pc, LeeKS(c, pc)
  PROVE  deKS' \in [CPUs -> Seq(Ordenes)] /\ Head(deKS[c]) \in Ordenes
<1>1. deKS[c] \in Seq(Ordenes) /\ deKS[c] # <<>>
  BY TiposDe DEF LeeKS
<1>2. Head(deKS[c]) \in Ordenes /\ Tail(deKS[c]) \in Seq(Ordenes)
  BY <1>1, HeadTailProperties
<1> QED BY <1>2 DEF TiposDeCPU, LeeKS

\* Frames that follow others.
LEMMA Agrega ==
  ASSUME NEW q \in Seq(Tramas), NEW e \in Tramas
  PROVE  LET u == q \o <<e>> IN
         /\ u \in Seq(Tramas) /\ Len(u) = Len(q) + 1 /\ u[Len(q) + 1] = e /\ Len(q) \in Nat
         /\ \A i \in 1..Len(q) : u[i] = q[i]
<1>1. Append(q, e) = q \o <<e>>
  BY AppendIsConcat
<1>2. /\ Append(q, e) \in Seq(Tramas) /\ Len(Append(q, e)) = Len(q) + 1
      /\ \A i \in 1..Len(q) : Append(q, e)[i] = q[i]
      /\ Append(q, e)[Len(q) + 1] = e
  BY AppendProperties
<1>3. Len(q) \in Nat
  BY LenProperties
<1> QED BY <1>1, <1>2, <1>3

\* What is written to an empty socket is all it has.
LEMMA TrasVacia ==
  ASSUME NEW a \in Tramas, NEW b \in Tramas, NEW e \in Tramas
  PROVE  /\ <<>> \o <<a>> = <<a>> /\ <<a>> \in Seq(Tramas)
         /\ <<>> \o <<a, b>> = <<a, b>> /\ <<a, b>> \in Seq(Tramas)
         /\ <<>> \o <<a, b, e>> = <<a, b, e>> /\ <<a, b, e>> \in Seq(Tramas)
<1>1. <<a>> \in Seq(Tramas) /\ <<a, b>> \in Seq(Tramas) /\ <<a, b, e>> \in Seq(Tramas)
  OBVIOUS
<1> QED BY <1>1, ConcatEmptySeq

-----------------------------------------------------------------------------
(* The steps of a CPU keep its phase.                                       *)

\* A CPU whose session is quiet asks for the next instruction.
LEMMA FaseAlPedir ==
  ASSUME NEW k \in Registros, NEW s \in Sesiones, NEW f, Quieto(k, s, <<>>, f), k.pid \in Procesos,
         s.pc \in {"lazo", "pedido"} => s.pid \in Procesos
  PROVE  LET u == <<Trama("FETCH"), [Trama("pc") EXCEPT !.pc = k.ctx]>>
             r == [k EXCEPT !.pc = "respuesta"]
         IN <<>> \o u = u /\ u \in Seq(Tramas) /\ r \in Registros /\ Fase(r, s, u, f)
<1> DEFINE a == Trama("FETCH")
           b == [Trama("pc") EXCEPT !.pc = k.ctx]
           u == <<a, b>>
           r == [k EXCEPT !.pc = "respuesta"]
<1>0. "FETCH" \in TiposDeTrama \ {"pid", "contexto", "instruccion"}
  BY DEF TiposDeTrama
<1>1. a \in Tramas /\ a.t = "FETCH"
  BY <1>0, TramaSimple
<1>2. k.ctx \in Nat
  BY DEF Registros
<1>3. b \in Tramas /\ b.t = "pc" /\ b.pc = k.ctx
  BY <1>2, TramasHechas
<1>4. r \in Registros /\ r.pc = "respuesta" /\ r.pid = k.pid /\ r.ctx = k.ctx
  BY DEF Registros, Etapas
<1> HIDE DEF a, b, r
<1>5. <<>> \o u = u /\ u \in Seq(Tramas)
  BY <1>1, <1>3, TrasVacia
<1>6. Len(u) = 2 /\ u[1] = a /\ u[2] = b
  OBVIOUS
<1> HIDE DEF u
<1>7. PidLeido(r, s) /\ EsRuido(f) /\ s.pc # "pidInit"
  BY <1>4 DEF Quieto, PidLeido
<1>8. EnRespuesta(r, s, u, f)
  BY <1>1, <1>3, <1>4, <1>6, <1>7 DEF EnRespuesta
<1>9. Peticiones(s, u)
  BY <1>1, <1>3, <1>6, <1>7 DEF Peticiones
<1>10. Fase(r, s, u, f)
  BY <1>4, <1>8, <1>9 DEF Fase
<1> QED BY <1>4, <1>5, <1>10 DEF a, b, r, u

\* The last request of a process: what comes with it, in the two forms it has.
Ultima(tipo, k) == <<Trama(tipo), [Trama("pid") EXCEPT !.pid = k.pid],
                     [Trama("contexto") EXCEPT !.pid = k.pid, !.pc = k.ctx]>>
\* A CPU whose session is quiet asks Kernel Memory to keep its context.
LEMMA FaseAlGuardar ==
  ASSUME NEW k \in Registros, NEW s \in Sesiones, NEW f, Quieto(k, s, <<>>, f), k.pid \in Procesos,
         s.pc \in {"lazo", "pedido"} => s.pid \in Procesos,
         NEW tipo, NEW r \in Registros, r.pid = k.pid, r.ctx = k.ctx,
         \/ tipo = "INTERRUPT" /\ r.pc = "okGuarda"
         \/ tipo = "EXIT_CPU" /\ r.pc = "okExit"
  PROVE  LET u == Ultima(tipo, k) IN
         <<>> \o u = u /\ u \in Seq(Tramas) /\ Fase(r, s, u, f)
<1> DEFINE a == Trama(tipo)
           b == [Trama("pid") EXCEPT !.pid = k.pid]
           e == [Trama("contexto") EXCEPT !.pid = k.pid, !.pc = k.ctx]
           u == <<a, b, e>>
<1>0. tipo \in TiposDeTrama \ {"pid", "contexto", "instruccion"}
  BY DEF TiposDeTrama
<1>1. a \in Tramas /\ a.t = tipo
  BY <1>0, TramaSimple
<1>2. k.ctx \in Nat
  BY DEF Registros
<1>12. b \in Tramas /\ b.t = "pid"
  BY TramasHechas
<1>13. \A n \in Nat :
         LET d == [Trama("contexto") EXCEPT !.pid = k.pid, !.pc = n] IN
         d \in Tramas /\ d.t = "contexto" /\ d.pid = k.pid /\ d.pc = n
  BY TramasHechas
<1>14. e \in Tramas /\ e.t = "contexto" /\ e.pid = k.pid /\ e.pc = k.ctx
  BY <1>2, <1>13
<1>3. b \in Tramas /\ b.t = "pid" /\ e \in Tramas /\ e.t = "contexto" /\ e.pid = k.pid /\ e.pc = k.ctx
  BY <1>12, <1>14
<1> HIDE DEF a, b, e
<1>5. <<>> \o u = u /\ u \in Seq(Tramas)
  BY <1>1, <1>3, TrasVacia
<1>6. Len(u) = 3 /\ u[1] = a /\ u[2] = b /\ u[3] = e
  OBVIOUS
<1> HIDE DEF u
<1>7. EsRuido(f) /\ s.pc # "pidInit"
  BY DEF Quieto, PidLeido
<1>8. r.pc = "okGuarda" => EnGuarda(r, s, u, f)
  BY <1>1, <1>3, <1>6, <1>7 DEF EnGuarda
<1>9. r.pc = "okExit" => EnSalida(r, s, u, f)
  BY <1>1, <1>3, <1>6, <1>7 DEF EnSalida
<1>10. Peticiones(s, u)
  BY <1>1, <1>3, <1>6, <1>7 DEF Peticiones
<1>11. Fase(r, s, u, f)
  BY <1>8, <1>9, <1>10 DEF Fase
<1> QED BY <1>5, <1>11 DEF a, b, e, u, Ultima

\* A CPU that has ended reads nothing more, and one that waits for a PID has nothing to ask.
LEMMA FaseDeFin ==
  ASSUME NEW k, NEW s, NEW q, NEW f, Fase(k, s, q, f), NEW r, r.pc = "fin", NEW g
  PROVE  Fase(r, s, q, g)
BY DEF Fase

\* A CPU whose session is quiet may go on to any step that leaves it so.
LEMMA FaseQuieta ==
  ASSUME NEW k \in Registros, NEW s, NEW q, NEW f, NEW r \in Registros, Fase(k, s, q, f),
         Quieto(k, s, q, f), r.pid = k.pid, r.pid \in Procesos,
         r.pc \in {"interrupciones", "ackSegFault", "respKS"},
         r.pc = "respKS" => r.instr.t = "instruccion" /\ InstruccionSuya(r)
  PROVE  Fase(r, s, q, f)
BY DEF Fase, Quieto, PidLeido

\* The record of an idle CPU.
LEMMA OciosaTipo == CPUOciosa \in Registros /\ CPUOciosa.pc = "ocioso"
<1>0. "nada" \in TiposDeTrama \ {"pid", "contexto", "instruccion"}
  BY DEF TiposDeTrama
<1>1. Trama("nada") \in Tramas
  BY <1>0, TramaSimple
<1> QED BY <1>1 DEF CPUOciosa, Registros, Etapas, Nombres

\* The CPU goes back to wait for a PID when its session is quiet, or has been answered.
LEMMA FaseOciosa ==
  ASSUME NEW k \in Registros, NEW s, NEW q \in Seq(Tramas), NEW f, Fase(k, s, q, f), s.pc # "pidInit",
         NEW g, EsRuido(g), q = <<>>
  PROVE  /\ Fase(CPUOciosa, s, q, g)
         /\ Fase(CPUOciosa, s, <<Trama("SEG_FAULT")>>, g)
         /\ <<>> \o <<Trama("SEG_FAULT")>> = <<Trama("SEG_FAULT")>>
         /\ <<Trama("SEG_FAULT")>> \in Seq(Tramas)
<1> DEFINE a == Trama("SEG_FAULT")
           u == <<a>>
<1>0. "SEG_FAULT" \in TiposDeTrama \ {"pid", "contexto", "instruccion"}
  BY DEF TiposDeTrama
<1>1. a \in Tramas /\ a.t = "SEG_FAULT"
  BY <1>0, TramaSimple
<1> HIDE DEF a
<1>2. Len(u) = 1 /\ u[1] = a /\ u \in Seq(Tramas) /\ <<>> \o u = u
  BY <1>1, TrasVacia
<1> HIDE DEF u
<1>3. CPUOciosa.pc = "ocioso"
  BY OciosaTipo
<1>4. EnOcioso(s, q, g) /\ EnOcioso(s, u, g)
  BY <1>1, <1>2 DEF EnOcioso
<1>5. Peticiones(s, u) /\ Peticiones(s, q)
  BY <1>1, <1>2 DEF Peticiones, Fase
<1>6. Fase(CPUOciosa, s, q, g) /\ Fase(CPUOciosa, s, u, g)
  BY <1>3, <1>4, <1>5 DEF Fase
<1> QED BY <1>2, <1>6 DEF a, u

\* esperar_pid keeps the phases: the CPU asks for the map of a new process, or drops the message.
LEMMA esperar_pidPaso ==
  ASSUME TiposDeCPU, Fases, NEW c \in CPUs, esperar_pid(c)
  PROVE  TiposDeCPU' /\ Fases'
<1> DEFINE m == Head(deKS[c])
           k == [CPUOciosa EXCEPT !.pc = "mapaCod", !.pid = m.pid]
           q == aKM[c]
           a == Trama("INIT")
           u == q \o <<a>>
           s == sesion[c]
           f == Flujo(c)
<1>1. /\ LeeKS(c, "ocioso")
      /\ deKM' = deKM /\ aKS' = aKS /\ UNCHANGED <<sesion, aviso>>
  BY DEF esperar_pid, enKM
<1>2. deKS' \in [CPUs -> Seq(Ordenes)] /\ m \in Ordenes
  BY <1>1, LeeKSTipo
<1>3. aKS' \in [CPUs -> Seq(Avisados)]
  BY <1>1 DEF TiposDeCPU
<1>4. q \in Seq(Tramas) /\ s \in Sesiones
  BY TiposDe
<1>5. CASE m.t = "PID"
  <2>1. cpu' = [cpu EXCEPT ![c] = k] /\ aKM' = [aKM EXCEPT ![c] = u]
    BY <1>5 DEF esperar_pid, EscribeKM
  <2>2. k \in Registros /\ k.pc = "mapaCod" /\ k.pid = m.pid /\ m.pid \in Procesos
    BY <1>2, OciosaTipo DEF Registros, Etapas, Ordenes, Nombres
  <2>3. "INIT" \in TiposDeTrama \ {"pid", "contexto", "instruccion"}
    BY DEF TiposDeTrama
  <2>4. a \in Tramas /\ a.t = "INIT"
    BY <2>3, TramasHechas
  <2> HIDE DEF a
  <2>5. /\ u \in Seq(Tramas) /\ Len(u) = Len(q) + 1 /\ u[Len(q) + 1] = a /\ Len(q) \in Nat
        /\ \A i \in 1..Len(q) : u[i] = q[i]
    BY <1>4, <2>4, Agrega
  <2>6. Fase(cpu[c], s, q, f) /\ cpu[c].pc = "ocioso"
    BY <1>1 DEF Fases, LeeKS, EnPC
  <2> HIDE DEF k, u, q, s, f, m
  <2>7. EnOcioso(s, q, f)
    BY <2>6 DEF Fase
  <2>8. q = <<>> <=> Len(q) = 0
    BY <1>4, EmptySeq
  <2>9. \/ Len(u) = 1 /\ u[1].t = "INIT"
        \/ Len(u) = 2 /\ u[1].t = "SEG_FAULT" /\ u[2].t = "INIT"
    <3>1. CASE q = <<>>
      BY <3>1, <2>4, <2>5, <2>8
    <3>2. CASE Len(q) = 1 /\ q[1].t = "SEG_FAULT"
      BY <3>2, <2>4, <2>5
    <3> QED BY <3>1, <3>2, <2>7 DEF EnOcioso
  <2>10. EnMapa(s, u, f) /\ Peticiones(s, u)
    BY <2>7, <2>9 DEF EnMapa, Peticiones, EnOcioso
  <2>11. Fase(k, s, u, f)
    BY <2>2, <2>6, <2>10 DEF Fase
  <2> QED BY <1>1, <1>2, <1>3, <2>1, <2>2, <2>5, <2>11, PasoDeCPU DEF s, f
<1>6. CASE m.t # "PID"
  <2>1. cpu' = cpu /\ aKM' = aKM
    BY <1>6 DEF esperar_pid
  <2> QED BY <1>1, <1>2, <1>3, <2>1 DEF TiposDeCPU, Fases, Flujo
<1> QED BY <1>5, <1>6

\* recibir_mapa keeps the phases: with any frame in the place of the map the CPU ends.
LEMMA recibir_mapaPaso ==
  ASSUME TiposDeCPU, Fases, NEW c \in CPUs, recibir_mapa(c)
  PROVE  TiposDeCPU' /\ Fases'
<1> DEFINE q == aKM[c]
           s == sesion[c]
           f == Flujo(c)
           g == Tail(f)
           x == cpu[c]
<1>1. UNCHANGED <<sesion, aviso, aKS, deKS>>
  BY DEF recibir_mapa, SoloKM
<1>2. aKS' \in [CPUs -> Seq(Avisados)] /\ deKS' \in [CPUs -> Seq(Ordenes)]
  BY <1>1 DEF TiposDeCPU
<1>3. q \in Seq(Tramas) /\ s \in Sesiones /\ x \in Registros /\ f \in Seq(Tramas)
  BY TiposDe
<1>4. /\ x.pc \in {"mapaCod", "mapaBuf"} /\ deKM[c] # <<>> /\ deKM' = [deKM EXCEPT ![c] = Tail(@)]
  BY DEF recibir_mapa, LeeKM, EnPC
<1>5. Fase(x, s, q, f)
  BY DEF Fases
<1>6. f # <<>>
  BY <1>4, Lectura
<1>7. EnMapa(s, q, f) /\ x.pid \in Procesos
  BY <1>4, <1>5 DEF Fase
<1>8. EsRuido(g)
  BY <1>3, <1>6, <1>7, RuidoCola DEF EnMapa
<1>9. EnMapa(s, q, g)
  BY <1>7, <1>8 DEF EnMapa
<1>10. ASSUME NEW pc \in {"mapaBuf", "fin"}, Va(c, pc), aKM' = aKM
       PROVE  TiposDeCPU' /\ Fases'
  <2> DEFINE k == [x EXCEPT !.pc = pc]
  <2>1. cpu' = [cpu EXCEPT ![c] = k]
    BY <1>10 DEF Va
  <2>2. k \in Registros /\ k.pc = pc /\ k.pid = x.pid
    BY <1>3 DEF Registros, Etapas
  <2> HIDE DEF k, x, s, q, f, g
  <2>3. Fase(k, s, q, g)
    BY <1>5, <1>7, <1>9, <2>2 DEF Fase
  <2>4. aKM' = aKM /\ q = aKM[c] /\ g = Tail(Flujo(c))
    BY <1>10 DEF q, g, f
  <2> QED BY <1>1, <1>2, <1>3, <1>4, <2>1, <2>2, <2>3, <2>4, PasoDeCPU DEF s
<1>11. ASSUME Va(c, "contexto"), EscribeKM(c, <<[Trama("pid") EXCEPT !.pid = x.pid]>>)
       PROVE  TiposDeCPU' /\ Fases'
  <2> DEFINE k == [x EXCEPT !.pc = "contexto"]
             a == [Trama("pid") EXCEPT !.pid = x.pid]
             u == q \o <<a>>
  <2>1. cpu' = [cpu EXCEPT ![c] = k] /\ aKM' = [aKM EXCEPT ![c] = u]
    BY <1>11 DEF Va, EscribeKM
  <2>2. k \in Registros /\ k.pc = "contexto" /\ k.pid = x.pid
    BY <1>3 DEF Registros, Etapas
  <2>3. a \in Tramas /\ a.t = "pid" /\ a.pid = x.pid
    BY <1>7, TramasHechas
  <2> HIDE DEF a
  <2>5. /\ u \in Seq(Tramas) /\ Len(u) = Len(q) + 1 /\ u[Len(q) + 1] = a /\ Len(q) \in Nat
        /\ \A i \in 1..Len(q) : u[i] = q[i]
    BY <1>3, <2>3, Agrega
  <2> HIDE DEF k, u, q, s, f, x, g
  <2>8. q = <<>> <=> Len(q) = 0
    BY <1>3, EmptySeq
  <2>9. /\ \/ Len(u) = 1 /\ u[1].t = "pid" /\ u[1].pid = k.pid
           \/ Len(u) = 2 /\ u[1].t = "INIT" /\ u[2].t = "pid" /\ u[2].pid = k.pid
           \/ /\ Len(u) = 3 /\ u[1].t = "SEG_FAULT" /\ u[2].t = "INIT"
              /\ u[3].t = "pid" /\ u[3].pid = k.pid
        /\ s.pc = "pidInit" => Len(u) = 1
    <3>1. CASE q = <<>>
      BY <3>1, <2>2, <2>3, <2>5, <2>8
    <3>2. CASE Len(q) = 1 /\ q[1].t = "INIT"
      BY <3>2, <2>2, <2>3, <2>5, <1>7, <2>8 DEF EnMapa
    <3>3. CASE Len(q) = 2 /\ q[1].t = "SEG_FAULT" /\ q[2].t = "INIT"
      BY <3>3, <2>2, <2>3, <2>5, <1>7, <2>8 DEF EnMapa
    <3> QED BY <3>1, <3>2, <3>3, <1>7 DEF EnMapa
  <2>10. EnContexto(k, s, u, g) /\ Peticiones(s, u)
    BY <1>8, <2>9 DEF EnContexto, Peticiones
  <2>11. Fase(k, s, u, g)
    BY <1>5, <1>7, <2>2, <2>10 DEF Fase
  <2>12. g = Tail(Flujo(c))
    BY DEF g, f
  <2> QED BY <1>1, <1>2, <1>4, <2>1, <2>2, <2>5, <2>11, <2>12, PasoDeCPU DEF s
<1>12. \/ \E pc \in {"mapaBuf", "fin"} : Va(c, pc) /\ aKM' = aKM
       \/ Va(c, "contexto") /\ EscribeKM(c, <<[Trama("pid") EXCEPT !.pid = x.pid]>>)
  <2>1. CASE EnPC(c, "mapaCod")
    <3>1. Va(c, IF Lee(c).t = "MAPA" THEN "mapaBuf" ELSE "fin") /\ aKM' = aKM
      BY <2>1 DEF recibir_mapa, LeeKM, EnPC
    <3>2. (IF Lee(c).t = "MAPA" THEN "mapaBuf" ELSE "fin") \in {"mapaBuf", "fin"}
      OBVIOUS
    <3> QED BY <3>1, <3>2
  <2>2. CASE ~EnPC(c, "mapaCod")
    <3>1. IF Lee(c).t = "mapa"
          THEN Va(c, "contexto") /\ EscribeKM(c, <<[Trama("pid") EXCEPT !.pid = x.pid]>>)
          ELSE Va(c, "fin") /\ aKM' = aKM
      BY <2>2 DEF recibir_mapa, LeeKM
    <3> QED BY <3>1
  <2> QED BY <2>1, <2>2
<1> QED BY <1>10, <1>11, <1>12

\* The context is the first frame that is one: with a map in its place the CPU ends.
LEMMA recibirContextoPaso ==
  ASSUME TiposDeCPU, Fases, NEW c \in CPUs, recibirContexto(c)
  PROVE  TiposDeCPU' /\ Fases'
<1> DEFINE q == aKM[c]
           s == sesion[c]
           f == Flujo(c)
           g == Tail(f)
           x == cpu[c]
           m == Lee(c)
<1>1. UNCHANGED <<sesion, aviso, aKS, deKS>>
  BY DEF recibirContexto, SoloKM
<1>2. aKS' \in [CPUs -> Seq(Avisados)] /\ deKS' \in [CPUs -> Seq(Ordenes)]
  BY <1>1 DEF TiposDeCPU
<1>3. q \in Seq(Tramas) /\ s \in Sesiones /\ x \in Registros /\ f \in Seq(Tramas)
  BY TiposDe
<1>4. x.pc = "contexto" /\ deKM[c] # <<>> /\ deKM' = [deKM EXCEPT ![c] = Tail(@)]
  BY DEF recibirContexto, LeeKM, EnPC
<1>5. Fase(x, s, q, f)
  BY DEF Fases
<1>6. f # <<>> /\ Head(f) = m /\ m \in Tramas
  BY <1>4, Lectura
<1>7. EnContexto(x, s, q, f) /\ x.pid \in Procesos /\ (s.pc \in {"lazo", "pedido"} => s.pid \in Procesos)
  BY <1>4, <1>5 DEF Fase
<1>8. CASE m.t = "contexto"
  <2> DEFINE k == [x EXCEPT !.ctx = m.pc, !.tabla = m.tabla]
             r == [k EXCEPT !.pc = "respuesta"]
             u == <<Trama("FETCH"), [Trama("pc") EXCEPT !.pc = k.ctx]>>
  <2>1. cpu' = [cpu EXCEPT ![c] = r] /\ aKM' = [aKM EXCEPT ![c] = @ \o u]
    BY <1>8 DEF recibirContexto, deserializar_contexto, fetch, EscribeKM
  <2>2. m.pc \in Nat /\ m.tabla \in Nat
    BY <1>6 DEF Tramas
  <2>3. k \in Registros /\ k.pid = x.pid
    BY <1>3, <2>2 DEF Registros
  <2>4. ~EsRuido(f)
    <3>1. "contexto" \notin Ruido
      BY DEF Ruido
    <3> QED BY <3>1, <1>3, <1>6, <1>8, RuidoCola
  <2>5. q = <<>> /\ s.pc # "pidInit" /\ s.pid = x.pid /\ Acaba(f, Contextos(x.pid), {})
    BY <1>7, <2>4 DEF EnContexto
  <2>6. EsRuido(g)
    <3>1. "contexto" \notin Ruido \cup {}
      BY DEF Ruido
    <3>2. Head(f).t \in Ruido \cup {} \/ (Head(f) \in Contextos(x.pid) /\ EsRuido(Tail(f)))
      BY <1>3, <1>6, <2>5, AcabaCola
    <3> QED BY <3>1, <3>2, <1>6, <1>8
  <2>7. Quieto(k, s, <<>>, g)
    BY <2>3, <2>5, <2>6 DEF Quieto, PidLeido
  <2>8. <<>> \o u = u /\ u \in Seq(Tramas) /\ r \in Registros /\ Fase(r, s, u, g)
    BY <1>3, <1>7, <2>3, <2>7, FaseAlPedir
  <2>9. aKM' = [aKM EXCEPT ![c] = u]
    BY <2>1, <2>5, <2>8
  <2> HIDE DEF r, u, k, x
  <2> QED BY <1>1, <1>2, <1>4, <2>1, <2>8, <2>9, PasoDeCPU
<1>9. CASE m.t # "contexto"
  <2> DEFINE k == [x EXCEPT !.pc = "fin"]
  <2>1. cpu' = [cpu EXCEPT ![c] = k] /\ aKM' = aKM
    BY <1>9 DEF recibirContexto, deserializar_contexto, Va
  <2>2. k \in Registros /\ k.pc = "fin"
    BY <1>3 DEF Registros, Etapas
  <2>3. Fase(k, s, q, g)
    BY <1>5, <2>2, FaseDeFin
  <2> HIDE DEF k, x
  <2> QED BY <1>1, <1>2, <1>3, <1>4, <2>1, <2>2, <2>3, PasoDeCPU
<1> QED BY <1>8, <1>9

\* Whatever answer is read, an instruction that follows is the one that was asked for.
LEMMA recibirInstruccionPaso ==
  ASSUME TiposDeCPU, Fases, NEW c \in CPUs, recibirInstruccion(c)
  PROVE  TiposDeCPU' /\ Fases'
<1> DEFINE q == aKM[c]
           s == sesion[c]
           f == Flujo(c)
           g == Tail(f)
           x == cpu[c]
           m == Lee(c)
           I == InstruccionDe(x.pid, x.ctx)
<1>1. UNCHANGED <<sesion, aviso, aKS, deKS, aKM>>
  BY DEF recibirInstruccion, SoloKM
<1>2. aKS' \in [CPUs -> Seq(Avisados)] /\ deKS' \in [CPUs -> Seq(Ordenes)]
  BY <1>1 DEF TiposDeCPU
<1>3. q \in Seq(Tramas) /\ s \in Sesiones /\ x \in Registros /\ f \in Seq(Tramas)
  BY TiposDe
<1>4. x.pc \in {"respuesta", "instruccion"} /\ deKM[c] # <<>> /\ deKM' = [deKM EXCEPT ![c] = Tail(@)]
  BY DEF recibirInstruccion, LeeKM, EnPC
<1>5. Fase(x, s, q, f)
  BY DEF Fases
<1>6. f # <<>> /\ Head(f) = m /\ m \in Tramas
  BY <1>4, Lectura
<1>7. EnRespuesta(x, s, q, f) /\ x.pid \in Procesos
  BY <1>4, <1>5 DEF Fase
<1>8. EsRuido(f) => EsRuido(g) /\ m.t \in Ruido
  BY <1>3, <1>6, RuidoCola
<1>9. Acaba(f, I, {"OK", "ERROR"}) =>
        /\ Acaba(g, I, {"OK", "ERROR"})
        /\ m.t \in Ruido \cup {"OK", "ERROR"} \/ (m \in I /\ EsRuido(g))
  BY <1>3, <1>6, AcabaCola
<1>10. ASSUME NEW k \in Registros, cpu' = [cpu EXCEPT ![c] = k], Fase(k, s, q, g)
       PROVE  TiposDeCPU' /\ Fases'
  <2>1. q = aKM[c] /\ s = sesion[c] /\ g = Tail(Flujo(c))
    OBVIOUS
  <2> HIDE DEF q, s, g
  <2> QED BY <1>1, <1>2, <1>3, <1>4, <1>10, <2>1, PasoDeCPU
<1>11. CASE x.pc = "respuesta"
  <2> DEFINE pc == IF m.t = "ERROR" THEN "fin" ELSE "instruccion"
             k == [x EXCEPT !.pc = pc]
  <2>0. pc \in {"fin", "instruccion"}
    OBVIOUS
  <2>1. cpu' = [cpu EXCEPT ![c] = k]
    BY <1>11 DEF recibirInstruccion, LeeKM, EnPC, Va
  <2> HIDE DEF pc
  <2>2. k \in Registros /\ k.pc = pc /\ k.pid = x.pid /\ k.ctx = x.ctx
    BY <1>3, <2>0 DEF Registros, Etapas
  <2> HIDE DEF k
  <2>3. EnRespuesta(k, s, q, g)
    BY <1>7, <1>8, <1>9, <2>2 DEF EnRespuesta, PidLeido
  <2> HIDE DEF x
  <2>4. Fase(k, s, q, g)
    BY <1>5, <1>7, <2>0, <2>2, <2>3 DEF Fase
  <2> QED BY <2>1, <2>2, <2>4, <1>10
<1>12. CASE x.pc = "instruccion"
  <2> DEFINE k == [x EXCEPT !.instr = m, !.pc = "tabla"]
  <2>1. cpu' = [cpu EXCEPT ![c] = k]
    BY <1>12 DEF recibirInstruccion, LeeKM, EnPC
  <2>2. /\ k \in Registros /\ k.pc = "tabla" /\ k.pid = x.pid /\ k.ctx = x.ctx
        /\ k.instr = m
    BY <1>3, <1>6 DEF Registros, Etapas
  <2> HIDE DEF k
  <2>3. k.instr.t = "instruccion" => InstruccionSuya(k) /\ Quieto(k, s, q, g)
    <3> SUFFICES ASSUME m.t = "instruccion" PROVE InstruccionSuya(k) /\ Quieto(k, s, q, g)
      BY <2>2
    <3>1. m.t \notin Ruido /\ m.t \notin Ruido \cup {"OK", "ERROR"}
      BY DEF Ruido
    <3>2. q = <<>> /\ Acaba(f, I, {"OK", "ERROR"}) /\ PidLeido(x, s)
      BY <1>7, <1>8, <3>1 DEF EnRespuesta
    <3>3. m \in I /\ EsRuido(g)
      BY <1>9, <3>1, <3>2
    <3>4. m.pid = x.pid /\ m.pc = x.ctx
      BY <3>3 DEF InstruccionDe
    <3> QED BY <2>2, <3>2, <3>3, <3>4 DEF InstruccionSuya, Quieto, PidLeido
  <2> HIDE DEF x, m
  <2>4. Fase(k, s, q, g)
    BY <1>5, <1>7, <2>2, <2>3 DEF Fase
  <2> QED BY <2>1, <2>2, <2>4, <1>10
<1> QED BY <1>4, <1>11, <1>12

\* Taking the table keeps the phases, whatever frame is taken for it.
LEMMA actualizar_tabla_segmentosPaso ==
  ASSUME TiposDeCPU, Fases, NEW c \in CPUs, actualizar_tabla_segmentos(c)
  PROVE  TiposDeCPU' /\ Fases'
<1> DEFINE q == aKM[c]
           s == sesion[c]
           f == Flujo(c)
           g == Tail(f)
           x == cpu[c]
           m == Lee(c)
<1>1. UNCHANGED <<sesion, aviso, aKS, deKS, aKM>>
  BY DEF actualizar_tabla_segmentos, SoloKM
<1>2. aKS' \in [CPUs -> Seq(Avisados)] /\ deKS' \in [CPUs -> Seq(Ordenes)]
  BY <1>1 DEF TiposDeCPU
<1>3. q \in Seq(Tramas) /\ s \in Sesiones /\ x \in Registros /\ f \in Seq(Tramas)
  BY TiposDe
<1>4. x.pc \in {"tabla", "segmentos"} /\ deKM[c] # <<>> /\ deKM' = [deKM EXCEPT ![c] = Tail(@)]
  BY DEF actualizar_tabla_segmentos, LeeKM, EnPC
<1>5. Fase(x, s, q, f)
  BY DEF Fases
<1>6. f # <<>> /\ Head(f) = m /\ m \in Tramas
  BY <1>4, Lectura
<1>7. x.pid \in Procesos /\ (x.instr.t = "instruccion" => InstruccionSuya(x) /\ Quieto(x, s, q, f))
  BY <1>4, <1>5 DEF Fase
<1>8. EsRuido(f) => EsRuido(g)
  BY <1>3, <1>6, RuidoCola
<1>10. ASSUME NEW k \in Registros, cpu' = [cpu EXCEPT ![c] = k], k.pc \in {"segmentos", "ejecuta"},
              k.pid = x.pid, k.ctx = x.ctx, k.instr = x.instr
       PROVE  TiposDeCPU' /\ Fases'
  <2>1. q = aKM[c] /\ s = sesion[c] /\ g = Tail(Flujo(c))
    OBVIOUS
  <2>2. k.instr.t = "instruccion" => InstruccionSuya(k) /\ Quieto(k, s, q, g)
    BY <1>7, <1>8, <1>10 DEF InstruccionSuya, Quieto, PidLeido
  <2> HIDE DEF q, s, g, x
  <2>3. Fase(k, s, q, g)
    BY <1>5, <1>7, <1>10, <2>2 DEF Fase
  <2> QED BY <1>1, <1>2, <1>3, <1>4, <1>10, <2>1, <2>3, PasoDeCPU
<1>11. CASE x.pc = "tabla"
  <2> DEFINE pc == IF m.t = "NO_VACIA" THEN "segmentos" ELSE "ejecuta"
             k == [x EXCEPT !.pc = pc]
  <2>0. pc \in {"segmentos", "ejecuta"}
    OBVIOUS
  <2>1. cpu' = [cpu EXCEPT ![c] = k]
    BY <1>11 DEF actualizar_tabla_segmentos, LeeKM, EnPC, Va
  <2> HIDE DEF pc
  <2>2. k \in Registros /\ k.pc = pc /\ k.pid = x.pid /\ k.ctx = x.ctx /\ k.instr = x.instr
    BY <1>3, <2>0 DEF Registros, Etapas
  <2> HIDE DEF k
  <2> QED BY <2>0, <2>1, <2>2, <1>10
<1>12. CASE x.pc = "segmentos"
  <2> DEFINE tb == IF m.t = "segmentos" THEN m.tabla ELSE x.tabla
             k == [x EXCEPT !.pc = "ejecuta", !.tabla = tb]
  <2>1. cpu' = [cpu EXCEPT ![c] = k]
    BY <1>12 DEF actualizar_tabla_segmentos, LeeKM, EnPC
  <2>0. tb \in Nat
    BY <1>3, <1>6 DEF Registros, Tramas
  <2> HIDE DEF tb
  <2>2. k \in Registros /\ k.pc = "ejecuta" /\ k.pid = x.pid /\ k.ctx = x.ctx /\ k.instr = x.instr
    BY <1>3, <2>0 DEF Registros, Etapas
  <2> HIDE DEF k
  <2> QED BY <2>1, <2>2, <1>10
<1> QED BY <1>4, <1>11, <1>12

\* The answer that ends a session, after a context or after EXIT.
LEMMA guardadoPaso ==
  ASSUME TiposDeCPU, Fases, NEW c \in CPUs, guardado(c) \/ okExit(c)
  PROVE  TiposDeCPU' /\ Fases'
<1> DEFINE q == aKM[c]
           s == sesion[c]
           f == Flujo(c)
           g == Tail(f)
           x == cpu[c]
           m == Lee(c)
<1>1. UNCHANGED <<sesion, aviso, deKS, aKM>>
  BY DEF guardado, okExit, SoloKM, enKM
<1>3. q \in Seq(Tramas) /\ s \in Sesiones /\ x \in Registros /\ f \in Seq(Tramas)
  BY TiposDe
<1>4. x.pc \in {"okGuarda", "okExit"} /\ deKM[c] # <<>> /\ deKM' = [deKM EXCEPT ![c] = Tail(@)]
  BY DEF guardado, okExit, LeeKM, EnPC
<1>5. Fase(x, s, q, f)
  BY DEF Fases
<1>6. f # <<>> /\ Head(f) = m /\ m \in Tramas
  BY <1>4, Lectura
<1>7. x.pid \in Procesos /\ (EnGuarda(x, s, q, f) \/ EnSalida(x, s, q, f))
  BY <1>4, <1>5 DEF Fase
<1>8. EsRuido(f) => m.t \in Ruido
  BY <1>3, <1>6, RuidoCola
<1>9. Acaba(f, Buenas, {}) => m.t \in Ruido \cup {} \/ (m \in Buenas /\ EsRuido(g))
  BY <1>3, <1>6, AcabaCola
<1>10. deKS' \in [CPUs -> Seq(Ordenes)]
  BY <1>1 DEF TiposDeCPU
<1>11. aKS' \in [CPUs -> Seq(Avisados)]
  <2>1. CASE aKS' = aKS
    BY <2>1 DEF TiposDeCPU
  <2>2. CASE ~(aKS' = aKS)
    <3>1. x.tras \in {"SLEEP", "ATENDIDA"} /\ EscribeKS(c, x.tras)
      BY <2>2 DEF guardado, okExit, SoloKM
    <3>2. cpu[c].pid \in Procesos /\ x.tras \in Llamadas \cup {"SLEEP", "ATENDIDA", "DONE", "SEG_FAULT"}
      BY <1>7, <3>1
    <3> QED BY <3>1, <3>2, EscribeKSTipo
  <2> QED BY <2>1, <2>2
<1>12. CASE m.t = "OK"
  <2>1. cpu' = [cpu EXCEPT ![c] = CPUOciosa]
    BY <1>12 DEF guardado, okExit, Ocioso
  <2>2. m.t \notin Ruido /\ m.t \notin Ruido \cup {}
    BY <1>12 DEF Ruido
  <2>3. q = <<>> /\ Acaba(f, Buenas, {}) /\ s.pc # "pidInit"
    BY <1>7, <1>8, <2>2 DEF EnGuarda, EnSalida
  <2>4. EsRuido(g)
    BY <1>9, <2>2, <2>3
  <2>5. Fase(CPUOciosa, s, q, g)
    BY <1>3, <1>5, <2>3, <2>4, FaseOciosa
  <2> QED BY <1>1, <1>3, <1>4, <1>10, <1>11, <2>1, <2>5, OciosaTipo, PasoDeCPU
<1>13. CASE m.t # "OK"
  <2> DEFINE k == [x EXCEPT !.pc = "fin"]
  <2>1. cpu' = [cpu EXCEPT ![c] = k]
    BY <1>13 DEF guardado, okExit, Va
  <2>2. k \in Registros /\ k.pc = "fin"
    BY <1>3 DEF Registros, Etapas
  <2>3. Fase(k, s, q, g)
    BY <1>5, <2>2, FaseDeFin
  <2> HIDE DEF k, x
  <2> QED BY <1>1, <1>3, <1>4, <1>10, <1>11, <2>1, <2>2, <2>3, PasoDeCPU
<1> QED BY <1>12, <1>13

\* What the instruction, the interrupt and the answer of the scheduler have in common: the
\* session of the CPU is quiet, and nothing is read from Kernel Memory.
Callada(c) ==
  LET x == cpu[c] IN
  /\ TiposDeCPU /\ Fases /\ x.pid \in Procesos
  /\ Quieto(x, sesion[c], aKM[c], Flujo(c))

\* A CPU that goes on without asking anything.
LEMMA CambiaCallada ==
  ASSUME NEW c \in CPUs, Callada(c), NEW k \in Registros, cpu' = [cpu EXCEPT ![c] = k],
         k.pid = cpu[c].pid,
         \/ k.pc \in {"interrupciones", "ackSegFault", "fin"}
         \/ k.pc = "respKS" /\ k.instr.t = "instruccion" /\ InstruccionSuya(k),
         UNCHANGED <<aKM, deKM, sesion, aviso>>,
         aKS' \in [CPUs -> Seq(Avisados)], deKS' \in [CPUs -> Seq(Ordenes)]
  PROVE  TiposDeCPU' /\ Fases'
<1> DEFINE q == aKM[c]
           s == sesion[c]
           f == Flujo(c)
           x == cpu[c]
<1>1. TiposDeCPU /\ Fases /\ Quieto(x, s, q, f) /\ x.pid \in Procesos
  BY DEF Callada
<1>2. Fase(x, s, q, f)
  BY <1>1 DEF Fases
<1>3. q \in Seq(Tramas) /\ x \in Registros
  BY <1>1, TiposDe
<1> HIDE DEF x, s, q, f
<1>4. Fase(k, s, q, f)
  <2>1. CASE k.pc = "fin"
    BY <2>1, <1>2, FaseDeFin
  <2>2. CASE k.pc # "fin"
    BY <2>2, <1>1, <1>2, <1>3, FaseQuieta DEF x
  <2> QED BY <2>1, <2>2
<1> QED BY <1>1, <1>3, <1>4, PasoDeCPU DEF q, s, f

\* A CPU that asks for its next instruction.
LEMMA PideCallada ==
  ASSUME NEW c \in CPUs, Callada(c), NEW k \in Registros, k.pid = cpu[c].pid, fetch(c, k),
         UNCHANGED <<deKM, sesion, aviso>>,
         aKS' \in [CPUs -> Seq(Avisados)], deKS' \in [CPUs -> Seq(Ordenes)]
  PROVE  TiposDeCPU' /\ Fases'
<1> DEFINE q == aKM[c]
           s == sesion[c]
           f == Flujo(c)
           x == cpu[c]
           r == [k EXCEPT !.pc = "respuesta"]
           u == <<Trama("FETCH"), [Trama("pc") EXCEPT !.pc = k.ctx]>>
<1>1. TiposDeCPU /\ Fases /\ Quieto(x, s, q, f) /\ x.pid \in Procesos
  BY DEF Callada
<1>2. cpu' = [cpu EXCEPT ![c] = r] /\ aKM' = [aKM EXCEPT ![c] = @ \o u]
  BY DEF fetch, EscribeKM
<1>3. s \in Sesiones /\ (s.pc \in {"lazo", "pedido"} => s.pid \in Procesos)
  BY <1>1, TiposDe DEF Fases, Fase
<1>4. q = <<>> /\ Quieto(k, s, <<>>, f) /\ k.pid \in Procesos
  BY <1>1 DEF Quieto, PidLeido
<1>5. <<>> \o u = u /\ u \in Seq(Tramas) /\ r \in Registros /\ Fase(r, s, u, f)
  BY <1>3, <1>4, FaseAlPedir
<1>6. aKM' = [aKM EXCEPT ![c] = u]
  BY <1>2, <1>4, <1>5
<1> HIDE DEF r, u, x, q
<1> QED BY <1>1, <1>2, <1>5, <1>6, PasoDeCPU

\* A CPU that sends its context with its last request.
LEMMA GuardaCallada ==
  ASSUME NEW c \in CPUs, Callada(c), NEW k \in Registros, k.pid = cpu[c].pid, NEW tipo,
         NEW r \in Registros, r.pid = k.pid, r.ctx = k.ctx,
         \/ tipo = "INTERRUPT" /\ r.pc = "okGuarda"
         \/ tipo = "EXIT_CPU" /\ r.pc = "okExit",
         cpu' = [cpu EXCEPT ![c] = r], EscribeKM(c, Ultima(tipo, k)),
         UNCHANGED <<deKM, sesion, aviso>>,
         aKS' \in [CPUs -> Seq(Avisados)], deKS' \in [CPUs -> Seq(Ordenes)]
  PROVE  TiposDeCPU' /\ Fases'
<1> DEFINE q == aKM[c]
           s == sesion[c]
           f == Flujo(c)
           x == cpu[c]
           u == Ultima(tipo, k)
<1>1. TiposDeCPU /\ Fases /\ Quieto(x, s, q, f) /\ x.pid \in Procesos
  BY DEF Callada
<1>2. aKM' = [aKM EXCEPT ![c] = @ \o u]
  BY DEF EscribeKM
<1>3. s \in Sesiones /\ (s.pc \in {"lazo", "pedido"} => s.pid \in Procesos)
  BY <1>1, TiposDe DEF Fases, Fase
<1>4. q = <<>> /\ Quieto(k, s, <<>>, f) /\ k.pid \in Procesos
  BY <1>1 DEF Quieto, PidLeido
<1>5. <<>> \o u = u /\ u \in Seq(Tramas) /\ Fase(r, s, u, f)
  BY <1>3, <1>4, FaseAlGuardar
<1>6. aKM' = [aKM EXCEPT ![c] = u]
  BY <1>2, <1>4, <1>5
<1> HIDE DEF u, x, q
<1> QED BY <1>1, <1>5, <1>6, PasoDeCPU

\* The context goes to Kernel Memory with the next program counter, or with the same one.
LEMMA guardar_contexto_kmPaso ==
  ASSUME NEW c \in CPUs, Callada(c), NEW k \in Registros, k.pid = cpu[c].pid,
         NEW tras \in {"SLEEP", "ATENDIDA", "BLOQUEADO"}, guardar_contexto_km(c, k, tras),
         UNCHANGED <<deKM, sesion, aviso>>,
         aKS' \in [CPUs -> Seq(Avisados)], deKS' \in [CPUs -> Seq(Ordenes)]
  PROVE  TiposDeCPU' /\ Fases'
<1> DEFINE r == [k EXCEPT !.pc = "okGuarda", !.tras = tras]
<1>1. cpu' = [cpu EXCEPT ![c] = r] /\ EscribeKM(c, Ultima("INTERRUPT", k))
  BY DEF guardar_contexto_km, Ultima
<1>2. r \in Registros /\ r.pid = k.pid /\ r.ctx = k.ctx /\ r.pc = "okGuarda"
  BY DEF Registros, Etapas
<1> HIDE DEF r
<1> QED BY <1>1, <1>2, GuardaCallada

\* One more instruction is done.
LEMMA AvanzadaTipo ==
  ASSUME TiposDeCPU, NEW c \in CPUs
  PROVE  LET k == Avanzada(c) IN
         k \in Registros /\ k.pid = cpu[c].pid /\ k.pc = cpu[c].pc /\ k.instr = cpu[c].instr
         /\ k.ctx = cpu[c].ctx + 1 /\ k.tras = cpu[c].tras /\ k.espera = cpu[c].espera
<1>1. cpu[c] \in Registros /\ cpu[c].ctx \in Nat
  BY TiposDe DEF Registros
<1> QED BY <1>1 DEF Avanzada, Registros

\* The program counter a process reaches is a number.
LEMMA AvanzaTipo ==
  ASSUME TiposDeCPU, real \in [Procesos -> Nat], NEW c \in CPUs, Avanza(c)
  PROVE  real' \in [Procesos -> Nat]
<1>1. cpu[c].ctx + 1 \in Nat
  BY TiposDe DEF Registros
<1> QED BY <1>1 DEF Avanza

\* An instruction that needs nobody.
LEMMA noopPaso ==
  ASSUME NEW c \in CPUs, Callada(c), noop(c), UNCHANGED <<deKM, sesion, aviso>>,
         deKS' \in [CPUs -> Seq(Ordenes)]
  PROVE  TiposDeCPU' /\ Fases'
<1> DEFINE a == Avanzada(c)
           k == [a EXCEPT !.pc = "interrupciones"]
<1>1. a \in Registros /\ a.pid = cpu[c].pid
  BY AvanzadaTipo DEF Callada
<1>2. cpu' = [cpu EXCEPT ![c] = k] /\ UNCHANGED <<aKM, aKS>>
  BY DEF noop
<1>3. aKS' \in [CPUs -> Seq(Avisados)]
  BY <1>2 DEF Callada, TiposDeCPU
<1> HIDE DEF a
<1>4. k \in Registros /\ k.pc = "interrupciones" /\ k.pid = cpu[c].pid
  BY <1>1 DEF Registros, Etapas
<1> HIDE DEF k
<1> QED BY <1>2, <1>3, <1>4, CambiaCallada

\* The session of a CPU that executes, or waits for the scheduler, is quiet.
LEMMA FaseCallada ==
  ASSUME TiposDeCPU, Fases, NEW c \in CPUs,
         \/ cpu[c].pc \in {"respKS", "interrupciones", "ackSegFault"}
         \/ cpu[c].pc = "ejecuta" /\ cpu[c].instr.t = "instruccion"
  PROVE  Callada(c)
BY DEF Callada, Fases, Fase

\* What a CPU runs is an instruction of its program.
LEMMA OperacionTipo ==
  ASSUME TiposDeCPU, NEW c \in CPUs, cpu[c].instr.t = "instruccion"
  PROVE  Operacion(c) \in Instrucciones
<1> DEFINE m == cpu[c].instr
<1>1. m \in Tramas
  BY TiposDe DEF Registros
<1>2. m.pid \in Procesos /\ m.pc \in DOMAIN Programa[m.pid]
  BY <1>1 DEF Tramas
<1>3. Programa[m.pid] \in Seq(Instrucciones)
  BY <1>2, SesionCPUAssumption
<1>4. m.pc \in 1..Len(Programa[m.pid])
  BY <1>2, <1>3, LenProperties
<1> QED BY <1>3, <1>4, ElementOfSeq DEF Operacion

\* The forms of the execution of an instruction.
LEMMA ejecutarFormas ==
  ASSUME TiposDeCPU, NEW c \in CPUs, ejecutar(c)
  PROVE  \/ Va(c, "fin") /\ UNCHANGED <<aKM, aKS, real>>
         \/ /\ cpu[c].instr.t = "instruccion"
            /\ \/ Operacion(c) \in {"NOOP", "MEM"} /\ noop(c)
               \/ Operacion(c) = "SLEEP" /\ syscall_sleep(c)
               \/ Operacion(c) = "EXIT" /\ syscall_exit(c)
               \/ /\ Operacion(c) = "SEG_FAULT"
                  /\ Va(c, "ackSegFault") /\ EscribeKS(c, "SEG_FAULT") /\ UNCHANGED <<aKM, real>>
               \/ /\ Operacion(c) \in Llamadas
                  /\ Va(c, "respKS") /\ EscribeKS(c, Operacion(c)) /\ UNCHANGED <<aKM, real>>
<1> DEFINE op == Operacion(c)
<1>1. CASE cpu[c].instr.t # "instruccion"
  BY <1>1 DEF ejecutar
<1>2. CASE cpu[c].instr.t = "instruccion"
  <2>1. op \in Llamadas \cup {"NOOP", "MEM", "SLEEP", "SEG_FAULT", "EXIT"}
    BY <1>2, OperacionTipo DEF Instrucciones
  <2>2. \A s \in Llamadas : s \notin {"NOOP", "MEM", "SLEEP", "SEG_FAULT", "EXIT"}
    BY DEF Llamadas, LlamadasMem
  <2>3. CASE op \in Llamadas
    BY <1>2, <2>2, <2>3 DEF ejecutar
  <2>4. CASE op = "NOOP"
    BY <1>2, <2>4 DEF ejecutar
  <2>5. CASE op = "MEM"
    BY <1>2, <2>2, <2>5 DEF ejecutar
  <2>6. CASE op = "SLEEP"
    BY <1>2, <2>2, <2>6 DEF ejecutar
  <2>7. CASE op = "EXIT"
    BY <1>2, <2>2, <2>7 DEF ejecutar
  <2>8. CASE op = "SEG_FAULT"
    BY <1>2, <2>2, <2>8 DEF ejecutar
  <2> QED BY <2>1, <2>3, <2>4, <2>5, <2>6, <2>7, <2>8
<1> QED BY <1>1, <1>2

\* ejecutar keeps the phases, whatever the instruction.
LEMMA ejecutarPaso ==
  ASSUME TiposDeCPU, Fases, NEW c \in CPUs, ejecutar(c)
  PROVE  TiposDeCPU' /\ Fases'
<1> DEFINE x == cpu[c]
           Tipos1 == Llamadas \cup {"SLEEP", "ATENDIDA", "DONE", "SEG_FAULT"}
<1>1. x.pc = "ejecuta" /\ UNCHANGED <<deKM, deKS, sesion, aviso>>
  BY DEF ejecutar, EnPC, enKM
<1>2. deKS' \in [CPUs -> Seq(Ordenes)] /\ (aKS' = aKS => aKS' \in [CPUs -> Seq(Avisados)])
  BY <1>1 DEF TiposDeCPU
<1>3. x \in Registros
  BY TiposDe
<1>4. x.instr.t = "instruccion" => Callada(c)
  BY <1>1, FaseCallada
<1>5. \A pc \in Etapas : LET k == [x EXCEPT !.pc = pc] IN
        k \in Registros /\ k.pc = pc /\ k.pid = x.pid /\ k.ctx = x.ctx /\ k.instr = x.instr
  BY <1>3 DEF Registros
<1>6. CASE Va(c, "fin") /\ UNCHANGED <<aKM, aKS, real>>
  <2> DEFINE k == [x EXCEPT !.pc = "fin"]
             q == aKM[c]
             s == sesion[c]
             f == Flujo(c)
  <2>1. "fin" \in Etapas
    BY DEF Etapas
  <2>2. cpu' = [cpu EXCEPT ![c] = k] /\ k \in Registros /\ k.pc = "fin"
    BY <1>5, <1>6, <2>1 DEF Va
  <2>3. Fase(x, s, q, f)
    BY DEF Fases
  <2>4. Fase(k, s, q, f)
    BY <2>2, <2>3, FaseDeFin
  <2>5. q \in Seq(Tramas)
    BY TiposDe
  <2> HIDE DEF k, x
  <2> QED BY <1>1, <1>2, <1>6, <2>2, <2>4, <2>5, PasoDeCPU
<1>7. ASSUME x.instr.t = "instruccion", noop(c) PROVE TiposDeCPU' /\ Fases'
  BY <1>1, <1>2, <1>4, <1>7, noopPaso
<1>8. ASSUME x.instr.t = "instruccion", syscall_sleep(c) PROVE TiposDeCPU' /\ Fases'
  <2> DEFINE k == Avanzada(c)
  <2>1. k \in Registros /\ k.pid = x.pid
    BY AvanzadaTipo
  <2>2. guardar_contexto_km(c, k, "SLEEP") /\ aKS' = aKS
    BY <1>8 DEF syscall_sleep
  <2> HIDE DEF k
  <2> QED BY <1>1, <1>2, <1>4, <1>8, <2>1, <2>2, guardar_contexto_kmPaso
<1>9. ASSUME x.instr.t = "instruccion", syscall_exit(c) PROVE TiposDeCPU' /\ Fases'
  <2> DEFINE k == [x EXCEPT !.pc = "okExit"]
  <2>1. "okExit" \in Etapas /\ "DONE" \in Tipos1
    BY DEF Etapas
  <2>2. cpu' = [cpu EXCEPT ![c] = k] /\ EscribeKS(c, "DONE") /\ EscribeKM(c, Ultima("EXIT_CPU", x))
    BY <1>9 DEF syscall_exit, Va, Ultima
  <2>3. aKS' \in [CPUs -> Seq(Avisados)]
    BY <1>4, <1>9, <2>1, <2>2, EscribeKSTipo DEF Callada
  <2>4. k \in Registros /\ k.pc = "okExit" /\ k.pid = x.pid /\ k.ctx = x.ctx
    BY <1>5, <2>1
  <2> HIDE DEF k
  <2> QED BY <1>1, <1>2, <1>3, <1>4, <1>9, <2>2, <2>3, <2>4, GuardaCallada
<1>10. ASSUME x.instr.t = "instruccion", NEW pc \in {"ackSegFault", "respKS"}, Va(c, pc),
              NEW tipo \in Tipos1, EscribeKS(c, tipo), aKM' = aKM
       PROVE  TiposDeCPU' /\ Fases'
  <2> DEFINE k == [x EXCEPT !.pc = pc]
  <2>1. pc \in Etapas
    BY DEF Etapas
  <2>2. cpu' = [cpu EXCEPT ![c] = k]
    BY <1>10 DEF Va
  <2>3. aKS' \in [CPUs -> Seq(Avisados)]
    BY <1>4, <1>10, EscribeKSTipo DEF Callada
  <2>4. k \in Registros /\ k.pc = pc /\ k.pid = x.pid /\ k.ctx = x.ctx /\ k.instr = x.instr
    BY <1>5, <2>1
  <2>5. InstruccionSuya(x)
    BY <1>1, <1>10 DEF Fases, Fase
  <2> HIDE DEF k
  <2>6. k.instr.t = "instruccion" /\ InstruccionSuya(k)
    BY <1>10, <2>4, <2>5 DEF InstruccionSuya
  <2> QED BY <1>1, <1>2, <1>4, <1>10, <2>2, <2>3, <2>4, <2>6, CambiaCallada
<1>11. ASSUME x.instr.t = "instruccion",
              Va(c, "ackSegFault") /\ EscribeKS(c, "SEG_FAULT") /\ UNCHANGED <<aKM, real>>
       PROVE  TiposDeCPU' /\ Fases'
  BY <1>10, <1>11
<1>12. ASSUME x.instr.t = "instruccion", Operacion(c) \in Llamadas,
              Va(c, "respKS") /\ EscribeKS(c, Operacion(c)) /\ UNCHANGED <<aKM, real>>
       PROVE  TiposDeCPU' /\ Fases'
  <2>1. Operacion(c) \in Tipos1
    BY <1>12
  <2> QED BY <1>10, <1>12, <2>1
<1> QED BY <1>6, <1>7, <1>8, <1>9, <1>11, <1>12, ejecutarFormas

\* respuestaKS keeps the phases, whatever the scheduler answers.
LEMMA respuestaKSPaso ==
  ASSUME TiposDeCPU, Fases, NEW c \in CPUs, respuestaKS(c)
  PROVE  TiposDeCPU' /\ Fases'
<1> DEFINE x == cpu[c]
           m == Head(deKS[c])
<1>1. x.pc = "respKS" /\ LeeKS(c, "respKS") /\ UNCHANGED <<deKM, aKS, sesion, aviso>>
  BY DEF respuestaKS, LeeKS, EnPC, enKM
<1>2. deKS' \in [CPUs -> Seq(Ordenes)] /\ m \in Ordenes
  BY <1>1, LeeKSTipo
<1>3. aKS' \in [CPUs -> Seq(Avisados)]
  BY <1>1 DEF TiposDeCPU
<1>4. Callada(c) /\ x.instr.t = "instruccion" /\ InstruccionSuya(x)
  BY <1>1, FaseCallada DEF Fases, Fase
<1>5. x \in Registros
  BY TiposDe
<1>6. \/ cpu' = [cpu EXCEPT ![c].espera = m.pid] /\ aKM' = aKM
      \/ noop(c)
      \/ guardar_contexto_km(c, Avanzada(c), "BLOQUEADO")
      \/ \E pc \in {"interrupciones", "fin"} : Va(c, pc) /\ aKM' = aKM
  BY DEF respuestaKS
<1>7. ASSUME cpu' = [cpu EXCEPT ![c].espera = m.pid], aKM' = aKM
      PROVE  TiposDeCPU' /\ Fases'
  <2> DEFINE k == [x EXCEPT !.espera = m.pid]
  <2>1. cpu' = [cpu EXCEPT ![c] = k]
    BY <1>7
  <2>2. /\ k \in Registros /\ k.pc = "respKS" /\ k.pid = x.pid /\ k.ctx = x.ctx
        /\ k.instr = x.instr
    BY <1>1, <1>2, <1>5 DEF Registros, Ordenes, Nombres
  <2> HIDE DEF k
  <2>3. k.instr.t = "instruccion" /\ InstruccionSuya(k)
    BY <1>4, <2>2 DEF InstruccionSuya
  <2> QED BY <1>1, <1>2, <1>3, <1>4, <1>7, <2>1, <2>2, <2>3, CambiaCallada
<1>8. ASSUME noop(c) PROVE TiposDeCPU' /\ Fases'
  BY <1>1, <1>2, <1>4, <1>8, noopPaso
<1>9. ASSUME guardar_contexto_km(c, Avanzada(c), "BLOQUEADO") PROVE TiposDeCPU' /\ Fases'
  <2> DEFINE k == Avanzada(c)
  <2>1. k \in Registros /\ k.pid = x.pid
    BY AvanzadaTipo
  <2>2. guardar_contexto_km(c, k, "BLOQUEADO")
    BY <1>9
  <2> HIDE DEF k
  <2> QED BY <1>1, <1>2, <1>3, <1>4, <2>1, <2>2, guardar_contexto_kmPaso
<1>10. ASSUME NEW pc \in {"interrupciones", "fin"}, Va(c, pc), aKM' = aKM
       PROVE  TiposDeCPU' /\ Fases'
  <2> DEFINE k == [x EXCEPT !.pc = pc]
  <2>1. cpu' = [cpu EXCEPT ![c] = k]
    BY <1>10 DEF Va
  <2>2. k \in Registros /\ k.pc = pc /\ k.pid = x.pid
    BY <1>5 DEF Registros, Etapas
  <2> HIDE DEF k
  <2> QED BY <1>1, <1>2, <1>3, <1>4, <1>10, <2>1, <2>2, CambiaCallada
<1> QED BY <1>6, <1>7, <1>8, <1>9, <1>10

\* A program that faults closes its session.
LEMMA manejar_seg_faultPaso ==
  ASSUME TiposDeCPU, Fases, NEW c \in CPUs, manejar_seg_fault(c)
  PROVE  TiposDeCPU' /\ Fases'
<1> DEFINE q == aKM[c]
           s == sesion[c]
           f == Flujo(c)
           x == cpu[c]
           u == <<Trama("SEG_FAULT")>>
<1>1. x.pc = "ackSegFault" /\ LeeKS(c, "ackSegFault") /\ UNCHANGED <<deKM, aKS, sesion, aviso>>
  BY DEF manejar_seg_fault, LeeKS, EnPC, enKM
<1>2. deKS' \in [CPUs -> Seq(Ordenes)] /\ aKS' \in [CPUs -> Seq(Avisados)]
  BY <1>1, LeeKSTipo DEF TiposDeCPU
<1>3. Fase(x, s, q, f) /\ Quieto(x, s, q, f)
  BY <1>1 DEF Fases, Fase
<1>4. x \in Registros /\ q \in Seq(Tramas)
  BY TiposDe
<1>5. Fase(CPUOciosa, s, u, f) /\ <<>> \o u = u /\ u \in Seq(Tramas)
  BY <1>3, <1>4, FaseOciosa DEF Quieto, PidLeido
<1>6. q = <<>>
  BY <1>3 DEF Quieto
<1>7. cpu' = [cpu EXCEPT ![c] = CPUOciosa] /\ aKM' = [aKM EXCEPT ![c] = u]
  BY <1>5, <1>6 DEF manejar_seg_fault, Ocioso, EscribeKM
<1> HIDE DEF u, x
<1> QED BY <1>1, <1>2, <1>5, <1>7, OciosaTipo, PasoDeCPU

\* Looking for interrupts, kept or not, keeps the phases.
LEMMA atender_interrupcionPaso ==
  ASSUME TiposDeCPU, Fases, NEW c \in CPUs,
         atender_interrupcion_en_espera(c) \/ atender_interrupcion(c)
  PROVE  TiposDeCPU' /\ Fases'
<1> DEFINE x == cpu[c]
<1>1. x.pc = "interrupciones" /\ UNCHANGED <<deKM, aKS, sesion, aviso>>
  BY DEF atender_interrupcion_en_espera, atender_interrupcion, EnPC, enKM
<1>2. deKS' \in [CPUs -> Seq(Ordenes)]
  <2>1. CASE deKS' = deKS
    BY <2>1 DEF TiposDeCPU
  <2>2. CASE ~(deKS' = deKS)
    BY <2>2, LeeKSTipo DEF atender_interrupcion_en_espera, atender_interrupcion
  <2> QED BY <2>1, <2>2
<1>3. aKS' \in [CPUs -> Seq(Avisados)]
  BY <1>1 DEF TiposDeCPU
<1>4. Callada(c) /\ x \in Registros
  BY <1>1, FaseCallada, TiposDe
<1>5. ASSUME fetch(c, x) PROVE TiposDeCPU' /\ Fases'
  BY <1>1, <1>2, <1>3, <1>4, <1>5, PideCallada
<1>6. ASSUME guardar_contexto_km(c, x, "ATENDIDA") PROVE TiposDeCPU' /\ Fases'
  BY <1>1, <1>2, <1>3, <1>4, <1>6, guardar_contexto_kmPaso
<1>7. ASSUME Va(c, "fin"), aKM' = aKM PROVE TiposDeCPU' /\ Fases'
  <2> DEFINE k == [x EXCEPT !.pc = "fin"]
  <2>1. cpu' = [cpu EXCEPT ![c] = k]
    BY <1>7 DEF Va
  <2>2. k \in Registros /\ k.pc = "fin" /\ k.pid = x.pid
    BY <1>4 DEF Registros, Etapas
  <2> HIDE DEF k
  <2> QED BY <1>1, <1>2, <1>3, <1>4, <1>7, <2>1, <2>2, CambiaCallada
<1>8. ASSUME Ocioso(c), aKM' = aKM PROVE TiposDeCPU' /\ Fases'
  <2> DEFINE q == aKM[c]
             s == sesion[c]
             f == Flujo(c)
  <2>1. Quieto(x, s, q, f) /\ Fase(x, s, q, f) /\ q \in Seq(Tramas)
    BY <1>4, TiposDe DEF Callada, Fases
  <2>2. Fase(CPUOciosa, s, q, f)
    BY <1>4, <2>1, FaseOciosa DEF Quieto, PidLeido
  <2>3. cpu' = [cpu EXCEPT ![c] = CPUOciosa]
    BY <1>8 DEF Ocioso
  <2> HIDE DEF x
  <2> QED BY <1>1, <1>2, <1>3, <1>8, <2>1, <2>2, <2>3, OciosaTipo, PasoDeCPU
<1>9. \/ fetch(c, x) \/ guardar_contexto_km(c, x, "ATENDIDA")
      \/ Va(c, "fin") /\ aKM' = aKM
      \/ Ocioso(c) /\ aKM' = aKM
  BY DEF atender_interrupcion_en_espera, atender_interrupcion
<1> QED BY <1>5, <1>6, <1>7, <1>8, <1>9

-----------------------------------------------------------------------------
(* The steps of Kernel Memory.                                              *)

EtapasKM == {"mensaje", "pidInit", "lazo", "pedido"}
\* The names of the states of a session, for the provers.
LEMMA EtapasDeKM == "mensaje" \in EtapasKM /\ "pidInit" \in EtapasKM /\ "lazo" \in EtapasKM /\ "pedido" \in EtapasKM
BY DEF EtapasKM
Seguida(s, pc, g) == [s EXCEPT !.pc = pc, !.envio = g]
\* What a thread of Kernel Memory has to write next is frames.
LEMMA SigueTipo ==
  ASSUME TiposDeCPU, NEW c \in CPUs, NEW pc \in EtapasKM, NEW g \in Seq(Tramas), Sigue(c, pc, g)
  PROVE  LET r == Seguida(sesion[c], pc, g) IN
         /\ r \in Sesiones /\ sesion' = [sesion EXCEPT ![c] = r]
         /\ r.pc = pc /\ r.pid = sesion[c].pid /\ r.envio = g
<1>1. sesion[c] \in Sesiones
  BY TiposDe
<1> QED BY <1>1 DEF Sesiones, EtapasKM, Seguida, Sigue

\* A step of the thread of CPU c: it is now r, and the requests it has not read are u.
LEMMA PasoDeSesion ==
  ASSUME TiposDeCPU, Fases, NEW c \in CPUs, NEW r \in Sesiones, NEW u \in Seq(Tramas),
         sesion' = [sesion EXCEPT ![c] = r], aKM' = [aKM EXCEPT ![c] = u],
         UNCHANGED <<cpu, deKM, aKS, deKS, aviso>>,
         Fase(cpu[c], r, u, deKM[c] \o r.envio)
  PROVE  TiposDeCPU' /\ Fases'
<1>1. /\ sesion' \in [CPUs -> Sesiones] /\ sesion'[c] = r
      /\ \A d \in CPUs \ {c} : sesion'[d] = sesion[d]
  BY DEF TiposDeCPU
<1>2. /\ aKM' \in [CPUs -> Seq(Tramas)] /\ aKM'[c] = u
      /\ \A d \in CPUs \ {c} : aKM'[d] = aKM[d]
  BY DEF TiposDeCPU
<1>3. TiposDeCPU'
  BY <1>1, <1>2 DEF TiposDeCPU
<1>4. Fases'
  BY <1>1, <1>2, UnaFase
<1> QED BY <1>3, <1>4

\* The thread has read n frames: what it was going to write, it has written.
LEMMA AtiendeEs ==
  ASSUME TiposDeCPU, Fases, NEW c \in CPUs, NEW pc, NEW n \in {1, 2, 3}, Atiende(c, pc, n)
  PROVE  /\ sesion[c].pc = pc /\ Len(aKM[c]) >= n /\ Flujo(c) = deKM[c]
         /\ aKM' = [aKM EXCEPT ![c] = Resto(aKM[c], n)] /\ Resto(aKM[c], n) \in Seq(Tramas)
         /\ Fase(cpu[c], sesion[c], aKM[c], deKM[c])
<1>1. deKM[c] \in Seq(Tramas) /\ aKM[c] \in Seq(Tramas)
  BY TiposDe
<1>2. sesion[c].envio = <<>> /\ sesion[c].pc = pc /\ Len(aKM[c]) >= n
  BY DEF Atiende
<1>3. Flujo(c) = deKM[c]
  BY <1>1, <1>2, ConcatEmptySeq DEF Flujo
<1>4. n <= Len(aKM[c])
  BY <1>1, <1>2, LenProperties
<1>5. Resto(aKM[c], n) \in Seq(Tramas)
  BY <1>1, <1>4, RestoEs
<1> QED BY <1>2, <1>3, <1>5 DEF Atiende, Resto, Fases

\* Writing a frame keeps the phases.
LEMMA enviarPaso ==
  ASSUME TiposDeCPU, Fases, NEW c \in CPUs, enviar(c)
  PROVE  TiposDeCPU' /\ Fases'
<1> DEFINE s == sesion[c]
           e == Head(s.envio)
           r == [s EXCEPT !.envio = Tail(@)]
<1>1. /\ s.envio # <<>> /\ deKM' = [deKM EXCEPT ![c] = Append(@, e)]
      /\ sesion' = [sesion EXCEPT ![c] = r]
      /\ UNCHANGED <<cpu, aKS, deKS, aKM, aviso>>
  BY DEF enviar, SoloSesion
<1>2. s \in Sesiones /\ s.envio \in Seq(Tramas) /\ deKM[c] \in Seq(Tramas)
  BY TiposDe
<1>3. e \in Tramas /\ Tail(s.envio) \in Seq(Tramas)
  BY <1>1, <1>2, HeadTailProperties
<1>4. r \in Sesiones /\ r.pc = s.pc /\ r.pid = s.pid /\ r.envio = Tail(s.envio)
  BY <1>2, <1>3 DEF Sesiones
<1>5. Append(deKM[c], e) \o r.envio = Flujo(c)
  BY <1>1, <1>2, <1>4, EscribirDelFlujo DEF Flujo
<1>6. Append(deKM[c], e) \in Seq(Tramas)
  BY <1>2, <1>3, AppendProperties
<1> HIDE DEF r, e
<1>7. Fase(cpu[c], s, aKM[c], Flujo(c))
  BY DEF Fases
<1>8. Fase(cpu[c], r, aKM[c], Flujo(c))
  BY <1>2, <1>4, <1>7, FaseSigue
<1>9. /\ deKM' \in [CPUs -> Seq(Tramas)] /\ deKM'[c] = Append(deKM[c], e)
      /\ \A d \in CPUs \ {c} : deKM'[d] = deKM[d]
  BY <1>1, <1>6 DEF TiposDeCPU
<1>10. /\ sesion' \in [CPUs -> Sesiones] /\ sesion'[c] = r
       /\ \A d \in CPUs \ {c} : sesion'[d] = sesion[d]
  BY <1>1, <1>4 DEF TiposDeCPU
<1>11. TiposDeCPU'
  BY <1>1, <1>9, <1>10 DEF TiposDeCPU
<1>12. Fase(cpu'[c], sesion'[c], aKM'[c], deKM'[c] \o sesion'[c].envio)
  BY <1>1, <1>5, <1>8, <1>9, <1>10
<1> QED BY <1>1, <1>9, <1>10, <1>11, <1>12, UnaFase

\* What the thread writes.
LEMMA EscritosPorKM ==
  /\ <<Trama("MAPA"), Trama("mapa")>> \in Seq(Tramas)
  /\ EsRuido(<<Trama("MAPA"), Trama("mapa")>>)
  /\ <<Trama("OK")>> \in Seq(Tramas) /\ Acaba(<<Trama("OK")>>, Buenas, {})
<1>1. "MAPA" \in TiposDeTrama \ {"pid", "contexto", "instruccion"}
      /\ "mapa" \in TiposDeTrama \ {"pid", "contexto", "instruccion"}
      /\ "OK" \in TiposDeTrama \ {"pid", "contexto", "instruccion"}
  BY DEF TiposDeTrama
<1> DEFINE a == Trama("MAPA")
           b == Trama("mapa")
           e == Trama("OK")
<1>6. a \in Tramas /\ a.t = "MAPA"
  BY <1>1, TramaSimple
<1>7. b \in Tramas /\ b.t = "mapa"
  BY <1>1, TramaSimple
<1>8. e \in Tramas /\ e.t = "OK"
  BY <1>1, TramaSimple
<1>2. a \in Tramas /\ a.t = "MAPA" /\ b \in Tramas /\ b.t = "mapa" /\ e \in Tramas /\ e.t = "OK"
  BY <1>6, <1>7, <1>8
<1> HIDE DEF a, b, e
<1>3. EsRuido(<<a, b>>)
  BY <1>2 DEF EsRuido, Ruido
<1>4. Acaba(<<e>>, Buenas, {})
  BY <1>2 DEF Acaba, Buenas
<1>5. <<a, b>> \in Seq(Tramas) /\ <<e>> \in Seq(Tramas)
  BY <1>2
<1> QED BY <1>3, <1>4, <1>5 DEF a, b, e

\* A frame is read and dropped.
LEMMA DescartaPaso ==
  ASSUME TiposDeCPU, Fases, NEW c \in CPUs, NEW pc \in {"mensaje", "pedido"}, Atiende(c, pc, 1),
         Pedido(c).t # "INTERRUPT", UNCHANGED <<cpu, deKM, aKS, deKS, aviso>>,
         NEW l \in {"mensaje", "lazo"}, pc = "pedido" \/ l = "mensaje",
         (pc = "mensaje" /\ sesion' = sesion) \/ Sigue(c, l, <<>>)
  PROVE  TiposDeCPU' /\ Fases'
<1> DEFINE s == sesion[c]
           q == aKM[c]
           u == Resto(q, 1)
           k == cpu[c]
           f == deKM[c]
<1>1. /\ s.pc = pc /\ Len(q) >= 1 /\ aKM' = [aKM EXCEPT ![c] = u] /\ u \in Seq(Tramas)
      /\ Fase(k, s, q, f)
  BY AtiendeEs
<1>2. k \in Registros /\ s \in Sesiones /\ q \in Seq(Tramas) /\ f \in Seq(Tramas)
  BY TiposDe
<1>3. s.envio = <<>>
  BY DEF Atiende
<1>4. q[1].t # "INTERRUPT"
  BY <1>1, <1>2 DEF Pedido
<1>5. PICK r \in Sesiones : /\ sesion' = [sesion EXCEPT ![c] = r] /\ r.envio = <<>> /\ r.pid = s.pid
                            /\ r.pc \in {"mensaje", "lazo"} /\ (r.pc = "lazo" => pc = "pedido")
  <2>1. CASE pc = "mensaje" /\ sesion' = sesion
    <3>1. sesion' = [sesion EXCEPT ![c] = s]
      BY <2>1 DEF TiposDeCPU
    <3> HIDE DEF s
    <3> QED BY <3>1, <2>1, <1>1, <1>2, <1>3
  <2>2. CASE Sigue(c, l, <<>>)
    <3> DEFINE v == <<>>
    <3>1. v \in Seq(Tramas) /\ l \in EtapasKM /\ Sigue(c, l, v)
      BY <2>2, EtapasDeKM
    <3>2. v = <<>>
      OBVIOUS
    <3> HIDE DEF v
    <3>3. PICK r \in Sesiones : /\ sesion' = [sesion EXCEPT ![c] = r] /\ r.envio = v /\ r.pid = s.pid
                                /\ r.pc = l
      BY <3>1, SigueTipo
    <3> QED BY <3>2, <3>3
  <2> QED BY <2>1, <2>2
<1>6. r.pc = "lazo" => s.pid \in Procesos
  BY <1>1, <1>5 DEF Fase
<1> HIDE DEF u, k, s, q, f
<1>7. Fase(k, r, Resto(q, 1), f)
  BY <1>1, <1>2, <1>4, <1>5, <1>6, FaseDescarta
<1>8. f \o r.envio = f
  BY <1>2, <1>5, ConcatEmptySeq
<1>9. Fase(cpu[c], r, u, deKM[c] \o r.envio)
  BY <1>7, <1>8 DEF u, k, f
<1> QED BY <1>1, <1>5, <1>9, PasoDeSesion

\* The last request of a process.
LEMMA UltimaPaso ==
  ASSUME TiposDeCPU, Fases, NEW c \in CPUs, NEW pc \in {"mensaje", "pedido"}, Atiende(c, pc, 3),
         Pedido(c).t \in {"INTERRUPT", "EXIT_CPU"}, UNCHANGED <<cpu, deKM, aKS, deKS, aviso>>,
         Sigue(c, "mensaje", <<Trama("OK")>>)
  PROVE  TiposDeCPU' /\ Fases'
<1> DEFINE s == sesion[c]
           q == aKM[c]
           u == Resto(q, 3)
           k == cpu[c]
           f == deKM[c]
           g == <<Trama("OK")>>
<1>1. /\ s.pc = pc /\ Len(q) >= 3 /\ aKM' = [aKM EXCEPT ![c] = u] /\ u \in Seq(Tramas)
      /\ Fase(k, s, q, f)
  BY AtiendeEs
<1>2. k \in Registros /\ s \in Sesiones /\ q \in Seq(Tramas) /\ f \in Seq(Tramas)
  BY TiposDe
<1>3. q[1].t \in {"INTERRUPT", "EXIT_CPU"}
  BY <1>1, <1>2 DEF Pedido
<1>4. g \in Seq(Tramas) /\ Acaba(g, Buenas, {})
  BY EscritosPorKM
<1>10. "mensaje" \in EtapasKM /\ Sigue(c, "mensaje", g)
  BY EtapasDeKM
<1> HIDE DEF g, u, k, s, q, f
<1>5. PICK r \in Sesiones : /\ sesion' = [sesion EXCEPT ![c] = r] /\ r.envio = g
                            /\ r.pc = "mensaje"
  BY <1>4, <1>10, SigueTipo
<1>7. Fase(k, r, Resto(q, 3), f \o g)
  BY <1>1, <1>2, <1>3, <1>4, <1>5, FaseUltima
<1>9. Fase(cpu[c], r, u, deKM[c] \o r.envio)
  BY <1>5, <1>7 DEF u, k, f
<1> QED BY <1>1, <1>5, <1>9, PasoDeSesion

\* atender_mensaje_cpu keeps the phases: what it drops is not a request of the next process.
LEMMA atender_mensaje_cpuPaso ==
  ASSUME TiposDeCPU, Fases, NEW c \in CPUs, atender_mensaje_cpu(c)
  PROVE  TiposDeCPU' /\ Fases'
<1>1. UNCHANGED <<cpu, deKM, aKS, deKS, aviso>>
  BY DEF atender_mensaje_cpu, SoloSesion
<1>2. CASE Atiende(c, "mensaje", 1) /\ Pedido(c).t = "INIT"
           /\ Sigue(c, "pidInit", <<Trama("MAPA"), Trama("mapa")>>)
  <2> DEFINE s == sesion[c]
             q == aKM[c]
             u == Resto(q, 1)
             k == cpu[c]
             f == deKM[c]
             g == <<Trama("MAPA"), Trama("mapa")>>
  <2>1. /\ s.pc = "mensaje" /\ Len(q) >= 1 /\ aKM' = [aKM EXCEPT ![c] = u] /\ u \in Seq(Tramas)
        /\ Fase(k, s, q, f)
    BY <1>2, AtiendeEs
  <2>2. k \in Registros /\ s \in Sesiones /\ q \in Seq(Tramas) /\ f \in Seq(Tramas)
    BY TiposDe
  <2>3. q[1].t = "INIT"
    BY <1>2, <2>1, <2>2 DEF Pedido
  <2>4. g \in Seq(Tramas) /\ EsRuido(g)
    BY EscritosPorKM
  <2>8. "pidInit" \in EtapasKM /\ Sigue(c, "pidInit", g)
    BY <1>2, EtapasDeKM
  <2> HIDE DEF u, k, s, q, f, g
  <2>5. PICK r \in Sesiones : /\ sesion' = [sesion EXCEPT ![c] = r] /\ r.envio = g
                              /\ r.pc = "pidInit"
    BY <2>4, <2>8, SigueTipo
  <2>6. Fase(k, r, Resto(q, 1), f \o g)
    BY <2>1, <2>2, <2>3, <2>4, <2>5, FaseMapa
  <2>7. Fase(cpu[c], r, u, deKM[c] \o r.envio)
    BY <2>5, <2>6 DEF u, k, f
  <2> QED BY <1>1, <2>1, <2>5, <2>7, PasoDeSesion
<1>3. CASE Atiende(c, "mensaje", 3) /\ Pedido(c).t = "INTERRUPT" /\ Sigue(c, "mensaje", <<Trama("OK")>>)
  BY <1>1, <1>3, UltimaPaso
<1>4. CASE Atiende(c, "mensaje", 1) /\ Pedido(c).t \notin {"INIT", "INTERRUPT"} /\ sesion' = sesion
  BY <1>1, <1>4, DescartaPaso
<1> QED BY <1>2, <1>3, <1>4 DEF atender_mensaje_cpu

\* The table of a process is a number.
LEMMA TablaTipo ==
  ASSUME TiposDeProceso, NEW p \in Procesos
  PROVE  Tabla(p) \in Nat /\ km[p].pc \in Nat
<1>1. km[p] \in Memorias
  BY DEF TiposDeProceso
<1> QED BY <1>1 DEF Memorias, Tabla

\* inicializar_proceso keeps the phases: the context is of the process whose PID was read.
LEMMA inicializar_procesoPaso ==
  ASSUME TiposDeCPU, TiposDeProceso, Fases, NEW c \in CPUs, inicializar_proceso(c)
  PROVE  TiposDeCPU' /\ Fases'
<1> DEFINE s == sesion[c]
           q == aKM[c]
           u == Resto(q, 1)
           k == cpu[c]
           f == deKM[c]
           p == Pedido(c).pid
           e == [Trama("contexto") EXCEPT !.pid = p, !.pc = km[p].pc, !.tabla = Tabla(p)]
<1>0. UNCHANGED <<cpu, deKM, aKS, deKS, aviso>> /\ Atiende(c, "pidInit", 1)
  BY DEF inicializar_proceso, SoloSesion
<1>1. /\ s.pc = "pidInit" /\ Len(q) >= 1 /\ aKM' = [aKM EXCEPT ![c] = u] /\ u \in Seq(Tramas)
      /\ Fase(k, s, q, f)
  BY <1>0, AtiendeEs
<1>2. k \in Registros /\ s \in Sesiones /\ q \in Seq(Tramas) /\ f \in Seq(Tramas)
  BY TiposDe
<1>3. p = q[1].pid
  BY <1>1, <1>2 DEF Pedido
<1>4. p \in Procesos
  <2>1. Peticiones(s, q)
    BY <1>1 DEF Fase
  <2>2. Len(q) = 1 /\ q[1].t = "pid"
    BY <1>1, <1>2, <2>1 DEF Peticiones
  <2>3. q[1] \in Tramas
    BY <1>2, <2>2, ElementOfSeq
  <2> QED BY <2>2, <2>3, <1>3 DEF Tramas
<1>5. Tabla(p) \in Nat /\ km[p].pc \in Nat
  BY <1>4, TablaTipo
<1>6. \A n, m \in Nat :
        LET d == [Trama("contexto") EXCEPT !.pid = p, !.pc = n, !.tabla = m] IN
        d \in Tramas /\ d.t = "contexto" /\ d.pid = p /\ d.pc = n
  BY <1>4, TramasHechas
<1>7. e \in Tramas /\ e.t = "contexto" /\ e.pid = p
  BY <1>5, <1>6
<1>8. CASE km[p].vivo
  <2> DEFINE r == [pc |-> "lazo", pid |-> p, envio |-> <<e>>]
  <2>1. sesion' = [sesion EXCEPT ![c] = r]
    BY <1>8 DEF inicializar_proceso
  <2> HIDE DEF e
  <2>2. <<e>> \in Seq(Tramas)
    BY <1>7
  <2>3. Acaba(<<e>>, Contextos(p), {})
    BY <1>7 DEF Acaba, Contextos
  <2>4. r \in Sesiones /\ r.pc = "lazo" /\ r.pid = p /\ r.envio = <<e>>
    BY <1>4, <2>2 DEF Sesiones, Nombres
  <2> HIDE DEF r, u, k, s, q, f, p
  <2>5. Fase(k, r, Resto(q, 1), f \o <<e>>)
    BY <1>1, <1>2, <1>3, <1>4, <2>2, <2>3, <2>4, FaseContexto
  <2>6. Fase(cpu[c], r, u, deKM[c] \o r.envio)
    BY <2>4, <2>5 DEF u, k, f
  <2> QED BY <1>0, <1>1, <2>1, <2>4, <2>6, PasoDeSesion
<1>9. CASE ~km[p].vivo
  <2> DEFINE v == <<>>
  <2>1. Sigue(c, "mensaje", v) /\ v \in Seq(Tramas) /\ "mensaje" \in EtapasKM
    BY <1>9, EtapasDeKM DEF inicializar_proceso
  <2>5. v = <<>>
    OBVIOUS
  <2> HIDE DEF v
  <2>2. PICK r \in Sesiones : /\ sesion' = [sesion EXCEPT ![c] = r] /\ r.envio = v
                              /\ r.pc = "mensaje"
    BY <2>1, SigueTipo
  <2> HIDE DEF u, k, s, q, f, p, e
  <2>3. Fase(k, r, Resto(q, 1), f \o v)
    BY <1>1, <1>2, <2>1, <2>2, <2>5, FaseContexto
  <2>4. Fase(cpu[c], r, u, deKM[c] \o r.envio)
    BY <2>1, <2>2, <2>3 DEF u, k, f
  <2> QED BY <1>0, <1>1, <2>2, <2>4, PasoDeSesion
<1> QED BY <1>8, <1>9

\* The look at the process between two requests keeps the phases.
LEMMA existe_procesoPaso ==
  ASSUME TiposDeCPU, Fases, NEW c \in CPUs, existe_proceso(c)
  PROVE  TiposDeCPU' /\ Fases'
<1> DEFINE s == sesion[c]
           q == aKM[c]
           k == cpu[c]
           f == deKM[c]
           pc == IF km[sesion[c].pid].vivo THEN "pedido" ELSE "mensaje"
<1>1. /\ UNCHANGED <<cpu, deKM, aKS, deKS, aviso>> /\ s.pc = "lazo" /\ s.envio = <<>>
      /\ aKM' = [aKM EXCEPT ![c] = SubSeq(q, 0 + 1, Len(q))] /\ Sigue(c, pc, <<>>)
  BY DEF existe_proceso, SoloSesion, Atiende
<1>2. k \in Registros /\ s \in Sesiones /\ q \in Seq(Tramas) /\ f \in Seq(Tramas)
  BY TiposDe
<1>3. SubSeq(q, 0 + 1, Len(q)) = q
  BY <1>2, SubSeqFull
<1>4. pc \in {"mensaje", "pedido"} /\ pc \in EtapasKM /\ <<>> \in Seq(Tramas)
  BY EtapasDeKM
<1> HIDE DEF pc
<1> DEFINE v == <<>>
<1>10. Sigue(c, pc, v) /\ v \in Seq(Tramas)
  BY <1>1
<1>11. v = <<>>
  OBVIOUS
<1> HIDE DEF v
<1>5. PICK r \in Sesiones : /\ sesion' = [sesion EXCEPT ![c] = r] /\ r.envio = v
                            /\ r.pid = s.pid /\ r.pc = pc
  BY <1>4, <1>10, SigueTipo
<1>6. f \o r.envio = Flujo(c) /\ Fase(k, s, q, Flujo(c))
  BY <1>1, <1>5, <1>11 DEF Flujo, Fases
<1> HIDE DEF k, s, q, f
<1>7. Fase(k, r, q, Flujo(c))
  BY <1>1, <1>2, <1>4, <1>5, <1>6, FaseSigue
<1>8. Fase(cpu[c], r, q, deKM[c] \o r.envio)
  BY <1>6, <1>7 DEF k, f
<1>9. aKM' = [aKM EXCEPT ![c] = q]
  BY <1>1, <1>3
<1> QED BY <1>1, <1>2, <1>5, <1>8, <1>9, PasoDeSesion

\* The answer to MSG_FETCH_CPU.
Respuesta(p, n) ==
  LET instruccion == devolver_instruccion(p, n) IN
  IF instruccion = <<>> THEN <<Trama("ERROR")>>
  ELSE <<Trama("OK")>> \o instruccion \o notificar_segmentos_a_cpu(p)

\* The frames of a table are noise for what is waited for.
LEMMA NotificarTipo ==
  ASSUME TiposDeProceso, NEW p \in Procesos
  PROVE  /\ notificar_segmentos_a_cpu(p) \in Seq(Tramas) /\ EsRuido(notificar_segmentos_a_cpu(p))
<1>1. Tabla(p) \in Nat
  BY TablaTipo
<1>2. "VACIA" \in TiposDeTrama \ {"pid", "contexto", "instruccion"}
      /\ "NO_VACIA" \in TiposDeTrama \ {"pid", "contexto", "instruccion"}
  BY DEF TiposDeTrama
<1> DEFINE a == Trama("VACIA")
           b == Trama("NO_VACIA")
           e == [Trama("segmentos") EXCEPT !.tabla = Tabla(p)]
<1>9. a \in Tramas /\ a.t = "VACIA"
  BY <1>2, TramaSimple
<1>10. b \in Tramas /\ b.t = "NO_VACIA"
  BY <1>2, TramaSimple
<1>3. a \in Tramas /\ a.t = "VACIA" /\ b \in Tramas /\ b.t = "NO_VACIA"
  BY <1>9, <1>10
<1>4. \A m \in Nat : LET d == [Trama("segmentos") EXCEPT !.tabla = m] IN d \in Tramas /\ d.t = "segmentos"
  BY TramasHechas
<1>5. e \in Tramas /\ e.t = "segmentos"
  BY <1>1, <1>4
<1> HIDE DEF a, b, e
<1>6. EsRuido(<<a>>) /\ EsRuido(<<b, e>>)
  BY <1>3, <1>5 DEF EsRuido, Ruido
<1>7. <<a>> \in Seq(Tramas) /\ <<b, e>> \in Seq(Tramas)
  BY <1>3, <1>5
<1>8. notificar_segmentos_a_cpu(p) = IF Tabla(p) = 0 THEN <<a>> ELSE <<b, e>>
  BY DEF notificar_segmentos_a_cpu, a, b, e
<1> QED BY <1>6, <1>7, <1>8

\* The answer to a FETCH: an error, or the instruction that was asked for and then noise.
LEMMA RespuestaTipo ==
  ASSUME TiposDeProceso, NEW p \in Procesos, NEW n
  PROVE  /\ Respuesta(p, n) \in Seq(Tramas)
         /\ Acaba(Respuesta(p, n), InstruccionDe(p, n), {"OK", "ERROR"})
<1> DEFINE I == InstruccionDe(p, n)
           T == {"OK", "ERROR"}
           a == Trama("ERROR")
           b == Trama("OK")
           e == [Trama("instruccion") EXCEPT !.pid = p, !.pc = n]
           g == notificar_segmentos_a_cpu(p)
<1>1. g \in Seq(Tramas) /\ EsRuido(g)
  BY NotificarTipo
<1>2. "ERROR" \in TiposDeTrama \ {"pid", "contexto", "instruccion"}
      /\ "OK" \in TiposDeTrama \ {"pid", "contexto", "instruccion"}
  BY DEF TiposDeTrama
<1>6. a \in Tramas /\ a.t = "ERROR"
  BY <1>2, TramaSimple
<1>7. b \in Tramas /\ b.t = "OK"
  BY <1>2, TramaSimple
<1>3. a \in Tramas /\ a.t = "ERROR" /\ b \in Tramas /\ b.t = "OK"
  BY <1>6, <1>7
<1>4. CASE n \notin DOMAIN Programa[p]
  <2>1. Respuesta(p, n) = <<a>>
    BY <1>4 DEF Respuesta, devolver_instruccion
  <2> HIDE DEF a
  <2>2. <<a>> \in Seq(Tramas) /\ Acaba(<<a>>, I, T)
    BY <1>3 DEF Acaba
  <2> QED BY <2>1, <2>2
<1>5. CASE n \in DOMAIN Programa[p]
  <2>1. e \in Tramas /\ e.t = "instruccion" /\ e.pid = p /\ e.pc = n
    BY <1>5, TramasHechas
  <2>2. e \in I
    BY <2>1 DEF InstruccionDe
  <2>3. devolver_instruccion(p, n) = <<e>>
    BY <1>5 DEF devolver_instruccion
  <2> HIDE DEF e, b, g, I
  <2>4. Respuesta(p, n) = <<b>> \o <<e>> \o g
    BY <2>3 DEF Respuesta, b, g
  <2> DEFINE h == <<b, e>>
  <2>14. <<b>> \in Seq(Tramas) /\ <<e>> \in Seq(Tramas) /\ h \in Seq(Tramas)
    BY <1>3, <2>1
  <2> DEFINE w == <<b>> \o <<e>>
  <2>15. /\ w \in Seq(Tramas) /\ Len(w) = Len(<<b>>) + Len(<<e>>)
         /\ \A i \in 1..(Len(<<b>>) + Len(<<e>>)) :
              w[i] = IF i <= Len(<<b>>) THEN <<b>>[i] ELSE <<e>>[i - Len(<<b>>)]
    BY <2>14, ConcatProperties
  <2>16. Len(<<b>>) = 1 /\ Len(<<e>>) = 1 /\ <<b>>[1] = b /\ <<e>>[1] = e
    OBVIOUS
  <2>17. Len(h) = 2 /\ h[1] = b /\ h[2] = e
    OBVIOUS
  <2> HIDE DEF w, h
  <2>18. Len(w) = 2 /\ w[1] = b /\ w[2] = e
    BY <2>15, <2>16
  <2>19. \A i \in 1..Len(w) : w[i] = h[i]
    BY <2>17, <2>18
  <2>20. w = h
    BY <2>14, <2>15, <2>17, <2>18, <2>19, SeqEqual
  <2>5. <<b>> \o <<e>> = h
    BY <2>20 DEF w
  <2> USE DEF h
  <2>6. h \in Seq(Tramas) /\ Acaba(h, I, T)
    BY <1>3, <2>1, <2>2 DEF Acaba
  <2> HIDE DEF h
  <2> DEFINE v == h \o g
  <2>7. /\ v \in Seq(Tramas) /\ Len(v) = Len(h) + Len(g)
        /\ \A i \in 1..(Len(h) + Len(g)) : v[i] = IF i <= Len(h) THEN h[i] ELSE g[i - Len(h)]
    BY <1>1, <2>6, ConcatProperties
  <2>8. Len(h) \in Nat /\ Len(g) \in Nat
    BY <1>1, <2>6, LenProperties
  <2> HIDE DEF v
  <2> DEFINE R == Ruido
  <2> HIDE DEF R
  <2>10. ASSUME NEW i \in 1..Len(v)
         PROVE  \/ i \in 1..Len(h) /\ v[i] = h[i]
                \/ i > Len(h) /\ v[i].t \in R
    <3>1. CASE i <= Len(h)
      BY <3>1, <2>7, <2>8
    <3>2. CASE ~(i <= Len(h))
      <4>1. i - Len(h) \in 1..Len(g) /\ v[i] = g[i - Len(h)] /\ i > Len(h)
        BY <3>2, <2>7, <2>8
      <4> QED BY <4>1, <1>1 DEF EsRuido, R
    <3> QED BY <3>1, <3>2
  <2>11. \A i \in 1..Len(h) : \/ h[i].t \in R \cup T
                              \/ h[i] \in I /\ \A j \in 1..Len(h) : j > i => h[j].t \in R
    BY <2>6 DEF Acaba, R
  <2>12. ASSUME NEW i \in 1..Len(v)
         PROVE  \/ v[i].t \in R \cup T
                \/ v[i] \in I /\ \A j \in 1..Len(v) : j > i => v[j].t \in R
    <3>1. CASE i > Len(h) /\ v[i].t \in R
      BY <3>1
    <3>2. CASE i \in 1..Len(h) /\ v[i] = h[i]
      BY <3>2, <2>10, <2>11
    <3> QED BY <3>1, <3>2, <2>10
  <2>13. Acaba(v, I, T)
    BY <2>12 DEF Acaba, R
  <2> QED BY <2>4, <2>5, <2>7, <2>13 DEF v, I
<1> QED BY <1>4, <1>5

\* manejar_proceso keeps the phases, whatever is in the socket.
LEMMA manejar_procesoPaso ==
  ASSUME TiposDeCPU, TiposDeProceso, Fases, NEW c \in CPUs, manejar_proceso(c)
  PROVE  TiposDeCPU' /\ Fases'
<1> DEFINE p == sesion[c].pid
<1>1. UNCHANGED <<cpu, deKM, aKS, deKS, aviso>>
  BY DEF manejar_proceso, SoloSesion
<1>2. CASE /\ Atiende(c, "pedido", 2) /\ Pedido(c).t = "FETCH"
           /\ Sigue(c, "lazo", Respuesta(p, aKM[c][2].pc))
  <2> DEFINE s == sesion[c]
             q == aKM[c]
             u == Resto(q, 2)
             k == cpu[c]
             f == deKM[c]
             n == q[2].pc
             g == Respuesta(p, n)
  <2>1. /\ s.pc = "pedido" /\ Len(q) >= 2 /\ aKM' = [aKM EXCEPT ![c] = u] /\ u \in Seq(Tramas)
        /\ Fase(k, s, q, f)
    BY <1>2, AtiendeEs
  <2>2. k \in Registros /\ s \in Sesiones /\ q \in Seq(Tramas) /\ f \in Seq(Tramas)
    BY TiposDe
  <2>3. q[1].t = "FETCH"
    BY <1>2, <2>1, <2>2 DEF Pedido
  <2>4. s.pid \in Procesos
    BY <2>1 DEF Fase
  <2>5. g \in Seq(Tramas) /\ Acaba(g, InstruccionDe(s.pid, n), {"OK", "ERROR"})
    BY <2>4, RespuestaTipo
  <2>6. Sigue(c, "lazo", g)
    BY <1>2
  <2> HIDE DEF g
  <2>7. PICK r \in Sesiones : /\ sesion' = [sesion EXCEPT ![c] = r] /\ r.envio = g
                              /\ r.pid = s.pid /\ r.pc = "lazo"
    BY <2>5, <2>6, EtapasDeKM, SigueTipo
  <2> HIDE DEF u, k, s, q, f
  <2>8. Fase(k, r, Resto(q, 2), f \o g)
    BY <2>1, <2>2, <2>3, <2>5, <2>7, FaseFetch
  <2>9. Fase(cpu[c], r, u, deKM[c] \o r.envio)
    BY <2>7, <2>8 DEF u, k, f
  <2> QED BY <1>1, <2>1, <2>7, <2>9, PasoDeSesion
<1>3. CASE /\ Atiende(c, "pedido", 3) /\ Pedido(c).t \in {"INTERRUPT", "EXIT_CPU"}
           /\ Sigue(c, "mensaje", <<Trama("OK")>>)
  BY <1>1, <1>3, UltimaPaso
<1>4. CASE /\ Atiende(c, "pedido", 1) /\ Pedido(c).t \notin {"FETCH", "INTERRUPT", "EXIT_CPU"}
           /\ Sigue(c, IF Pedido(c).t = "SEG_FAULT" THEN "mensaje" ELSE "lazo", <<>>)
  <2> DEFINE l == IF Pedido(c).t = "SEG_FAULT" THEN "mensaje" ELSE "lazo"
  <2>1. l \in {"mensaje", "lazo"} /\ Sigue(c, l, <<>>)
    BY <1>4
  <2> HIDE DEF l
  <2> QED BY <1>1, <1>4, <2>1, DescartaPaso
<1>5. \/ /\ Atiende(c, "pedido", 2) /\ Pedido(c).t = "FETCH"
         /\ Sigue(c, "lazo", Respuesta(p, aKM[c][2].pc))
      \/ /\ Atiende(c, "pedido", 3) /\ Pedido(c).t \in {"INTERRUPT", "EXIT_CPU"}
         /\ Sigue(c, "mensaje", <<Trama("OK")>>)
      \/ /\ Atiende(c, "pedido", 1) /\ Pedido(c).t \notin {"FETCH", "INTERRUPT", "EXIT_CPU"}
         /\ Sigue(c, IF Pedido(c).t = "SEG_FAULT" THEN "mensaje" ELSE "lazo", <<>>)
  BY DEF manejar_proceso, Respuesta
<1> QED BY <1>2, <1>3, <1>4, <1>5

\* A map of the sticks written between two frames keeps the phases.
LEMMA avisarPaso ==
  ASSUME TiposDeCPU, Fases, avisar
  PROVE  TiposDeCPU' /\ Fases'
<1> DEFINE h == Head(aviso)
           c == h.cpu
           e == Trama(h.t)
<1>1. /\ aviso # <<>> /\ deKM' = [deKM EXCEPT ![c] = Append(@, e)] /\ aviso' = Tail(aviso)
      /\ UNCHANGED <<cpu, aKM, aKS, deKS, sesion>>
  BY DEF avisar, enCPU
<1>2. aviso \in Seq(Avisos)
  BY DEF TiposDeCPU
<1>3. h \in Avisos /\ Tail(aviso) \in Seq(Avisos)
  BY <1>1, <1>2, HeadTailProperties
<1>4. c \in CPUs /\ h.t \in {"MAPA", "mapa"}
  BY <1>3 DEF Avisos
<1>5. h.t \in TiposDeTrama \ {"pid", "contexto", "instruccion"}
  BY <1>4 DEF TiposDeTrama
<1>6. e \in Tramas /\ e.t = h.t
  BY <1>5, TramasHechas
<1>7. e.t \in Ruido
  BY <1>4, <1>6 DEF Ruido
<1> HIDE DEF e, c, h
<1>8. deKM[c] \in Seq(Tramas) /\ sesion[c].envio \in Seq(Tramas)
  BY <1>4, TiposDe
<1>9. Append(deKM[c], e) \in Seq(Tramas)
  BY <1>6, <1>8, AppendProperties
<1>10. /\ deKM' \in [CPUs -> Seq(Tramas)] /\ deKM'[c] = Append(deKM[c], e)
       /\ \A d \in CPUs \ {c} : deKM'[d] = deKM[d]
  BY <1>1, <1>4, <1>9 DEF TiposDeCPU
<1>11. TiposDeCPU'
  BY <1>1, <1>3, <1>10 DEF TiposDeCPU
<1>12. Fase(cpu[c], sesion[c], aKM[c], deKM[c] \o sesion[c].envio)
  BY <1>4 DEF Fases, Flujo
<1>13. Fase(cpu[c], sesion[c], aKM[c], Append(deKM[c], e) \o sesion[c].envio)
  BY <1>6, <1>7, <1>8, <1>12, FaseRuido
<1>14. Fase(cpu'[c], sesion'[c], aKM'[c], deKM'[c] \o sesion'[c].envio)
  BY <1>1, <1>10, <1>13
<1> QED BY <1>1, <1>4, <1>10, <1>11, <1>14, UnaFase

\* A stick that connects prepares its maps.
LEMMA notificar_mapa_a_todasPaso ==
  ASSUME TiposDeCPU, Fases, notificar_mapa_a_todas(SetToSeq(CPUs))
  PROVE  TiposDeCPU' /\ Fases'
<1> DEFINE orden == SetToSeq(CPUs)
           n == 2 * Len(orden)
           a == [i \in 1..n |-> [cpu |-> orden[(i + 1) \div 2], t |-> IF i % 2 = 1 THEN "MAPA" ELSE "mapa"]]
<1>1. aviso' = a /\ UNCHANGED <<cpu, aKM, deKM, aKS, deKS, sesion>>
  BY DEF notificar_mapa_a_todas, enCPU
<1>2. orden \in Seq(CPUs)
  BY OrdenDeCPUs
<1>3. Len(orden) \in Nat /\ n \in Nat
  BY <1>2, LenProperties
<1>4. \A i \in 1..n : (i + 1) \div 2 \in 1..Len(orden)
  BY <1>3
<1>5. \A i \in 1..n : orden[(i + 1) \div 2] \in CPUs
  BY <1>2, <1>4, ElementOfSeq
<1> HIDE DEF orden, n
<1>6. a \in [1..n -> Avisos]
  BY <1>5 DEF Avisos
<1> HIDE DEF a
<1>7. a \in Seq(Avisos)
  BY <1>3, <1>6
<1> QED BY <1>1, <1>7 DEF TiposDeCPU, Fases, Flujo

-----------------------------------------------------------------------------
(* The steps of the scheduler, and what the others do to the processes.    *)

PlanOK(plan) == plan \in Planes /\ \A p \in Procesos : plan.estado[p] = "EXEC" => plan.en[p] \in CPUs

\* A process that leaves a CPU.
LEMMA DejaEs ==
  ASSUME PlanOK(ks), NEW c \in CPUs, NEW p \in Procesos, NEW e \in {"READY", "BLOCK", "EXIT"}
  PROVE  LET u == Deja(ks, c, p, e) IN
         /\ PlanOK(u) /\ u.estado = [ks.estado EXCEPT ![p] = e] /\ u.en = ks.en
         /\ u.libres = ks.libres \cup {c} /\ u.tomador = ks.tomador /\ u.cola = ks.cola
         /\ u.interrumpe = ks.interrumpe /\ u.manejador = ks.manejador
<1> DEFINE u == Deja(ks, c, p, e)
<1>1. ks \in Planes
  BY DEF PlanOK
<1>2. e \in Estados
  BY DEF Estados
<1>3. /\ u.estado = [ks.estado EXCEPT ![p] = e] /\ u.en = ks.en
      /\ u.libres = ks.libres \cup {c} /\ u.tomador = ks.tomador /\ u.cola = ks.cola
      /\ u.interrumpe = ks.interrumpe /\ u.manejador = ks.manejador
  BY <1>1 DEF Deja, Planes
<1>4. u \in Planes
  <2>1. [ks.estado EXCEPT ![p] = e] \in [Procesos -> Estados]
    BY <1>1, <1>2 DEF Planes
  <2>3. ks.libres \cup {c} \in SUBSET CPUs
    BY <1>1 DEF Planes
  <2>4. u = [ks EXCEPT !.estado = [ks.estado EXCEPT ![p] = e], !.libres = ks.libres \cup {c}]
    BY DEF Deja
  <2> HIDE DEF u
  <2> QED BY <1>1, <2>1, <2>3, <2>4 DEF Planes
<1>5. \A r \in Procesos : u.estado[r] = "EXEC" => u.en[r] \in CPUs
  <2> SUFFICES ASSUME NEW r \in Procesos, u.estado[r] = "EXEC" PROVE u.en[r] \in CPUs
    OBVIOUS
  <2>0. ks.estado \in [Procesos -> Estados] /\ ks.en \in [Procesos -> CPUs \cup {Nadie}]
    BY <1>1 DEF Planes
  <2>1. r # p /\ ks.estado[r] = "EXEC" /\ u.en[r] = ks.en[r]
    BY <1>3, <2>0
  <2> QED BY <2>1 DEF PlanOK
<1> QED BY <1>3, <1>4, <1>5 DEF PlanOK

\* Two fields of the plan that the mutexes change.
LEMMA PlanConMutex ==
  ASSUME NEW u, PlanOK(u), NEW t \in Nombres, NEW q \in Seq(Procesos)
  PROVE  LET v == [u EXCEPT !.tomador = t, !.cola = q] IN
         /\ PlanOK(v) /\ v.estado = u.estado /\ v.en = u.en /\ v.libres = u.libres
         /\ v.tomador = t /\ v.cola = q /\ v.interrumpe = u.interrumpe
         /\ v.manejador = u.manejador
BY DEF PlanOK, Planes

\* A thread that goes on to another point of its handler.
LEMMA PlanConHilo ==
  ASSUME NEW u, PlanOK(u), NEW c \in CPUs, NEW h \in Hilos
  PROVE  LET v == [u EXCEPT !.manejador[c] = h] IN
         /\ PlanOK(v) /\ v.estado = u.estado /\ v.en = u.en /\ v.libres = u.libres
         /\ v.tomador = u.tomador /\ v.cola = u.cola /\ v.interrumpe = u.interrumpe
         /\ v.manejador = [u.manejador EXCEPT ![c] = h]
<1> DEFINE m == [u.manejador EXCEPT ![c] = h]
           v == [u EXCEPT !.manejador[c] = h]
<1>1. u \in Planes /\ m \in [CPUs -> Hilos]
  BY DEF PlanOK, Planes
<1>2. v = [u EXCEPT !.manejador = m]
  OBVIOUS
<1> HIDE DEF v, m
<1>3. /\ v \in Planes /\ v.estado = u.estado /\ v.en = u.en /\ v.libres = u.libres
      /\ v.tomador = u.tomador /\ v.cola = u.cola /\ v.interrumpe = u.interrumpe
      /\ v.manejador = m
  BY <1>1, <1>2 DEF Planes
<1> QED BY <1>3 DEF PlanOK, v, m

\* A process that changes its state and leaves EXEC.
LEMMA PlanConEstado ==
  ASSUME NEW u, PlanOK(u), NEW p \in Procesos, NEW e \in {"READY", "BLOCK", "EXIT"}
  PROVE  LET v == [u EXCEPT !.estado[p] = e] IN
         /\ PlanOK(v) /\ v.estado = [u.estado EXCEPT ![p] = e] /\ v.en = u.en
         /\ v.libres = u.libres /\ v.tomador = u.tomador /\ v.cola = u.cola
         /\ v.interrumpe = u.interrumpe /\ v.manejador = u.manejador
<1> DEFINE v == [u EXCEPT !.estado[p] = e]
           w == [u.estado EXCEPT ![p] = e]
<1>1. u \in Planes /\ u.estado \in [Procesos -> Estados]
  BY DEF PlanOK, Planes
<1>2. e \in Estados
  BY DEF Estados
<1>3. w \in [Procesos -> Estados]
  BY <1>1, <1>2
<1>4. v = [u EXCEPT !.estado = w]
  OBVIOUS
<1> HIDE DEF v
<1>5. /\ v \in Planes /\ v.estado = w /\ v.en = u.en
      /\ v.libres = u.libres /\ v.tomador = u.tomador /\ v.cola = u.cola
      /\ v.interrumpe = u.interrumpe /\ v.manejador = u.manejador
  BY <1>1, <1>3, <1>4 DEF Planes
<1>6. \A r \in Procesos : v.estado[r] = "EXEC" => u.estado[r] = "EXEC"
  BY <1>1, <1>5
<1>7. PlanOK(v)
  BY <1>5, <1>6 DEF PlanOK
<1> QED BY <1>5, <1>7 DEF v

\* The message the scheduler handles, and what is left of the socket.
LEMMA MensajeTipo ==
  ASSUME TiposDeCPU, NEW c \in CPUs, aKS[c] # <<>>
  PROVE  /\ Head(aKS[c]) \in Avisados /\ Head(aKS[c]).pid \in Procesos
         /\ Tail(aKS[c]) \in Seq(Avisados)
<1>1. aKS[c] \in Seq(Avisados)
  BY TiposDe
<1>2. Head(aKS[c]) \in Avisados /\ Tail(aKS[c]) \in Seq(Avisados)
  BY <1>1, HeadTailProperties
<1> QED BY <1>2 DEF Avisados

\* Taking the message that was handled.
LEMMA AtendidoTipo ==
  ASSUME TiposDeCPU, NEW c \in CPUs, aKS[c] # <<>>, Atendido(c)
  PROVE  /\ aKS' \in [CPUs -> Seq(Avisados)] /\ aKS'[c] = Tail(aKS[c])
         /\ \A d \in CPUs \ {c} : aKS'[d] = aKS[d]
BY MensajeTipo DEF Atendido, TiposDeCPU

\* Writing to a CPU.
LEMMA EscribeCPUTipo ==
  ASSUME TiposDeCPU, NEW c \in CPUs, NEW p \in Procesos,
         NEW tipo \in {"PID", "INTERRUPT", "OK", "ERROR", "BLOQUEADO"}, EscribeCPU(c, tipo, p)
  PROVE  LET m == [t |-> tipo, pid |-> p] IN
         /\ deKS' \in [CPUs -> Seq(Ordenes)] /\ m \in Ordenes
         /\ deKS'[c] = Append(deKS[c], m) /\ \A d \in CPUs \ {c} : deKS'[d] = deKS[d]
<1> DEFINE m == [t |-> tipo, pid |-> p]
<1>1. m \in Ordenes
  BY DEF Ordenes
<1>2. deKS' = [deKS EXCEPT ![c] = Append(@, m)]
  BY DEF EscribeCPU
<1> HIDE DEF m
<1>3. Append(deKS[c], m) \in Seq(Ordenes)
  BY <1>1, TiposDe, AppendProperties
<1>4. /\ deKS' \in [CPUs -> Seq(Ordenes)]
      /\ deKS'[c] = Append(deKS[c], m) /\ \A d \in CPUs \ {c} : deKS'[d] = deKS[d]
  BY <1>2, <1>3 DEF TiposDeCPU
<1> QED BY <1>1, <1>4 DEF m

\* A step of the scheduler leaves the sessions with Kernel Memory as they are.
LEMMA PasoDeKS ==
  ASSUME TiposDeCPU, Fases, UNCHANGED <<cpu, aKM, deKM, sesion, aviso>>,
         aKS' \in [CPUs -> Seq(Avisados)], deKS' \in [CPUs -> Seq(Ordenes)]
  PROVE  TiposDeCPU' /\ Fases'
BY DEF TiposDeCPU, Fases, Flujo

\* The record of Kernel Memory about a process.
LEMMA MemoriaTipo ==
  ASSUME TiposDeProceso, NEW p \in Procesos
  PROVE  /\ km[p].vivo \in BOOLEAN /\ km[p].pc \in Nat /\ km[p].segmentos \in Nat /\ km[p].cambios \in Nat
         /\ [km EXCEPT ![p].vivo = FALSE] \in [Procesos -> Memorias]
         /\ \A n \in Nat : [km EXCEPT ![p].pc = n] \in [Procesos -> Memorias]
         /\ [km EXCEPT ![p].cambios = @ + 1] \in [Procesos -> Memorias]
         /\ \A n \in Nat : [km EXCEPT ![p].segmentos = n, ![p].cambios = @ + 1] \in [Procesos -> Memorias]
<1>1. km \in [Procesos -> Memorias] /\ km[p] \in Memorias
  BY DEF TiposDeProceso
<1>2. km[p].vivo \in BOOLEAN /\ km[p].pc \in Nat /\ km[p].segmentos \in Nat /\ km[p].cambios \in Nat
  BY <1>1 DEF Memorias
<1>3. \A m \in Memorias : [km EXCEPT ![p] = m] \in [Procesos -> Memorias]
  BY <1>1
<1>4. [km[p] EXCEPT !.vivo = FALSE] \in Memorias
  BY <1>1 DEF Memorias
<1>5. \A n \in Nat : [km[p] EXCEPT !.pc = n] \in Memorias
  BY <1>1 DEF Memorias
<1>6. [km[p] EXCEPT !.cambios = @ + 1] \in Memorias
  BY <1>1, <1>2 DEF Memorias
<1>12. \A n, l \in Nat : [km[p] EXCEPT !.segmentos = n, !.cambios = l] \in Memorias
  <2> TAKE n, l \in Nat
  <2> DEFINE m == [km[p] EXCEPT !.segmentos = n]
  <2>1. m \in Memorias
    BY <1>1 DEF Memorias
  <2>2. [km[p] EXCEPT !.segmentos = n, !.cambios = l] = [m EXCEPT !.cambios = l]
    BY <1>1 DEF Memorias
  <2> HIDE DEF m
  <2>3. [m EXCEPT !.cambios = l] \in Memorias
    BY <2>1 DEF Memorias
  <2> QED BY <2>2, <2>3
<1>7. \A n \in Nat : [km[p] EXCEPT !.segmentos = n, !.cambios = @ + 1] \in Memorias
  <2> TAKE n \in Nat
  <2> DEFINE l == km[p].cambios + 1
  <2>1. l \in Nat
    BY <1>2
  <2> HIDE DEF l
  <2>2. [km[p] EXCEPT !.segmentos = n, !.cambios = l] \in Memorias
    BY <1>12, <2>1
  <2> QED BY <2>2 DEF l
<1>8. [km EXCEPT ![p].vivo = FALSE] \in [Procesos -> Memorias]
  BY <1>3, <1>4
<1>9. \A n \in Nat : [km EXCEPT ![p].pc = n] \in [Procesos -> Memorias]
  BY <1>3, <1>5
<1>10. [km EXCEPT ![p].cambios = @ + 1] \in [Procesos -> Memorias]
  BY <1>3, <1>6
<1>11. \A n \in Nat : [km EXCEPT ![p].segmentos = n, ![p].cambios = @ + 1] \in [Procesos -> Memorias]
  <2> TAKE n \in Nat
  <2> DEFINE m == [km[p] EXCEPT !.segmentos = n, !.cambios = @ + 1]
  <2>1. [km EXCEPT ![p].segmentos = n, ![p].cambios = @ + 1] = [km EXCEPT ![p] = m]
    BY <1>1
  <2>2. m \in Memorias
    BY <1>7
  <2> HIDE DEF m
  <2> QED BY <2>1, <2>2, <1>3
<1> QED BY <1>2, <1>8, <1>9, <1>10, <1>11

\* despachar keeps the types and the phases.
LEMMA despacharPaso ==
  ASSUME Tipos, Fases, NEW c \in CPUs, NEW p \in Procesos, despachar(c, p)
  PROVE  Tipos' /\ Fases'
<1>1. /\ ks' = [ks EXCEPT !.estado[p] = "EXEC", !.en[p] = c, !.libres = @ \ {c}]
      /\ EscribeCPU(c, "PID", p) /\ aKS' = aKS
      /\ UNCHANGED <<cpu, aKM, deKM, sesion, aviso, km, real>>
  BY DEF despachar, SoloKS
<1>2. TiposDeCPU /\ ks \in Planes
  BY DEF Tipos, TiposDeProceso
<1>3. "PID" \in {"PID", "INTERRUPT", "OK", "ERROR", "BLOQUEADO"}
  OBVIOUS
<1>4. deKS' \in [CPUs -> Seq(Ordenes)] /\ aKS' \in [CPUs -> Seq(Avisados)]
  BY <1>1, <1>2, <1>3, EscribeCPUTipo DEF TiposDeCPU
<1>5. TiposDeCPU' /\ Fases'
  BY <1>1, <1>2, <1>4, PasoDeKS
<1> DEFINE a == [ks.estado EXCEPT ![p] = "EXEC"]
           b == [ks.en EXCEPT ![p] = c]
           l == ks.libres \ {c}
<1>6. a \in [Procesos -> Estados] /\ b \in [Procesos -> CPUs \cup {Nadie}] /\ l \in SUBSET CPUs
  BY <1>2 DEF Planes, Estados
<1>7. ks' = [ks EXCEPT !.estado = a, !.en = b, !.libres = l]
  BY <1>1
<1>8. \A r \in Procesos : a[r] = "EXEC" => b[r] \in CPUs
  BY <1>2 DEF Tipos, TiposDeProceso, Planes
<1> HIDE DEF a, b, l
<1>9. ks' \in Planes /\ ks'.estado = a /\ ks'.en = b
  BY <1>2, <1>6, <1>7 DEF Planes
<1>10. TiposDeProceso'
  BY <1>1, <1>8, <1>9 DEF Tipos, TiposDeProceso
<1> QED BY <1>5, <1>10 DEF Tipos

\* decidir_interrupcion keeps them.
LEMMA decidir_interrupcionPaso ==
  ASSUME Tipos, Fases, NEW p \in Procesos, decidir_interrupcion(p)
  PROVE  Tipos' /\ Fases'
<1> DEFINE m == [cpu |-> ks.en[p], pid |-> p]
<1>1. /\ ks.estado[p] = "EXEC" /\ ks' = [ks EXCEPT !.interrumpe = Append(@, m)]
      /\ UNCHANGED <<cpu, aKM, deKM, aKS, deKS, sesion, aviso, km, real>>
  BY DEF decidir_interrupcion, enCPU, enKM
<1>2. ks \in Planes /\ ks.en[p] \in CPUs
  BY <1>1 DEF Tipos, TiposDeProceso
<1>3. m \in [cpu : CPUs, pid : Procesos] /\ ks.interrumpe \in Seq([cpu : CPUs, pid : Procesos])
  BY <1>2 DEF Planes
<1> HIDE DEF m
<1>4. Append(ks.interrumpe, m) \in Seq([cpu : CPUs, pid : Procesos])
  BY <1>3, AppendProperties
<1>5. ks' \in Planes /\ ks'.estado = ks.estado /\ ks'.en = ks.en
  BY <1>1, <1>2, <1>4 DEF Planes
<1>6. TiposDeProceso'
  BY <1>1, <1>5 DEF Tipos, TiposDeProceso
<1>7. TiposDeCPU' /\ Fases'
  BY <1>1 DEF Tipos, TiposDeCPU, Fases, Flujo
<1> QED BY <1>6, <1>7 DEF Tipos

\* enviar_interrupcion_cpu keeps them.
LEMMA enviar_interrupcion_cpuPaso ==
  ASSUME Tipos, Fases, NEW i \in DOMAIN ks.interrumpe, enviar_interrupcion_cpu(i)
  PROVE  /\ Tipos' /\ Fases' /\ ks.interrumpe[i].cpu \in CPUs /\ ks.interrumpe[i].pid \in Procesos
         /\ ks'.estado = ks.estado /\ ks'.en = ks.en /\ ks'.libres = ks.libres
         /\ ks'.tomador = ks.tomador /\ ks'.cola = ks.cola /\ ks'.manejador = ks.manejador
<1> DEFINE s == ks.interrumpe
           P == [cpu : CPUs, pid : Procesos]
           c == s[i].cpu
           p == s[i].pid
           u == RemoveAt(s, i)
<1>1. /\ ks' = [ks EXCEPT !.interrumpe = u] /\ EscribeCPU(c, "INTERRUPT", p) /\ aKS' = aKS
      /\ UNCHANGED <<cpu, aKM, deKM, sesion, aviso, km, real>>
  BY DEF enviar_interrupcion_cpu, SoloKS
<1>2. TiposDeCPU /\ ks \in Planes /\ s \in Seq(P)
  BY DEF Tipos, TiposDeProceso, Planes
<1> HIDE DEF s, P
<1>15. Len(s) \in Nat /\ DOMAIN s = 1..Len(s)
  BY <1>2, LenProperties
<1>16. i \in 1..Len(s)
  BY <1>15 DEF s
<1>3. Len(s) \in Nat /\ i \in 1..Len(s) /\ s[i] \in P
  BY <1>2, <1>15, <1>16, ElementOfSeq
<1>4. \A j \in 1..(i - 1) : s[j] \in P
  BY <1>2, <1>3, ElementOfSeq
<1>5. \A j \in (i + 1)..Len(s) : s[j] \in P
  BY <1>2, <1>3, ElementOfSeq
<1>6. SubSeq(s, 1, i - 1) \in Seq(P)
  BY <1>3, <1>4, SubSeqProperties
<1>7. SubSeq(s, i + 1, Len(s)) \in Seq(P)
  BY <1>3, <1>5, SubSeqProperties
<1>8. u \in Seq(P)
  BY <1>6, <1>7, ConcatProperties DEF RemoveAt
<1>9. c \in CPUs /\ p \in Procesos
  BY <1>3 DEF P
<1> HIDE DEF u, c, p
<1>10. "INTERRUPT" \in {"PID", "INTERRUPT", "OK", "ERROR", "BLOQUEADO"}
  OBVIOUS
<1>11. deKS' \in [CPUs -> Seq(Ordenes)] /\ aKS' \in [CPUs -> Seq(Avisados)]
  BY <1>1, <1>2, <1>9, <1>10, EscribeCPUTipo DEF TiposDeCPU
<1>12. TiposDeCPU' /\ Fases'
  BY <1>1, <1>2, <1>11, PasoDeKS
<1>13. /\ ks' \in Planes /\ ks'.estado = ks.estado /\ ks'.en = ks.en /\ ks'.libres = ks.libres
       /\ ks'.tomador = ks.tomador /\ ks'.cola = ks.cola /\ ks'.manejador = ks.manejador
  BY <1>1, <1>2, <1>8 DEF Planes, P
<1>14. TiposDeProceso'
  BY <1>1, <1>13 DEF Tipos, TiposDeProceso
<1> QED BY <1>9, <1>12, <1>13, <1>14 DEF Tipos, c, p, s


\* A step of the cycle of a CPU, and what it does to the programs: it moves at most the
\* program counter of its own.
LEMMA CicloProceso ==
  ASSUME Tipos, NEW c \in CPUs, Ciclo(c)
  PROVE  TiposDeProceso' /\ UNCHANGED <<km, ks, usos, sesion, aviso>> /\ (UNCHANGED real \/ Avanza(c))
<1>1. UNCHANGED <<km, ks, usos, sesion, aviso>>
  <2>1. CASE esperar_pid(c) \/ recibir_mapa(c) \/ recibirContexto(c) \/ recibirInstruccion(c)
    BY <2>1 DEF esperar_pid, recibir_mapa, recibirContexto, recibirInstruccion, SoloKM, enKM
  <2>2. CASE actualizar_tabla_segmentos(c) \/ ejecutar(c) \/ respuestaKS(c) \/ guardado(c)
    BY <2>2 DEF actualizar_tabla_segmentos, ejecutar, respuestaKS, guardado, SoloKM, enKM
  <2>3. CASE okExit(c) \/ manejar_seg_fault(c) \/ atender_interrupcion_en_espera(c) \/ atender_interrupcion(c)
    BY <2>3 DEF okExit, manejar_seg_fault, atender_interrupcion_en_espera, atender_interrupcion, SoloKM, enKM
  <2> QED BY <2>1, <2>2, <2>3 DEF Ciclo
<1>2. UNCHANGED real \/ Avanza(c)
  <2>1. CASE esperar_pid(c) \/ recibir_mapa(c) \/ recibirContexto(c) \/ recibirInstruccion(c)
    BY <2>1 DEF esperar_pid, recibir_mapa, recibirContexto, recibirInstruccion
  <2>2. CASE actualizar_tabla_segmentos(c) \/ guardado(c)
    BY <2>2 DEF actualizar_tabla_segmentos, guardado
  <2>3. CASE okExit(c) \/ manejar_seg_fault(c) \/ atender_interrupcion_en_espera(c) \/ atender_interrupcion(c)
    BY <2>3 DEF okExit, manejar_seg_fault, atender_interrupcion_en_espera, atender_interrupcion
  <2>4. CASE ejecutar(c)
    BY <2>4, ejecutarFormas DEF Tipos, noop, syscall_sleep, syscall_exit
  <2>5. CASE respuestaKS(c)
    BY <2>5 DEF respuestaKS, noop
  <2> QED BY <2>1, <2>2, <2>3, <2>4, <2>5 DEF Ciclo
<1>3. real' \in [Procesos -> Nat]
  BY <1>2, AvanzaTipo DEF Tipos, TiposDeProceso
<1> QED BY <1>1, <1>2, <1>3 DEF Tipos, TiposDeProceso

\* Kernel Memory keeps the program counter of a context, which is of some process.
LEMMA ActualizarTipo ==
  ASSUME Tipos, Fases, NEW c \in CPUs, Len(aKM[c]) >= 3, aKM[c][1].t \in {"INTERRUPT", "EXIT_CPU"},
         actualizar_contexto(c)
  PROVE  /\ km' \in [Procesos -> Memorias] /\ aKM[c][3].t = "contexto"
         /\ aKM[c][3].pid \in Procesos /\ aKM[c][3].pc \in Nat
<1> DEFINE q == aKM[c]
           m == q[3]
<1>1. q \in Seq(Tramas) /\ Peticiones(sesion[c], q) /\ TiposDeProceso
  BY TiposDe DEF Tipos, Fases, Fase
<1>2. Len(q) \in Nat /\ 3 \in 1..Len(q)
  BY <1>1, LenProperties
<1>3. m \in Tramas
  BY <1>1, <1>2, ElementOfSeq
<1>4. m.t = "contexto"
  BY <1>1, <1>2 DEF Peticiones
<1>5. m.pid \in Procesos /\ m.pc \in Nat
  BY <1>3, <1>4 DEF Tramas
<1>6. km' = IF km[m.pid].vivo THEN [km EXCEPT ![m.pid].pc = m.pc] ELSE km
  BY DEF actualizar_contexto
<1> HIDE DEF m
<1>7. km' \in [Procesos -> Memorias]
  BY <1>1, <1>5, <1>6, MemoriaTipo DEF TiposDeProceso
<1> QED BY <1>4, <1>5, <1>7 DEF m

\* A step of a session changes at most the program counter Kernel Memory has.
LEMMA SesionProceso ==
  ASSUME Tipos, Fases, NEW c \in CPUs, Sesion(c)
  PROVE  TiposDeProceso' /\ UNCHANGED <<cpu, aKS, deKS, ks, real, usos, aviso>>
<1>1. UNCHANGED <<cpu, aKS, deKS, ks, real, usos, aviso>>
  BY DEF Sesion, enviar, atender_mensaje_cpu, inicializar_proceso, existe_proceso, manejar_proceso, SoloSesion
<1>2. \/ km' = km
      \/ /\ Len(aKM[c]) >= 3 /\ aKM[c][1].t \in {"INTERRUPT", "EXIT_CPU"} /\ actualizar_contexto(c)
  <2>1. CASE enviar(c) \/ inicializar_proceso(c) \/ existe_proceso(c)
    BY <2>1 DEF enviar, inicializar_proceso, existe_proceso
  <2>2. CASE atender_mensaje_cpu(c)
    BY <2>2 DEF atender_mensaje_cpu, Atiende, Pedido
  <2>3. CASE manejar_proceso(c)
    BY <2>3 DEF manejar_proceso, Atiende, Pedido
  <2> QED BY <2>1, <2>2, <2>3 DEF Sesion
<1>3. km' \in [Procesos -> Memorias]
  BY <1>2, ActualizarTipo DEF Tipos, TiposDeProceso
<1> QED BY <1>1, <1>3 DEF Tipos, TiposDeProceso


\* A step of the scheduler that leaves a plan and records of memory.
LEMMA KSPaso ==
  ASSUME Tipos, Fases, UNCHANGED <<cpu, aKM, deKM, sesion, aviso, real>>,
         aKS' \in [CPUs -> Seq(Avisados)], deKS' \in [CPUs -> Seq(Ordenes)],
         PlanOK(ks'), km' \in [Procesos -> Memorias]
  PROVE  Tipos' /\ Fases'
<1>1. TiposDeCPU' /\ Fases'
  BY PasoDeKS DEF Tipos
<1>2. TiposDeProceso'
  BY DEF Tipos, TiposDeProceso, PlanOK
<1> QED BY <1>1, <1>2 DEF Tipos

\* The plan of the scheduler is one.
LEMMA PlanDeKS == ASSUME Tipos PROVE PlanOK(ks)
BY DEF PlanOK, Tipos, TiposDeProceso

\* An answer to the message at the head of a socket.
LEMMA Contesta ==
  ASSUME Tipos, NEW c \in CPUs, aKS[c] # <<>>, Atendido(c),
         NEW tipo \in {"OK", "ERROR", "BLOQUEADO"}, EscribeCPU(c, tipo, Head(aKS[c]).pid)
  PROVE  /\ aKS' \in [CPUs -> Seq(Avisados)] /\ deKS' \in [CPUs -> Seq(Ordenes)]
         /\ Head(aKS[c]).pid \in Procesos
<1> DEFINE p == Head(aKS[c]).pid
<1>1. p \in Procesos
  BY MensajeTipo DEF Tipos
<1>2. tipo \in {"PID", "INTERRUPT", "OK", "ERROR", "BLOQUEADO"}
  OBVIOUS
<1> HIDE DEF p
<1>3. deKS' \in [CPUs -> Seq(Ordenes)]
  BY <1>1, <1>2, EscribeCPUTipo DEF Tipos, p
<1>4. aKS' \in [CPUs -> Seq(Avisados)]
  BY AtendidoTipo DEF Tipos
<1> QED BY <1>1, <1>3, <1>4 DEF p

\* km_notificar_exit keeps the types and the phases.
LEMMA km_notificar_exitPaso ==
  ASSUME Tipos, Fases, NEW c \in CPUs, km_notificar_exit(c)
  PROVE  Tipos' /\ Fases'
<1>1. aKS[c] # <<>> /\ km' = [km EXCEPT ![Head(aKS[c]).pid].vivo = FALSE]
      /\ UNCHANGED <<cpu, aKM, deKM, sesion, aviso, real, aKS, deKS, ks>>
  BY DEF km_notificar_exit, Mensaje, Recibido, SoloKS
<1> DEFINE p == Head(aKS[c]).pid
<1>2. p \in Procesos
  BY <1>1, MensajeTipo DEF Tipos
<1> HIDE DEF p
<1>3. km' \in [Procesos -> Memorias]
  BY <1>1, <1>2, MemoriaTipo DEF Tipos, p
<1>4. aKS' \in [CPUs -> Seq(Avisados)] /\ deKS' \in [CPUs -> Seq(Ordenes)] /\ PlanOK(ks')
  BY <1>1, PlanDeKS DEF Tipos, TiposDeCPU
<1> QED BY <1>1, <1>3, <1>4, KSPaso

\* The steps in which a process leaves its CPU.
LEMMA DejaPaso ==
  ASSUME Tipos, Fases, NEW c \in CPUs, aKS[c] # <<>>, NEW e \in {"READY", "BLOCK", "EXIT"},
         ks' = Deja(ks, c, Head(aKS[c]).pid, e), Atendido(c),
         UNCHANGED <<cpu, aKM, deKM, sesion, aviso, real, km>>,
         deKS' = deKS \/ EscribeCPU(c, "OK", Head(aKS[c]).pid)
  PROVE  Tipos' /\ Fases'
<1> DEFINE p == Head(aKS[c]).pid
<1>1. p \in Procesos
  BY MensajeTipo DEF Tipos
<1> HIDE DEF p
<1>2. PlanOK(ks')
  BY <1>1, DejaEs, PlanDeKS DEF p
<1>3. aKS' \in [CPUs -> Seq(Avisados)]
  BY AtendidoTipo DEF Tipos
<1>4. "OK" \in {"OK", "ERROR", "BLOQUEADO"}
  OBVIOUS
<1>5. deKS' \in [CPUs -> Seq(Ordenes)]
  BY <1>4, Contesta DEF Tipos, TiposDeCPU
<1>6. km' \in [Procesos -> Memorias]
  BY DEF Tipos, TiposDeProceso
<1> QED BY <1>2, <1>3, <1>5, <1>6, KSPaso

\* finalizar_proceso, interrupcionAtendida and atender_sleep_ks keep them.
LEMMA DejanPaso ==
  ASSUME Tipos, Fases, NEW c \in CPUs,
         finalizar_proceso(c) \/ interrupcionAtendida(c) \/ atender_sleep_ks(c)
  PROVE  Tipos' /\ Fases'
<1>0. "READY" \in {"READY", "BLOCK", "EXIT"} /\ "BLOCK" \in {"READY", "BLOCK", "EXIT"}
      /\ "EXIT" \in {"READY", "BLOCK", "EXIT"}
  OBVIOUS
<1>1. CASE finalizar_proceso(c)
  <2>1. /\ aKS[c] # <<>> /\ ks' = Deja(ks, c, Head(aKS[c]).pid, "EXIT") /\ Atendido(c)
        /\ UNCHANGED <<cpu, aKM, deKM, sesion, aviso, real, km>>
        /\ (deKS' = deKS \/ EscribeCPU(c, "OK", Head(aKS[c]).pid))
    BY <1>1 DEF finalizar_proceso, Mensaje, Recibido, SoloKS
  <2> QED BY <2>1, <1>0, DejaPaso
<1>2. CASE interrupcionAtendida(c)
  <2>1. /\ aKS[c] # <<>> /\ ks' = Deja(ks, c, Head(aKS[c]).pid, "READY") /\ Atendido(c)
        /\ UNCHANGED <<cpu, aKM, deKM, sesion, aviso, real, km>> /\ deKS' = deKS
    BY <1>2 DEF interrupcionAtendida, Mensaje, Recibido, SoloKS
  <2> QED BY <2>1, <1>0, DejaPaso
<1>3. CASE atender_sleep_ks(c)
  <2>1. /\ aKS[c] # <<>> /\ ks' = Deja(ks, c, Head(aKS[c]).pid, "BLOCK") /\ Atendido(c)
        /\ UNCHANGED <<cpu, aKM, deKM, sesion, aviso, real, km>> /\ deKS' = deKS
    BY <1>3 DEF atender_sleep_ks, Mensaje, Recibido, SoloKS
  <2> QED BY <2>1, <1>0, DejaPaso
<1> QED BY <1>1, <1>2, <1>3

\* finalizar_io_y_desbloquear keeps them.
LEMMA finalizar_io_y_desbloquearPaso ==
  ASSUME Tipos, Fases, NEW p \in Procesos, finalizar_io_y_desbloquear(p)
  PROVE  Tipos' /\ Fases'
<1>1. /\ ks' = [ks EXCEPT !.estado[p] = "READY"]
      /\ UNCHANGED <<cpu, aKM, deKM, sesion, aviso, real, aKS, deKS, km>>
  BY DEF finalizar_io_y_desbloquear, SoloKS
<1>2. "READY" \in {"READY", "BLOCK", "EXIT"}
  OBVIOUS
<1>3. PlanOK(ks')
  BY <1>1, <1>2, PlanDeKS, PlanConEstado
<1>4. aKS' \in [CPUs -> Seq(Avisados)] /\ deKS' \in [CPUs -> Seq(Ordenes)]
      /\ km' \in [Procesos -> Memorias]
  BY <1>1 DEF Tipos, TiposDeCPU, TiposDeProceso
<1> QED BY <1>1, <1>3, <1>4, KSPaso

\* reubicar keeps them.
LEMMA reubicarPaso ==
  ASSUME Tipos, Fases, NEW p \in Procesos, reubicar(p)
  PROVE  Tipos' /\ Fases'
<1>1. /\ km' = [km EXCEPT ![p].cambios = @ + 1]
      /\ UNCHANGED <<cpu, aKM, deKM, sesion, aviso, real, aKS, deKS, ks>>
  BY DEF reubicar, enCPU
<1>2. km' \in [Procesos -> Memorias]
  BY <1>1, MemoriaTipo DEF Tipos
<1>4. aKS' \in [CPUs -> Seq(Avisados)] /\ deKS' \in [CPUs -> Seq(Ordenes)] /\ PlanOK(ks')
  BY <1>1, PlanDeKS DEF Tipos, TiposDeCPU
<1> QED BY <1>1, <1>2, <1>4, KSPaso

\* The process of the message that a thread is handling, and an answer written to its CPU,
\* which goes nowhere if it has none.
LEMMA EscribeEn ==
  ASSUME Tipos, NEW p \in Procesos, NEW tipo \in {"OK", "BLOQUEADO"}, EscribeCPU(ks.en[p], tipo, p)
  PROVE  deKS' \in [CPUs -> Seq(Ordenes)]
<1>1. ks.en[p] \in CPUs \cup {Nadie} /\ deKS \in [CPUs -> Seq(Ordenes)]
  BY DEF Tipos, TiposDeCPU, TiposDeProceso, Planes
<1>2. CASE ks.en[p] \in CPUs
  <2>1. tipo \in {"PID", "INTERRUPT", "OK", "ERROR", "BLOQUEADO"}
    OBVIOUS
  <2> QED BY <1>2, <2>1, EscribeCPUTipo DEF Tipos
<1>3. CASE ks.en[p] = Nadie
  <2>1. Nadie \notin CPUs
    BY SesionCPUAssumption
  <2>2. deKS' = deKS
    BY <1>1, <1>3, <2>1 DEF EscribeCPU
  <2> QED BY <1>1, <2>2
<1> QED BY <1>1, <1>2, <1>3

\* The steps of MUTEX_LOCK keep them.
LEMMA mutex_lockPaso ==
  ASSUME Tipos, Fases, NEW c \in CPUs,
         \/ mutex_lock_libre(c) \/ mutex_lock_ocupado(c) \/ avisarBloqueado(c) \/ bloquearPorMutex(c)
  PROVE  Tipos' /\ Fases'
<1> DEFINE p == Head(aKS[c]).pid
<1>0. "OK" \in {"OK", "BLOQUEADO"} /\ "BLOQUEADO" \in {"OK", "BLOQUEADO"}
      /\ "BLOCK" \in {"READY", "BLOCK", "EXIT"}
  OBVIOUS
<1>1. UNCHANGED <<cpu, aKM, deKM, sesion, aviso, real, km>>
  BY DEF mutex_lock_libre, mutex_lock_ocupado, avisarBloqueado, bloquearPorMutex, SoloKS
<1>2. PlanOK(ks) /\ ks \in Planes /\ TiposDeCPU /\ km' \in [Procesos -> Memorias]
  BY <1>1, PlanDeKS DEF PlanOK, Tipos, TiposDeProceso
<1>3. aKS \in [CPUs -> Seq(Avisados)] /\ deKS \in [CPUs -> Seq(Ordenes)]
  BY <1>2 DEF TiposDeCPU
<1>4. aKS[c] # <<>> => p \in Procesos
  BY <1>2, MensajeTipo
<1> HIDE DEF p
<1>5. CASE mutex_lock_libre(c)
  <2>1. /\ aKS[c] # <<>> /\ Atendido(c) /\ ks' = [ks EXCEPT !.tomador = p] /\ EscribeCPU(ks.en[p], "OK", p)
    BY <1>5 DEF mutex_lock_libre, Mensaje, Recibido, p
  <2>2. aKS' \in [CPUs -> Seq(Avisados)] /\ deKS' \in [CPUs -> Seq(Ordenes)]
    BY <1>0, <1>2, <1>4, <2>1, AtendidoTipo, EscribeEn
  <2>3. PlanOK(ks')
    BY <1>2, <1>4, <2>1 DEF PlanOK, Planes, Nombres
  <2> QED BY <1>1, <1>2, <2>2, <2>3, KSPaso
<1>6. CASE mutex_lock_ocupado(c)
  <2> DEFINE q == Append(ks.cola, p)
             u == [ks EXCEPT !.cola = q]
             h == [pc |-> "avisar", pid |-> p]
  <2>1. /\ aKS[c] # <<>> /\ UNCHANGED <<aKS, deKS>>
        /\ ks' = [ks EXCEPT !.cola = q, !.manejador[c] = h]
    BY <1>6 DEF mutex_lock_ocupado, Mensaje, Recibido, p
  <2>2. q \in Seq(Procesos) /\ h \in Hilos
    BY <1>2, <1>4, <2>1, AppendProperties DEF Planes, Hilos, Nombres
  <2>3. ks' = [u EXCEPT !.manejador[c] = h]
    BY <1>2, <2>1 DEF Planes
  <2> HIDE DEF q, h
  <2>4. PlanOK(u)
    BY <1>2, <2>2 DEF PlanOK, Planes
  <2> HIDE DEF u
  <2>5. PlanOK(ks')
    BY <2>2, <2>3, <2>4, PlanConHilo
  <2>6. aKS' \in [CPUs -> Seq(Avisados)] /\ deKS' \in [CPUs -> Seq(Ordenes)]
    BY <1>3, <2>1
  <2> QED BY <1>1, <1>2, <2>5, <2>6, KSPaso
<1>7. CASE avisarBloqueado(c)
  <2> DEFINE h == [ks.manejador[c] EXCEPT !.pc = "bloquear"]
  <2>1. /\ aKS[c] # <<>> /\ Atendido(c) /\ EscribeCPU(ks.en[p], "BLOQUEADO", p)
        /\ ks' = [ks EXCEPT !.manejador[c] = h] /\ ks.manejador[c].pc = "avisar"
    BY <1>7, <1>2 DEF avisarBloqueado, Recibido, p, Planes
  <2>2. h \in Hilos
    BY <1>2, <2>1 DEF Planes, Hilos
  <2> HIDE DEF h
  <2>3. PlanOK(ks')
    BY <1>2, <2>1, <2>2, PlanConHilo
  <2>4. aKS' \in [CPUs -> Seq(Avisados)] /\ deKS' \in [CPUs -> Seq(Ordenes)]
    BY <1>0, <1>2, <1>4, <2>1, AtendidoTipo, EscribeEn
  <2> QED BY <1>1, <1>2, <2>3, <2>4, KSPaso
<1>8. CASE bloquearPorMutex(c)
  <2> DEFINE r == ks.manejador[c].pid
             u == Deja(ks, c, r, "BLOCK")
             h == [pc |-> "libre", pid |-> Nadie]
  <2>1. /\ ks.manejador[c].pc = "bloquear" /\ UNCHANGED <<aKS, deKS>>
        /\ ks' = [u EXCEPT !.manejador[c] = h]
    BY <1>8 DEF bloquearPorMutex
  <2>2. r \in Procesos /\ h \in Hilos
    BY <1>2, <2>1 DEF Planes, Hilos, Nombres
  <2> HIDE DEF r, h
  <2>3. PlanOK(u)
    BY <1>0, <1>2, <2>2, DejaEs
  <2> HIDE DEF u
  <2>4. PlanOK(ks')
    BY <2>1, <2>2, <2>3, PlanConHilo
  <2>5. aKS' \in [CPUs -> Seq(Avisados)] /\ deKS' \in [CPUs -> Seq(Ordenes)]
    BY <1>3, <2>1
  <2> QED BY <1>1, <1>2, <2>4, <2>5, KSPaso
<1> QED BY <1>5, <1>6, <1>7, <1>8

\* mutex_unlock keeps them.
LEMMA mutex_unlockPaso ==
  ASSUME Tipos, Fases, NEW c \in CPUs, mutex_unlock(c)
  PROVE  Tipos' /\ Fases'
<1> DEFINE p == Head(aKS[c]).pid
           h == Head(ks.cola)
           t == Tail(ks.cola)
<1>0. "OK" \in {"OK", "ERROR", "BLOQUEADO"} /\ "READY" \in {"READY", "BLOCK", "EXIT"}
  OBVIOUS
<1>1. /\ aKS[c] # <<>> /\ Atendido(c) /\ EscribeCPU(c, "OK", p)
      /\ UNCHANGED <<cpu, aKM, deKM, sesion, aviso, real, km>>
      /\ \/ ks' = ks
         \/ ks' = [ks EXCEPT !.tomador = Nadie]
         \/ /\ ks.cola # <<>>
            /\ ks' = [ks EXCEPT !.tomador = h, !.cola = t, !.estado[h] = "READY"]
  BY DEF mutex_unlock, Mensaje, Recibido, SoloKS
<1>2. /\ aKS' \in [CPUs -> Seq(Avisados)] /\ deKS' \in [CPUs -> Seq(Ordenes)]
  BY <1>0, <1>1, Contesta
<1>3. PlanOK(ks) /\ ks \in Planes
  BY PlanDeKS DEF PlanOK
<1>4. ASSUME ks' = ks PROVE PlanOK(ks')
  BY <1>3, <1>4
<1>5. ASSUME ks' = [ks EXCEPT !.tomador = Nadie] PROVE PlanOK(ks')
  BY <1>3, <1>5 DEF PlanOK, Planes, Nombres
<1>6. ASSUME ks.cola # <<>>, ks' = [ks EXCEPT !.tomador = h, !.cola = t, !.estado[h] = "READY"]
      PROVE  PlanOK(ks')
  <2>1. h \in Procesos /\ t \in Seq(Procesos)
    BY <1>3, <1>6, HeadTailProperties DEF Planes
  <2> HIDE DEF h, t
  <2> DEFINE v == [ks EXCEPT !.tomador = h, !.cola = t]
  <2>2. PlanOK(v)
    BY <1>3, <2>1, PlanConMutex DEF Nombres
  <2>3. ks' = [v EXCEPT !.estado[h] = "READY"]
    BY <1>3, <1>6 DEF Planes
  <2> HIDE DEF v
  <2> QED BY <1>0, <2>1, <2>2, <2>3, PlanConEstado
<1>7. PlanOK(ks')
  BY <1>1, <1>4, <1>5, <1>6
<1>8. km' \in [Procesos -> Memorias]
  BY <1>1 DEF Tipos, TiposDeProceso
<1> QED BY <1>1, <1>2, <1>7, <1>8, KSPaso

\* What MEM_ALLOC and MEM_FREE change in Kernel Memory.
LEMMA memoriaPaso ==
  ASSUME Tipos, Fases, NEW c \in CPUs, memoria(c)
  PROVE  Tipos' /\ Fases'
<1> DEFINE p == Head(aKS[c]).pid
           delta == IF Mensaje(c, "MEM_ALLOC") THEN 1 ELSE -1
           n == km[p].segmentos + delta
<1>0. "OK" \in {"OK", "ERROR", "BLOQUEADO"} /\ "ERROR" \in {"OK", "ERROR", "BLOQUEADO"}
  OBVIOUS
<1>1. /\ aKS[c] # <<>> /\ Atendido(c)
      /\ EscribeCPU(c, "OK", p) \/ EscribeCPU(c, "ERROR", p)
      /\ UNCHANGED <<cpu, aKM, deKM, sesion, aviso, real, ks>>
      /\ \/ km' = km
         \/ /\ ~(n < 0)
            /\ km' = [km EXCEPT ![p].segmentos = @ + delta, ![p].cambios = @ + 1]
  BY DEF memoria, Mensaje, Recibido, SoloKS
<1>2. /\ aKS' \in [CPUs -> Seq(Avisados)] /\ deKS' \in [CPUs -> Seq(Ordenes)] /\ p \in Procesos
  BY <1>0, <1>1, Contesta
<1>3. delta \in Int
  OBVIOUS
<1> HIDE DEF p, delta
<1>4. km[p].segmentos \in Nat /\ km \in [Procesos -> Memorias]
  BY <1>2, MemoriaTipo DEF Tipos, TiposDeProceso
<1>5. ASSUME km' = km PROVE km' \in [Procesos -> Memorias]
  BY <1>4, <1>5
<1>6. ASSUME ~(n < 0), km' = [km EXCEPT ![p].segmentos = @ + delta, ![p].cambios = @ + 1]
      PROVE  km' \in [Procesos -> Memorias]
  <2>1. n \in Nat
    BY <1>3, <1>4, <1>6
  <2>2. km' = [km EXCEPT ![p].segmentos = n, ![p].cambios = @ + 1]
    BY <1>4, <1>6
  <2> HIDE DEF n
  <2> QED BY <1>2, <2>1, <2>2, MemoriaTipo DEF Tipos
<1>7. km' \in [Procesos -> Memorias] /\ PlanOK(ks')
  BY <1>1, <1>5, <1>6, PlanDeKS
<1> QED BY <1>1, <1>2, <1>7, KSPaso

\* sin_memoria and crear keep them.
LEMMA contestarPaso ==
  ASSUME Tipos, Fases, NEW c \in CPUs, sin_memoria(c) \/ crear(c)
  PROVE  Tipos' /\ Fases'
<1>0. "OK" \in {"OK", "ERROR", "BLOQUEADO"} /\ "ERROR" \in {"OK", "ERROR", "BLOQUEADO"}
  OBVIOUS
<1> DEFINE p == Head(aKS[c]).pid
<1>1. /\ aKS[c] # <<>> /\ Atendido(c)
      /\ EscribeCPU(c, "OK", p) \/ EscribeCPU(c, "ERROR", p)
      /\ UNCHANGED <<cpu, aKM, deKM, sesion, aviso, real, ks, km>>
  BY DEF sin_memoria, crear, Mensaje, Recibido, SoloKS, enKM
<1>2. /\ aKS' \in [CPUs -> Seq(Avisados)] /\ deKS' \in [CPUs -> Seq(Ordenes)]
  BY <1>0, <1>1, Contesta
<1>3. km' \in [Procesos -> Memorias] /\ PlanOK(ks')
  BY <1>1, PlanDeKS DEF Tipos, TiposDeProceso
<1> QED BY <1>1, <1>2, <1>3, KSPaso

\* Every handler of the scheduler keeps them.
LEMMA atender_cpu_ksPaso ==
  ASSUME Tipos, Fases, NEW c \in CPUs, atender_cpu_ks(c)
  PROVE  Tipos' /\ Fases'
BY km_notificar_exitPaso, DejanPaso, mutex_lockPaso, mutex_unlockPaso, memoriaPaso, contestarPaso
   DEF atender_cpu_ks


-----------------------------------------------------------------------------
(* The theorems.                                                            *)

\* Every step of a CPU keeps them.
LEMMA CicloPaso ==
  ASSUME Tipos, Fases, NEW c \in CPUs, Ciclo(c)
  PROVE  Tipos' /\ Fases'
<1>1. TiposDeProceso' /\ TiposDeCPU
  BY CicloProceso DEF Tipos
<1>2. TiposDeCPU' /\ Fases'
  <2>1. CASE esperar_pid(c) \/ recibir_mapa(c) \/ recibirContexto(c) \/ recibirInstruccion(c)
    BY <1>1, <2>1, esperar_pidPaso, recibir_mapaPaso, recibirContextoPaso, recibirInstruccionPaso
  <2>2. CASE actualizar_tabla_segmentos(c) \/ ejecutar(c) \/ respuestaKS(c)
    BY <1>1, <2>2, actualizar_tabla_segmentosPaso, ejecutarPaso, respuestaKSPaso DEF Tipos
  <2>3. CASE guardado(c) \/ okExit(c) \/ manejar_seg_fault(c)
    BY <1>1, <2>3, guardadoPaso, manejar_seg_faultPaso
  <2>4. CASE atender_interrupcion_en_espera(c) \/ atender_interrupcion(c)
    BY <1>1, <2>4, atender_interrupcionPaso
  <2> QED BY <2>1, <2>2, <2>3, <2>4 DEF Ciclo
<1> QED BY <1>1, <1>2 DEF Tipos

\* Every step of a session keeps them.
LEMMA SesionPaso ==
  ASSUME Tipos, Fases, NEW c \in CPUs, Sesion(c)
  PROVE  Tipos' /\ Fases'
<1>1. TiposDeProceso' /\ TiposDeCPU /\ TiposDeProceso
  BY SesionProceso DEF Tipos
<1>2. TiposDeCPU' /\ Fases'
  BY <1>1, enviarPaso, atender_mensaje_cpuPaso, inicializar_procesoPaso, existe_procesoPaso,
     manejar_procesoPaso DEF Sesion
<1> QED BY <1>1, <1>2 DEF Tipos

\* The types and the phases are inductive.
LEMMA PasoDeFases == Tipos /\ Fases /\ [Next]_vars => Tipos' /\ Fases'
<1> SUFFICES ASSUME Tipos, Fases, [Next]_vars PROVE Tipos' /\ Fases'
  OBVIOUS
<1>1. CASE \E c \in CPUs : Ciclo(c) \/ Sesion(c) \/ atender_cpu_ks(c) \/ \E p \in Procesos : despachar(c, p)
  BY <1>1, CicloPaso, SesionPaso, atender_cpu_ksPaso, despacharPaso
<1>2. CASE \E p \in Procesos : decidir_interrupcion(p) \/ reubicar(p) \/ finalizar_io_y_desbloquear(p)
  BY <1>2, decidir_interrupcionPaso, reubicarPaso, finalizar_io_y_desbloquearPaso
<1>3. CASE \E i \in DOMAIN ks.interrumpe : enviar_interrupcion_cpu(i)
  BY <1>3, enviar_interrupcion_cpuPaso
<1>4. CASE avisar \/ notificar_mapa_a_todas(SetToSeq(CPUs))
  <2>1. TiposDeCPU' /\ Fases'
    BY <1>4, avisarPaso, notificar_mapa_a_todasPaso, OrdenDeCPUs DEF Tipos
  <2>2. UNCHANGED <<km, ks, real>>
    BY <1>4 DEF avisar, notificar_mapa_a_todas, enCPU
  <2>3. TiposDeProceso'
    BY <2>2 DEF Tipos, TiposDeProceso
  <2> QED BY <2>1, <2>3 DEF Tipos
<1>5. CASE UNCHANGED vars
  BY <1>5 DEF vars, Tipos, TiposDeCPU, TiposDeProceso, Fases, Flujo
<1> QED BY <1>1, <1>2, <1>3, <1>4, <1>5 DEF Next

\* They hold at the start.
LEMMA InicioDeFases == Init => Tipos /\ Fases
<1> SUFFICES ASSUME Init PROVE Tipos /\ Fases
  OBVIOUS
<1> DEFINE v == <<>>
<1>0. v \in Seq(Tramas) /\ v \in Seq(Avisados) /\ v \in Seq(Ordenes) /\ v \in Seq(Avisos)
      /\ v \in Seq(Procesos) /\ v \in Seq([cpu : CPUs, pid : Procesos])
  BY EmptySeq
<1>1. Len(v) = 0 /\ v \o v = v
  <2>1. v \o v \in Seq(Tramas) /\ Len(v \o v) = 0
    BY <1>0, ConcatProperties, EmptySeq
  <2> QED BY <2>1, EmptySeq
<1>6. v = <<>>
  OBVIOUS
<1>2. /\ cpu = [c \in CPUs |-> CPUOciosa]
      /\ aKM = [c \in CPUs |-> v] /\ deKM = [c \in CPUs |-> v]
      /\ aKS = [c \in CPUs |-> v] /\ deKS = [c \in CPUs |-> v]
      /\ sesion = [c \in CPUs |-> [pc |-> "mensaje", pid |-> Nadie, envio |-> v]]
      /\ aviso = v
      /\ km = [p \in Procesos |-> [vivo |-> TRUE, pc |-> 1, segmentos |-> 0, cambios |-> 0]]
      /\ ks = [estado |-> [p \in Procesos |-> "READY"], en |-> [p \in Procesos |-> Nadie],
               libres |-> CPUs, tomador |-> Nadie, cola |-> v, interrumpe |-> v,
               manejador |-> [c \in CPUs |-> [pc |-> "libre", pid |-> Nadie]]]
      /\ real = [p \in Procesos |-> 1]
  BY DEF Init
<1> HIDE DEF v
<1>3. TiposDeCPU
  BY <1>0, <1>2, OciosaTipo DEF TiposDeCPU, Sesiones, Nombres
<1>4. TiposDeProceso
  <2>1. km \in [Procesos -> Memorias] /\ real \in [Procesos -> Nat]
    BY <1>2 DEF Memorias
  <2> DEFINE m == [c \in CPUs |-> [pc |-> "libre", pid |-> Nadie]]
  <2>4. m \in [CPUs -> Hilos]
    BY DEF Hilos, Nombres
  <2>5. ks = [estado |-> [p \in Procesos |-> "READY"], en |-> [p \in Procesos |-> Nadie],
              libres |-> CPUs, tomador |-> Nadie, cola |-> v, interrumpe |-> v, manejador |-> m]
    BY <1>2
  <2> HIDE DEF m
  <2>2. ks \in Planes
    BY <1>0, <2>4, <2>5 DEF Planes, Estados, Nombres
  <2>3. \A p \in Procesos : ks.estado[p] # "EXEC"
    BY <1>2
  <2> QED BY <2>1, <2>2, <2>3 DEF TiposDeProceso
<1>5. Fases
  <2> SUFFICES ASSUME NEW c \in CPUs PROVE Fase(cpu[c], sesion[c], aKM[c], Flujo(c))
    BY DEF Fases
  <2>1. cpu[c].pc = "ocioso" /\ sesion[c].pc = "mensaje" /\ aKM[c] = v /\ Flujo(c) = v
    BY <1>1, <1>2, OciosaTipo DEF Flujo
  <2>2. EsRuido(v)
    BY <1>1 DEF EsRuido
  <2>3. Peticiones(sesion[c], v) /\ EnOcioso(sesion[c], v, v)
    BY <1>6, <2>1, <2>2 DEF Peticiones, EnOcioso
  <2> QED BY <2>1, <2>3 DEF Fase
<1> QED BY <1>3, <1>4, <1>5 DEF Tipos

\* Whatever a CPU, its session, the thread of a new stick and the scheduler do, the frames
\* between a CPU and Kernel Memory are those of one phase of the protocol, with the maps
\* of the sticks and the tables anywhere among them: a PID, a program counter or a context
\* is never read in the place of another frame, and the instruction a CPU waits for is the
\* only one on its way.
THEOREM ProtocoloDeSesion == Spec => [](Tipos /\ Fases)
<1>1. Init => Tipos /\ Fases
  BY InicioDeFases
<1>2. Tipos /\ Fases /\ [Next]_vars => (Tipos /\ Fases)'
  BY PasoDeFases
<1> QED BY <1>1, <1>2, PTL DEF Spec

\* A CPU never executes an instruction other than the one its process has come to, for any
\* number of CPUs, any programs and any number of sticks that connect late
\* (recibir_instruccion takes whatever frame comes after the answer).
THEOREM InstruccionSiempreCorrecta == Spec => []InstruccionCorrecta
<1>1. Fases => InstruccionCorrecta
  BY DEF Fases, Fase, InstruccionCorrecta, InstruccionSuya, EnPC
<1> QED BY <1>1, ProtocoloDeSesion, PTL

-----------------------------------------------------------------------------
(* Whose turn it is between the scheduler and a CPU: its record k, the     *)
(* messages it has sent (a), those it has not read (d), the processes the  *)
(* scheduler has it running (S), and whether it is free (l).               *)

\* A CPU whose process has been answered that it is blocked counts as free from then on.
Libres(plan) == plan.libres \cup {c \in CPUs : plan.manejador[c].pc = "bloquear"}
Suyos(plan, c) ==
  {p \in Procesos : plan.estado[p] = "EXEC" /\ plan.en[p] = c /\ c \notin Libres(plan)}
Hay(s, tipo) == \E i \in 1..Len(s) : s[i].t = tipo
Sueltos(d) == \A i \in 1..Len(d) : d[i].t = "INTERRUPT"
\* The answer to a call, with interrupts anywhere.
Contestada(d) ==
  \A i \in 1..Len(d) :
    \/ d[i].t = "INTERRUPT"
    \/ d[i].t \in {"OK", "ERROR"} /\ \A j \in 1..Len(d) : j > i => d[j].t = "INTERRUPT"
\* After an order to run there are only interrupts, and around the answer that blocks only
\* interrupts and, after it, the next order.
ConPID(d, S) ==
  \A i \in 1..Len(d) : d[i].t = "PID" =>
    d[i].pid \in S /\ \A j \in 1..Len(d) : j > i => d[j].t = "INTERRUPT"
ConBloqueo(d) ==
  \A i \in 1..Len(d) : d[i].t = "BLOQUEADO" =>
    \A j \in 1..Len(d) : /\ j < i => d[j].t = "INTERRUPT"
                         /\ j > i => d[j].t \in {"INTERRUPT", "PID"}
\* The messages a process leaves its CPU with.
Ultimos == {"ATENDIDA", "SLEEP", "DONE", "SEG_FAULT", "MUTEX_LOCK"}
Pendientes(a, S) ==
  \A i \in 1..Len(a) : a[i].pid \in S /\ (a[i].t \in Ultimos => i = Len(a))

EnMarcha == {"mapaCod", "mapaBuf", "contexto", "respuesta", "instruccion", "tabla", "segmentos", "ejecuta"}
Corre(k, d) ==
  \/ k.pc \in EnMarcha \cup {"interrupciones"}
  \/ k.pc = "respKS" /\ ~Hay(d, "BLOQUEADO")
  \/ k.pc = "okGuarda" /\ k.tras # "BLOQUEADO"
OperacionDe(k) == Programa[k.instr.pid][k.instr.pc]

Turno(k, a, d, S, l) ==
  /\ Pendientes(a, S) /\ ConPID(d, S) /\ ConBloqueo(d)
  /\ Hay(a, "ATENDIDA") => k.pc \in {"ocioso", "fin"}
  /\ Hay(a, "SLEEP") => k.pc \in {"ocioso", "fin"}
  /\ Hay(a, "DONE") => k.pc \in {"okExit", "ocioso", "fin"}
  /\ Hay(a, "SEG_FAULT") => k.pc \in {"ackSegFault", "ocioso", "fin"}
  /\ Hay(a, "MUTEX_LOCK") => k.pc = "respKS"
  /\ Hay(d, "PID") => ~Corre(k, d) /\ a = <<>>
  /\ Hay(d, "BLOQUEADO") => k.pc = "respKS" /\ OperacionDe(k) = "MUTEX_LOCK" /\ a = <<>>
  /\ l # {} => a = <<>> /\ ~Hay(d, "PID") /\ ~Corre(k, d)
  /\ Corre(k, d) => k.pid \in S
  /\ k.pc \in EnMarcha => a = <<>> /\ Sueltos(d)
  /\ k.pc = "interrupciones" /\ k.espera = Nadie => a = <<>> /\ Sueltos(d)
  /\ k.pc = "respKS" =>
       \/ Hay(d, "BLOQUEADO")
       \/ Len(a) = 1 /\ a[1].t = OperacionDe(k) /\ Sueltos(d)
       \/ a = <<>> /\ Contestada(d)
\* Who waits for the mutex does so once, and is blocked, or in EXEC on the CPU of the thread
\* that is blocking it.
SeBloquea(plan, p) == \E c \in CPUs : plan.manejador[c].pc # "libre" /\ plan.manejador[c].pid = p
Esperas(plan) ==
  /\ \A i \in 1..Len(plan.cola) :
       plan.estado[plan.cola[i]] = "BLOCK" \/ SeBloquea(plan, plan.cola[i])
  /\ \A i, j \in 1..Len(plan.cola) : plan.cola[i] = plan.cola[j] => i = j
  /\ \A c \in CPUs : plan.manejador[c].pc # "libre" =>
       LET p == plan.manejador[c].pid IN
       plan.estado[p] = "EXEC" /\ plan.en[p] = c /\ c \notin plan.libres
TurnoDe(c) == Turno(cpu[c], aKS[c], deKS[c], Suyos(ks, c), Libres(ks) \cap {c})
Turnos == Esperas(ks) /\ \A c \in CPUs : TurnoDe(c)
\* A thread that is to answer a MUTEX_LOCK has it at the head of its socket.
EnAvisos ==
  \A c \in CPUs : ks.manejador[c].pc = "avisar" =>
    aKS[c] # <<>> /\ Head(aKS[c]).pid = ks.manejador[c].pid

\* What a message that is read, or written, does to these.
LEMMA HayCola ==
  ASSUME NEW S, NEW s \in Seq(S), s # <<>>, NEW t
  PROVE  /\ Hay(s, t) <=> Head(s).t = t \/ Hay(Tail(s), t)
         /\ Tail(s) \in Seq(S) /\ Head(s) \in S
<1>1. /\ Head(s) \in S /\ Tail(s) \in Seq(S) /\ Len(Tail(s)) = Len(s) - 1
      /\ \A i \in 1..Len(Tail(s)) : Tail(s)[i] = s[i + 1]
  BY HeadTailProperties
<1>2. Len(s) \in Nat /\ Len(s) # 0 /\ Head(s) = s[1]
  BY LenProperties, EmptySeq
<1> DEFINE u == Tail(s)
           n == Len(s)
<1> HIDE DEF u, n
<1>3. Hay(s, t) => Head(s).t = t \/ Hay(u, t)
  <2> SUFFICES ASSUME NEW i \in 1..n, s[i].t = t, Head(s).t # t PROVE Hay(u, t)
    BY DEF Hay, n
  <2>1. i - 1 \in 1..(n - 1) /\ (i - 1) + 1 = i
    BY <1>2 DEF n
  <2>2. Len(u) = n - 1 /\ u[i - 1] = s[i]
    BY <1>1, <2>1 DEF u, n
  <2> QED BY <2>1, <2>2 DEF Hay
<1>4. Hay(u, t) => Hay(s, t)
  <2> SUFFICES ASSUME NEW i \in 1..(n - 1), u[i].t = t PROVE Hay(s, t)
    BY <1>1 DEF Hay, u, n
  <2>1. i + 1 \in 1..n
    BY <1>2 DEF n
  <2>2. u[i] = s[i + 1]
    BY <1>1 DEF u, n
  <2> QED BY <2>1, <2>2 DEF Hay, n
<1>5. Head(s).t = t => Hay(s, t)
  <2>1. 1 \in 1..n
    BY <1>2 DEF n
  <2> QED BY <2>1, <1>2 DEF Hay, n
<1> QED BY <1>1, <1>3, <1>4, <1>5 DEF u

\* A type is among the messages and one more if it was there, or is that one's.
LEMMA HayMas ==
  ASSUME NEW S, NEW s \in Seq(S), NEW m \in S, NEW t
  PROVE  /\ Hay(Append(s, m), t) <=> Hay(s, t) \/ m.t = t
         /\ Append(s, m) \in Seq(S) /\ Append(s, m) # <<>>
<1> DEFINE u == Append(s, m)
           n == Len(s)
<1>1. /\ u \in Seq(S) /\ Len(u) = n + 1 /\ n \in Nat
      /\ \A i \in 1..n : u[i] = s[i]
      /\ u[n + 1] = m
  BY AppendProperties, LenProperties
<1> HIDE DEF u, n
<1>2. Hay(u, t) => Hay(s, t) \/ m.t = t
  <2> SUFFICES ASSUME NEW i \in 1..(n + 1), u[i].t = t PROVE Hay(s, t) \/ m.t = t
    BY <1>1 DEF Hay
  <2>1. i \in 1..n \/ i = n + 1
    BY <1>1
  <2> QED BY <2>1, <1>1 DEF Hay, n
<1>3. Hay(s, t) => Hay(u, t)
  <2> SUFFICES ASSUME NEW i \in 1..n, s[i].t = t PROVE Hay(u, t)
    BY DEF Hay, n
  <2>1. i \in 1..(n + 1)
    BY <1>1
  <2> QED BY <2>1, <1>1 DEF Hay
<1>4. m.t = t => Hay(u, t)
  <2>1. n + 1 \in 1..(n + 1)
    BY <1>1
  <2> QED BY <2>1, <1>1 DEF Hay
<1>5. u # <<>>
  BY <1>1, EmptySeq
<1> QED BY <1>1, <1>2, <1>3, <1>4, <1>5 DEF u

\* No message, no type.
LEMMA HayNada ==
  ASSUME NEW t
  PROVE  ~Hay(<<>>, t) /\ Sueltos(<<>>) /\ Contestada(<<>>)
<1> DEFINE v == <<>>
<1>1. Len(v) = 0
  OBVIOUS
<1> HIDE DEF v
<1>2. ~Hay(v, t) /\ Sueltos(v) /\ Contestada(v)
  BY <1>1 DEF Hay, Sueltos, Contestada
<1> QED BY <1>2 DEF v

\* With interrupts only there is nothing else.
LEMMA SueltosSon ==
  ASSUME NEW d, Sueltos(d)
  PROVE  \A t : t # "INTERRUPT" => ~Hay(d, t)
BY DEF Sueltos, Hay

\* Among interrupts alone, what is left after one of them is read.
LEMMA SueltosCola ==
  ASSUME NEW S, NEW d \in Seq(S), d # <<>>, Sueltos(d)
  PROVE  Head(d).t = "INTERRUPT" /\ Sueltos(Tail(d))
<1>1. /\ Len(Tail(d)) = Len(d) - 1
      /\ \A i \in 1..Len(Tail(d)) : Tail(d)[i] = d[i + 1]
  BY HeadTailProperties
<1>2. Len(d) \in Nat /\ Len(d) # 0 /\ Head(d) = d[1]
  BY LenProperties, EmptySeq
<1>3. 1 \in 1..Len(d) /\ \A i \in 1..(Len(d) - 1) : i + 1 \in 1..Len(d)
  BY <1>2
<1> QED BY <1>1, <1>2, <1>3 DEF Sueltos

\* One more interrupt, after the others.
LEMMA SueltosMas ==
  ASSUME NEW S, NEW d \in Seq(S), NEW m \in S, Sueltos(d), m.t = "INTERRUPT"
  PROVE  Sueltos(Append(d, m))
<1> DEFINE u == Append(d, m)
           n == Len(d)
<1>1. /\ Len(u) = n + 1 /\ n \in Nat
      /\ \A i \in 1..n : u[i] = d[i]
      /\ u[n + 1] = m
  BY AppendProperties, LenProperties
<1> HIDE DEF u, n
<1>2. \A i \in 1..(n + 1) : i \in 1..n \/ i = n + 1
  BY <1>1
<1>3. Sueltos(u)
  BY <1>1, <1>2 DEF Sueltos, n
<1> QED BY <1>3 DEF u

\* What is left of the answer to a call, with its interrupts.
LEMMA ContestadaCola ==
  ASSUME NEW S, NEW d \in Seq(S), d # <<>>, Contestada(d)
  PROVE  /\ Contestada(Tail(d)) /\ Head(d).t \in {"INTERRUPT", "OK", "ERROR"}
         /\ Head(d).t # "INTERRUPT" => Sueltos(Tail(d))
<1> DEFINE u == Tail(d)
           n == Len(d)
<1>1. /\ Len(u) = n - 1
      /\ \A i \in 1..Len(u) : u[i] = d[i + 1]
  BY HeadTailProperties
<1>2. n \in Nat /\ n # 0 /\ Head(d) = d[1]
  BY LenProperties, EmptySeq
<1>3. 1 \in 1..n /\ \A i \in 1..(n - 1) : i + 1 \in 1..n /\ i + 1 > 1
  BY <1>2
<1>4. \A i, j \in 1..(n - 1) : j > i => j + 1 > i + 1
  BY <1>2
<1> HIDE DEF u, n
<1>5. Contestada(u)
  BY <1>1, <1>3, <1>4 DEF Contestada, n
<1>6. Head(d).t \in {"INTERRUPT", "OK", "ERROR"} /\ (Head(d).t # "INTERRUPT" => Sueltos(u))
  BY <1>1, <1>2, <1>3 DEF Contestada, Sueltos, n
<1> QED BY <1>5, <1>6 DEF u

\* The answer to a call comes after its interrupts, and interrupts after it.
LEMMA ContestadaMas ==
  ASSUME NEW S, NEW d \in Seq(S), NEW m \in S
  PROVE  /\ Contestada(d) /\ m.t = "INTERRUPT" => Contestada(Append(d, m))
         /\ Sueltos(d) /\ m.t \in {"OK", "ERROR"} => Contestada(Append(d, m))
         /\ Contestada(d) => ~Hay(d, "PID") /\ ~Hay(d, "BLOQUEADO")
<1> DEFINE u == Append(d, m)
           n == Len(d)
<1>1. /\ Len(u) = n + 1 /\ n \in Nat
      /\ \A i \in 1..n : u[i] = d[i]
      /\ u[n + 1] = m
  BY AppendProperties, LenProperties
<1>2. \A i \in 1..(n + 1) : i \in 1..n \/ i = n + 1
  BY <1>1
<1>3. \A i \in 1..(n + 1) : ~(i > n + 1)
  BY <1>1
<1> HIDE DEF u, n
<1>4. Contestada(d) /\ m.t = "INTERRUPT" => Contestada(u)
  <2> SUFFICES ASSUME Contestada(d), m.t = "INTERRUPT", NEW i \in 1..(n + 1), u[i].t # "INTERRUPT"
               PROVE  u[i].t \in {"OK", "ERROR"} /\ \A j \in 1..(n + 1) : j > i => u[j].t = "INTERRUPT"
    BY <1>1 DEF Contestada
  <2>1. i \in 1..n /\ u[i] = d[i]
    BY <1>1, <1>2
  <2>2. d[i].t \in {"OK", "ERROR"} /\ \A j \in 1..n : j > i => d[j].t = "INTERRUPT"
    BY <2>1 DEF Contestada, n
  <2> QED BY <2>1, <2>2, <1>1, <1>2
<1>5. Sueltos(d) /\ m.t \in {"OK", "ERROR"} => Contestada(u)
  BY <1>1, <1>2, <1>3 DEF Sueltos, Contestada, n
<1>6. Contestada(d) => ~Hay(d, "PID") /\ ~Hay(d, "BLOQUEADO")
  BY DEF Contestada, Hay
<1> QED BY <1>4, <1>5, <1>6 DEF u

\* An order to run is still the last one when what was before it is read.
LEMMA ConPIDCola ==
  ASSUME NEW T, NEW d \in Seq(T), d # <<>>, NEW S, ConPID(d, S)
  PROVE  /\ ConPID(Tail(d), S)
         /\ Head(d).t = "PID" => Head(d).pid \in S /\ Sueltos(Tail(d))
<1> DEFINE u == Tail(d)
           n == Len(d)
<1>1. /\ Len(u) = n - 1
      /\ \A i \in 1..Len(u) : u[i] = d[i + 1]
  BY HeadTailProperties
<1>2. n \in Nat /\ n # 0 /\ Head(d) = d[1]
  BY LenProperties, EmptySeq
<1>3. 1 \in 1..n /\ \A i \in 1..(n - 1) : i + 1 \in 1..n /\ i + 1 > 1
  BY <1>2
<1>4. \A i, j \in 1..(n - 1) : j > i => j + 1 > i + 1
  BY <1>2
<1> HIDE DEF u, n
<1>5. ConPID(u, S)
  BY <1>1, <1>3, <1>4 DEF ConPID, n
<1>6. Head(d).t = "PID" => Head(d).pid \in S /\ Sueltos(u)
  <2>1. ASSUME d[1].t = "PID"
        PROVE  d[1].pid \in S /\ \A j \in 1..n : j > 1 => d[j].t = "INTERRUPT"
    BY <1>3, <2>1 DEF ConPID, n
  <2>2. ASSUME d[1].t = "PID", NEW i \in 1..Len(u)
        PROVE  u[i].t = "INTERRUPT"
    BY <1>1, <1>3, <2>1, <2>2
  <2> QED BY <1>2, <2>1, <2>2 DEF Sueltos
<1> QED BY <1>5, <1>6 DEF u

\* One more message keeps the orders to run last: an interrupt, or one when there was none.
LEMMA ConPIDMas ==
  ASSUME NEW T, NEW d \in Seq(T), NEW m \in T, NEW S, ConPID(d, S),
         m.t = "INTERRUPT" \/ (~Hay(d, "PID") /\ (m.t = "PID" => m.pid \in S))
  PROVE  ConPID(Append(d, m), S)
<1> DEFINE u == Append(d, m)
           n == Len(d)
<1>1. /\ Len(u) = n + 1 /\ n \in Nat
      /\ \A i \in 1..n : u[i] = d[i]
      /\ u[n + 1] = m
  BY AppendProperties, LenProperties
<1>2. \A i \in 1..(n + 1) : i \in 1..n \/ i = n + 1
  BY <1>1
<1>3. \A i \in 1..(n + 1) : ~(i > n + 1)
  BY <1>1
<1> HIDE DEF u, n
<1>4. SUFFICES ASSUME NEW i \in 1..(n + 1), u[i].t = "PID"
               PROVE  u[i].pid \in S /\ \A j \in 1..(n + 1) : j > i => u[j].t = "INTERRUPT"
  BY <1>1 DEF ConPID, u
<1>5. CASE i \in 1..n
  <2>1. u[i] = d[i] /\ Hay(d, "PID")
    BY <1>1, <1>4, <1>5 DEF Hay, n
  <2>2. d[i].pid \in S /\ \A j \in 1..n : j > i => d[j].t = "INTERRUPT"
    BY <2>1, <1>4, <1>5 DEF ConPID, n
  <2> QED BY <2>1, <2>2, <1>1, <1>2
<1>6. CASE i = n + 1
  BY <1>1, <1>3, <1>4, <1>6
<1> QED BY <1>2, <1>5, <1>6

\* The answer that blocks, when what was before it is read.
LEMMA ConBloqueoCola ==
  ASSUME NEW T, NEW d \in Seq(T), d # <<>>, ConBloqueo(d)
  PROVE  /\ ConBloqueo(Tail(d))
         /\ Head(d).t = "BLOQUEADO" => ~Hay(Tail(d), "BLOQUEADO")
         /\ Hay(d, "BLOQUEADO") => Head(d).t \in {"INTERRUPT", "BLOQUEADO"}
<1> DEFINE u == Tail(d)
           n == Len(d)
<1>1. /\ Len(u) = n - 1
      /\ \A i \in 1..Len(u) : u[i] = d[i + 1]
  BY HeadTailProperties
<1>2. n \in Nat /\ n # 0 /\ Head(d) = d[1]
  BY LenProperties, EmptySeq
<1>3. 1 \in 1..n /\ \A i \in 1..(n - 1) : i + 1 \in 1..n /\ i + 1 > 1
  BY <1>2
<1>4. \A i, j \in 1..(n - 1) : (j > i => j + 1 > i + 1) /\ (j < i => j + 1 < i + 1)
  BY <1>2
<1>8. \A i \in 1..n : i = 1 \/ 1 < i
  BY <1>2
<1> HIDE DEF u, n
<1>5. ConBloqueo(u)
  BY <1>1, <1>3, <1>4 DEF ConBloqueo, n
<1>6. Head(d).t = "BLOQUEADO" => ~Hay(u, "BLOQUEADO")
  BY <1>1, <1>2, <1>3 DEF ConBloqueo, Hay, n
<1>7. Hay(d, "BLOQUEADO") => Head(d).t \in {"INTERRUPT", "BLOQUEADO"}
  BY <1>2, <1>3, <1>8 DEF ConBloqueo, Hay, n
<1> QED BY <1>5, <1>6, <1>7 DEF u

\* One more message around the answer that blocks.
LEMMA ConBloqueoMas ==
  ASSUME NEW T, NEW d \in Seq(T), NEW m \in T, ConBloqueo(d),
         \/ m.t \in {"INTERRUPT", "PID"}
         \/ m.t \in {"OK", "ERROR"} /\ ~Hay(d, "BLOQUEADO")
         \/ m.t = "BLOQUEADO" /\ Sueltos(d)
  PROVE  ConBloqueo(Append(d, m))
<1> DEFINE u == Append(d, m)
           n == Len(d)
<1>1. /\ Len(u) = n + 1 /\ n \in Nat
      /\ \A i \in 1..n : u[i] = d[i]
      /\ u[n + 1] = m
  BY AppendProperties, LenProperties
<1>2. \A i \in 1..(n + 1) : i \in 1..n \/ i = n + 1
  BY <1>1
<1>3. \A i \in 1..(n + 1) : ~(i > n + 1) /\ (i \in 1..n => ~(n + 1 < i))
  BY <1>1
<1> HIDE DEF u, n
<1>4. SUFFICES ASSUME NEW i \in 1..(n + 1), u[i].t = "BLOQUEADO"
               PROVE  \A j \in 1..(n + 1) : /\ j < i => u[j].t = "INTERRUPT"
                                            /\ j > i => u[j].t \in {"INTERRUPT", "PID"}
  BY <1>1 DEF ConBloqueo, u
<1>5. CASE i \in 1..n
  <2>1. u[i] = d[i] /\ Hay(d, "BLOQUEADO") /\ d[i].t # "INTERRUPT"
    BY <1>1, <1>4, <1>5 DEF Hay, n
  <2>2. \A j \in 1..n : /\ j < i => d[j].t = "INTERRUPT"
                        /\ j > i => d[j].t \in {"INTERRUPT", "PID"}
    BY <2>1, <1>4, <1>5 DEF ConBloqueo, n
  <2>3. m.t \in {"INTERRUPT", "PID"}
    BY <2>1, <1>5 DEF Sueltos, n
  <2> QED BY <2>1, <2>2, <2>3, <1>1, <1>2, <1>3, <1>5
<1>6. CASE i = n + 1
  <2>1. Sueltos(d)
    BY <1>1, <1>4, <1>6
  <2> QED BY <2>1, <1>1, <1>2, <1>3, <1>6 DEF Sueltos, n
<1> QED BY <1>2, <1>5, <1>6

\* The messages the scheduler has not handled, when it has handled the first.
LEMMA PendientesCola ==
  ASSUME NEW T, NEW a \in Seq(T), a # <<>>, NEW S, Pendientes(a, S)
  PROVE  /\ Pendientes(Tail(a), S) /\ Head(a).pid \in S
         /\ Head(a).t \in Ultimos => Tail(a) = <<>>
<1> DEFINE u == Tail(a)
           n == Len(a)
<1>1. /\ Len(u) = n - 1 /\ u \in Seq(T)
      /\ \A i \in 1..Len(u) : u[i] = a[i + 1]
  BY HeadTailProperties
<1>2. n \in Nat /\ n # 0 /\ Head(a) = a[1]
  BY LenProperties, EmptySeq
<1>3. 1 \in 1..n /\ \A i \in 1..(n - 1) : i + 1 \in 1..n /\ (i + 1 = n => i = n - 1)
  BY <1>2
<1> HIDE DEF u, n, Ultimos
<1>5. Pendientes(u, S)
  BY <1>1, <1>3 DEF Pendientes, n
<1>6. Head(a).pid \in S /\ (Head(a).t \in Ultimos => n = 1)
  BY <1>2, <1>3 DEF Pendientes, n
<1>7. n = 1 => u = <<>>
  BY <1>1, EmptySeq
<1> QED BY <1>5, <1>6, <1>7 DEF u

\* One more message of a process that had sent none that was its last.
LEMMA PendientesMas ==
  ASSUME NEW T, NEW a \in Seq(T), NEW m \in T, NEW S, Pendientes(a, S), m.pid \in S,
         \A t \in Ultimos : ~Hay(a, t)
  PROVE  Pendientes(Append(a, m), S)
<1> DEFINE u == Append(a, m)
           n == Len(a)
<1>1. /\ Len(u) = n + 1 /\ n \in Nat
      /\ \A i \in 1..n : u[i] = a[i]
      /\ u[n + 1] = m
  BY AppendProperties, LenProperties
<1>2. \A i \in 1..(n + 1) : i \in 1..n \/ i = n + 1
  BY <1>1
<1> HIDE DEF u, n, Ultimos
<1>3. \A i \in 1..n : a[i].t \notin Ultimos /\ a[i].pid \in S
  BY DEF Hay, Pendientes, n
<1>4. Pendientes(u, S)
  BY <1>1, <1>2, <1>3 DEF Pendientes
<1> QED BY <1>4 DEF u

\* Nothing is pending.
LEMMA PendientesNada == ASSUME NEW S PROVE Pendientes(<<>>, S)
<1> DEFINE v == <<>>
<1>1. Len(v) = 0
  OBVIOUS
<1> HIDE DEF v
<1>2. Pendientes(v, S)
  BY <1>1 DEF Pendientes
<1> QED BY <1>2 DEF v

\* The changes of the record of a CPU.  A cycle goes on, or the CPU saves the context:
LEMMA TurnoSigue ==
  ASSUME NEW k, NEW a, NEW d, NEW S, NEW l, Turno(k, a, d, S, l), NEW r, r.pid = k.pid,
         \/ k.pc \in EnMarcha /\ r.pc \in EnMarcha \cup {"interrupciones"}
         \/ k.pc \in EnMarcha \cup {"interrupciones"} /\ r.pc = "okGuarda" /\ r.tras # "BLOQUEADO"
         \/ k.pc = "interrupciones" /\ k.espera = Nadie /\ r.pc \in EnMarcha
  PROVE  Turno(r, a, d, S, l)
BY DEF Turno, Corre, EnMarcha

\* it stops,
LEMMA TurnoParado ==
  ASSUME NEW k, NEW a, NEW d, NEW S, NEW l, Turno(k, a, d, S, l), k.pc # "respKS",
         NEW r, r.pc \in {"ocioso", "fin"}
  PROVE  Turno(r, a, d, S, l)
BY DEF Turno, Corre, EnMarcha

\* it reads a message when it does not wait for an answer,
LEMMA TurnoLee ==
  ASSUME NEW k, NEW a, NEW d \in Seq(Ordenes), NEW S, NEW l, Turno(k, a, d, S, l), d # <<>>,
         k.pc # "respKS"
  PROVE  Turno(k, a, Tail(d), S, l)
<1>1. \A t : Hay(Tail(d), t) => Hay(d, t)
  BY HayCola
<1>2. ConPID(Tail(d), S) /\ ConBloqueo(Tail(d))
  BY ConPIDCola, ConBloqueoCola DEF Turno
<1>3. Sueltos(d) => Sueltos(Tail(d))
  BY SueltosCola
<1> QED BY <1>1, <1>2, <1>3 DEF Turno, Corre, EnMarcha

\* it takes an order to run,
LEMMA TurnoTomaPID ==
  ASSUME NEW k, NEW a, NEW d \in Seq(Ordenes), NEW S, NEW l, Turno(k, a, d, S, l), d # <<>>,
         k.pc = "ocioso", Head(d).t = "PID", NEW r, r.pid = Head(d).pid, r.pc = "mapaCod"
  PROVE  Turno(r, a, Tail(d), S, l)
<1>1. Hay(d, "PID")
  BY HayCola
<1>2. a = <<>> /\ l = {}
  BY <1>1 DEF Turno
<1>3. ConPID(Tail(d), S) /\ ConBloqueo(Tail(d)) /\ r.pid \in S /\ Sueltos(Tail(d))
  BY ConPIDCola, ConBloqueoCola DEF Turno
<1>4. \A t : t # "INTERRUPT" => ~Hay(Tail(d), t)
  BY <1>3, SueltosSon
<1>5. \A t : ~Hay(a, t)
  BY <1>2, HayNada
<1>6. Pendientes(a, S)
  BY DEF Turno
<1> HIDE DEF Pendientes
<1> QED BY <1>2, <1>3, <1>4, <1>5, <1>6 DEF Turno, Corre, EnMarcha

\* it reads an interrupt while it waits for an answer,
LEMMA TurnoEspera ==
  ASSUME NEW k, NEW a, NEW d \in Seq(Ordenes), NEW S, NEW l, Turno(k, a, d, S, l), d # <<>>,
         k.pc = "respKS", Head(d).t = "INTERRUPT",
         NEW r, r.pid = k.pid, r.instr = k.instr, r.pc = "respKS"
  PROVE  Turno(r, a, Tail(d), S, l)
<1>1. \A t : t # "INTERRUPT" => (Hay(Tail(d), t) <=> Hay(d, t))
  BY HayCola
<1>2. ConPID(Tail(d), S) /\ ConBloqueo(Tail(d))
  BY ConPIDCola, ConBloqueoCola DEF Turno
<1>3. /\ Sueltos(d) => Sueltos(Tail(d))
      /\ Contestada(d) => Contestada(Tail(d))
  BY SueltosCola, ContestadaCola
<1>4. Hay(Tail(d), "PID") <=> Hay(d, "PID")
  BY <1>1
<1>5. Hay(Tail(d), "BLOQUEADO") <=> Hay(d, "BLOQUEADO")
  BY <1>1
<1>6. Corre(r, Tail(d)) <=> Corre(k, d)
  BY <1>5 DEF Corre, EnMarcha
<1>7. OperacionDe(r) = OperacionDe(k)
  BY DEF OperacionDe
<1>8. r.pc \notin EnMarcha
  BY DEF EnMarcha
<1> QED BY <1>2, <1>3, <1>4, <1>5, <1>6, <1>7, <1>8 DEF Turno

\* or one it does not expect,
LEMMA TurnoInesperado ==
  ASSUME NEW k, NEW a, NEW d \in Seq(Ordenes), NEW S, NEW l, Turno(k, a, d, S, l), d # <<>>,
         k.pc = "respKS", Head(d).t = "INTERRUPT", OperacionDe(k) # "MUTEX_LOCK",
         NEW r, r.pid = k.pid, r.pc = "fin" \/ (r.pc = "interrupciones" /\ r.espera # Nadie)
  PROVE  Turno(r, a, Tail(d), S, l)
<1>1. \A t : t # "INTERRUPT" => (Hay(Tail(d), t) <=> Hay(d, t))
  BY HayCola
<1>2. ConPID(Tail(d), S) /\ ConBloqueo(Tail(d))
  BY ConPIDCola, ConBloqueoCola DEF Turno
<1>3. ~Hay(d, "BLOQUEADO") /\ Corre(k, d)
  BY DEF Turno, Corre
<1>4. ~Hay(Tail(d), "BLOQUEADO") /\ ~Hay(Tail(d), "PID") /\ ~Hay(a, "MUTEX_LOCK")
  <2>1. ~Hay(d, "PID")
    BY <1>3 DEF Turno
  <2>2. ~Hay(a, "MUTEX_LOCK")
    <3>1. CASE a = <<>>
      BY <3>1, HayNada
    <3>2. CASE Len(a) = 1 /\ a[1].t = OperacionDe(k)
      BY <3>2 DEF Hay
    <3> QED BY <1>3, <3>1, <3>2 DEF Turno
  <2> QED BY <1>1, <1>3, <2>1, <2>2
<1> QED BY <1>2, <1>3, <1>4 DEF Turno, Corre, EnMarcha

\* or the answer, and goes on with the same instruction or the next one,
LEMMA TurnoContestado ==
  ASSUME NEW k, NEW a, NEW d \in Seq(Ordenes), NEW S, NEW l, Turno(k, a, d, S, l), d # <<>>,
         k.pc = "respKS", Head(d).t \in {"OK", "ERROR", "PID"},
         NEW r, r.pid = k.pid, r.pc \in {"fin", "interrupciones"}
  PROVE  Turno(r, a, Tail(d), S, l)
<1>1. ~Sueltos(d) /\ ~Hay(d, "BLOQUEADO")
  BY SueltosCola, ConBloqueoCola DEF Turno
<1>2. a = <<>> /\ Contestada(d)
  BY <1>1 DEF Turno
<1>3. Sueltos(Tail(d))
  BY <1>2, ContestadaCola
<1>4. \A t : t # "INTERRUPT" => ~Hay(Tail(d), t)
  BY <1>3, SueltosSon
<1>5. \A t : ~Hay(a, t)
  BY <1>2, HayNada
<1>6. ConPID(Tail(d), S) /\ ConBloqueo(Tail(d)) /\ Pendientes(a, S)
  BY ConPIDCola, ConBloqueoCola DEF Turno
<1>7. Corre(k, d)
  BY <1>1 DEF Corre
<1>8. l = {} /\ r.pid \in S
  BY <1>7 DEF Turno
<1> QED BY <1>2, <1>3, <1>4, <1>5, <1>6, <1>8 DEF Turno, Corre, EnMarcha

\* or that it has to wait, and saves its context.
LEMMA TurnoBloqueado ==
  ASSUME NEW k, NEW a, NEW d \in Seq(Ordenes), NEW S, NEW l, Turno(k, a, d, S, l), d # <<>>,
         k.pc = "respKS", Head(d).t = "BLOQUEADO",
         NEW r, r.pc = "okGuarda", r.tras = "BLOQUEADO"
  PROVE  Turno(r, a, Tail(d), S, l) /\ OperacionDe(k) = "MUTEX_LOCK"
<1>1. Hay(d, "BLOQUEADO")
  BY HayCola
<1>2. a = <<>> /\ OperacionDe(k) = "MUTEX_LOCK"
  BY <1>1 DEF Turno
<1>3. ConPID(Tail(d), S) /\ ConBloqueo(Tail(d)) /\ Pendientes(a, S) /\ ~Hay(Tail(d), "BLOQUEADO")
  BY ConPIDCola, ConBloqueoCola DEF Turno
<1>4. Hay(Tail(d), "PID") => Hay(d, "PID")
  BY HayCola
<1>5. \A t : ~Hay(a, t)
  BY <1>2, HayNada
<1>6. ~Corre(r, Tail(d))
  BY DEF Corre, EnMarcha
<1>7. r.pc \notin EnMarcha
  BY DEF EnMarcha
<1>8. l # {} => ~Hay(d, "PID")
  BY DEF Turno
<1> QED BY <1>2, <1>3, <1>4, <1>5, <1>6, <1>7, <1>8 DEF Turno

\* An instruction that calls the scheduler.
LEMMA TurnoLlama ==
  ASSUME NEW k, NEW a, NEW d \in Seq(Ordenes), NEW S, NEW l, Turno(k, a, d, S, l), k.pc \in EnMarcha,
         NEW r, NEW m \in Avisados, m.pid = k.pid, a \in Seq(Avisados),
         \/ r.pc = "okExit" /\ m.t = "DONE"
         \/ r.pc = "ackSegFault" /\ m.t = "SEG_FAULT"
         \/ r.pc = "respKS" /\ m.t \in Llamadas /\ m.t = OperacionDe(r) /\ r.pid = k.pid
  PROVE  Turno(r, Append(a, m), d, S, l)
<1> DEFINE b == Append(a, m)
<1>1. a = <<>> /\ Sueltos(d) /\ Corre(k, d) /\ k.pid \in S /\ l = {}
  BY DEF Turno, Corre
<1>2. \A t : ~Hay(a, t)
  BY <1>1, HayNada
<1>3. \A t : Hay(b, t) <=> m.t = t
  BY <1>2, HayMas
<1>4. Len(a) = 0
  BY <1>1
<1>5. Len(b) = 1 /\ b[1] = m
  BY <1>4, AppendProperties
<1>6. Pendientes(b, S)
  BY <1>1, <1>2, PendientesMas DEF Turno
<1>7. ~Hay(d, "PID") /\ ~Hay(d, "BLOQUEADO")
  BY <1>1, SueltosSon
<1>8. /\ Hay(b, "ATENDIDA") <=> m.t = "ATENDIDA"
      /\ Hay(b, "SLEEP") <=> m.t = "SLEEP"
      /\ Hay(b, "DONE") <=> m.t = "DONE"
      /\ Hay(b, "SEG_FAULT") <=> m.t = "SEG_FAULT"
      /\ Hay(b, "MUTEX_LOCK") <=> m.t = "MUTEX_LOCK"
  BY <1>3
<1>9. m.t \in Llamadas => m.t \notin {"ATENDIDA", "SLEEP", "DONE", "SEG_FAULT"}
  BY DEF Llamadas, LlamadasMem
<1> HIDE DEF b, Llamadas
<1>10. ConPID(d, S) /\ ConBloqueo(d)
  BY DEF Turno
<1>11. r.pc \notin EnMarcha
  BY DEF EnMarcha
<1>12. Corre(r, d) => r.pc = "respKS"
  BY DEF Corre, EnMarcha
<1>13. Turno(r, b, d, S, l)
  BY <1>1, <1>5, <1>6, <1>7, <1>8, <1>9, <1>10, <1>11, <1>12 DEF Turno
<1> QED BY <1>13 DEF b

\* What follows the context that was saved.
LEMMA TurnoAvisa ==
  ASSUME NEW k, NEW a \in Seq(Avisados), NEW d, NEW S, NEW l, Turno(k, a, d, S, l),
         k.pc = "okGuarda", k.tras # "BLOQUEADO", NEW r, r.pc = "ocioso",
         NEW m \in Avisados, m.pid = k.pid, m.t \in {"SLEEP", "ATENDIDA"}
  PROVE  Turno(r, Append(a, m), d, S, l)
<1> DEFINE b == Append(a, m)
<1>1. Corre(k, d) /\ k.pid \in S /\ l = {}
  BY DEF Turno, Corre
<1>2. \A t \in Ultimos : ~Hay(a, t)
  BY DEF Turno, Ultimos
<1>3. \A t : Hay(b, t) <=> Hay(a, t) \/ m.t = t
  BY HayMas
<1>6. Pendientes(b, S)
  BY <1>1, <1>2, PendientesMas DEF Turno
<1>7. ~Hay(d, "PID") /\ ~Hay(d, "BLOQUEADO")
  BY <1>1 DEF Turno
<1>8. ~Hay(b, "DONE") /\ ~Hay(b, "SEG_FAULT") /\ ~Hay(b, "MUTEX_LOCK")
  BY <1>2, <1>3 DEF Ultimos
<1> HIDE DEF b
<1>10. ConPID(d, S) /\ ConBloqueo(d)
  BY DEF Turno
<1>11. r.pc \notin EnMarcha /\ ~Corre(r, d)
  BY DEF EnMarcha, Corre
<1>13. Turno(r, b, d, S, l)
  BY <1>1, <1>6, <1>7, <1>8, <1>10, <1>11 DEF Turno
<1> QED BY <1>13 DEF b

\* What a step of CPU c, or of its handler, leaves to be shown.
LEMMA UnTurno ==
  ASSUME Turnos, NEW c \in CPUs, Esperas(ks'),
         \A e \in CPUs \ {c} : /\ cpu'[e] = cpu[e] /\ aKS'[e] = aKS[e] /\ deKS'[e] = deKS[e]
                               /\ Suyos(ks', e) = Suyos(ks, e)
                               /\ Libres(ks') \cap {e} = Libres(ks) \cap {e},
         Turno(cpu'[c], aKS'[c], deKS'[c], Suyos(ks', c), Libres(ks') \cap {c})
  PROVE  Turnos'
<1> SUFFICES ASSUME NEW e \in CPUs
             PROVE  Turno(cpu'[e], aKS'[e], deKS'[e], Suyos(ks', e), Libres(ks') \cap {e})
  BY DEF Turnos, TurnoDe
<1>1. CASE e = c
  BY <1>1
<1>2. CASE e # c
  BY <1>2 DEF Turnos, TurnoDe
<1> QED BY <1>1, <1>2

\* A step of a CPU keeps the turns if it keeps its own.
LEMMA TurnoDeCPU ==
  ASSUME TiposDeCPU, Turnos, NEW c \in CPUs, NEW k, cpu' = [cpu EXCEPT ![c] = k], ks' = ks,
         NEW a, (aKS' = aKS /\ a = aKS[c]) \/ aKS' = [aKS EXCEPT ![c] = a],
         NEW d, (deKS' = deKS /\ d = deKS[c]) \/ deKS' = [deKS EXCEPT ![c] = d],
         Turno(k, a, d, Suyos(ks, c), Libres(ks) \cap {c})
  PROVE  Turnos'
<1>1. cpu'[c] = k /\ \A e \in CPUs \ {c} : cpu'[e] = cpu[e]
  BY DEF TiposDeCPU
<1>2. aKS'[c] = a /\ \A e \in CPUs \ {c} : aKS'[e] = aKS[e]
  BY DEF TiposDeCPU
<1>3. deKS'[c] = d /\ \A e \in CPUs \ {c} : deKS'[e] = deKS[e]
  BY DEF TiposDeCPU
<1>4. Esperas(ks')
  BY DEF Turnos
<1> QED BY <1>1, <1>2, <1>3, <1>4, UnTurno

\* The turn of CPU c, with the types of what it is about.
LEMMA TurnoEs ==
  ASSUME TiposDeCPU, Turnos, NEW c \in CPUs
  PROVE  /\ Turno(cpu[c], aKS[c], deKS[c], Suyos(ks, c), Libres(ks) \cap {c})
         /\ cpu[c] \in Registros /\ aKS[c] \in Seq(Avisados) /\ deKS[c] \in Seq(Ordenes)
BY TiposDe DEF Turnos, TurnoDe

\* A CPU that sends its context when nothing else is under way.
LEMMA TurnoDeGuardar ==
  ASSUME TiposDeCPU, Turnos, NEW c \in CPUs, NEW k \in Registros, k.pid = cpu[c].pid,
         NEW tras \in {"SLEEP", "ATENDIDA"}, guardar_contexto_km(c, k, tras),
         cpu[c].pc \in EnMarcha \cup {"interrupciones"}, ks' = ks, aKS' = aKS,
         NEW d, (deKS' = deKS /\ d = deKS[c]) \/ deKS' = [deKS EXCEPT ![c] = d],
         Turno(cpu[c], aKS[c], d, Suyos(ks, c), Libres(ks) \cap {c})
  PROVE  Turnos'
<1> DEFINE r == [k EXCEPT !.pc = "okGuarda", !.tras = tras]
<1>1. cpu' = [cpu EXCEPT ![c] = r]
  BY DEF guardar_contexto_km
<1>2. r.pid = cpu[c].pid /\ r.pc = "okGuarda" /\ r.tras # "BLOQUEADO"
  BY DEF Registros
<1> HIDE DEF r
<1>3. Turno(r, aKS[c], d, Suyos(ks, c), Libres(ks) \cap {c})
  BY <1>2, TurnoSigue
<1> QED BY <1>1, <1>3, TurnoDeCPU

\* The steps of the cycle that read from Kernel Memory, or ask it.
LEMMA TurnoDeLectura ==
  ASSUME TiposDeCPU, Turnos, NEW c \in CPUs, ks' = ks,
         recibir_mapa(c) \/ recibirContexto(c) \/ recibirInstruccion(c) \/ actualizar_tabla_segmentos(c)
  PROVE  Turnos'
<1> DEFINE x == cpu[c]
<1>1. \E k \in {cpu'[c]} : /\ cpu' = [cpu EXCEPT ![c] = k] /\ k.pid = x.pid
                           /\ x.pc \in EnMarcha /\ k.pc \in EnMarcha \cup {"fin"}
  <2>0. x \in Registros
    BY TiposDe
  <2>1. CASE recibir_mapa(c)
    BY <2>0, <2>1 DEF recibir_mapa, LeeKM, Va, EnPC, EnMarcha, TiposDeCPU, Registros
  <2>2. CASE recibirContexto(c)
    <3> DEFINE a == [x EXCEPT !.ctx = Lee(c).pc, !.tabla = Lee(c).tabla]
               r == [a EXCEPT !.pc = "respuesta"]
               w == [x EXCEPT !.pc = "fin"]
    <3>1. x.pc = "contexto" /\ (cpu' = [cpu EXCEPT ![c] = r] \/ cpu' = [cpu EXCEPT ![c] = w])
      BY <2>0, <2>2 DEF recibirContexto, fetch, LeeKM, Va, EnPC
    <3>2. r.pc = "respuesta" /\ r.pid = x.pid /\ w.pc = "fin" /\ w.pid = x.pid
      BY <2>0 DEF Registros
    <3> HIDE DEF r, w
    <3>3. cpu' = [cpu EXCEPT ![c] = r] => cpu'[c] = r
      BY DEF TiposDeCPU
    <3>4. cpu' = [cpu EXCEPT ![c] = w] => cpu'[c] = w
      BY DEF TiposDeCPU
    <3> QED BY <3>1, <3>2, <3>3, <3>4 DEF EnMarcha
  <2>3. CASE recibirInstruccion(c)
    BY <2>0, <2>3 DEF recibirInstruccion, LeeKM, Va, EnPC, EnMarcha, TiposDeCPU, Registros
  <2>4. CASE actualizar_tabla_segmentos(c)
    BY <2>0, <2>4 DEF actualizar_tabla_segmentos, LeeKM, Va, EnPC, EnMarcha, TiposDeCPU, Registros
  <2> QED BY <2>1, <2>2, <2>3, <2>4
<1>2. PICK k \in {cpu'[c]} : /\ cpu' = [cpu EXCEPT ![c] = k] /\ k.pid = x.pid
                             /\ x.pc \in EnMarcha /\ k.pc \in EnMarcha \cup {"fin"}
  BY <1>1
<1>3. aKS' = aKS /\ deKS' = deKS
  BY DEF recibir_mapa, recibirContexto, recibirInstruccion, actualizar_tabla_segmentos, SoloKM
<1>4. Turno(x, aKS[c], deKS[c], Suyos(ks, c), Libres(ks) \cap {c})
  BY TurnoEs
<1>5. x.pc # "respKS"
  BY <1>2 DEF EnMarcha
<1>6. Turno(k, aKS[c], deKS[c], Suyos(ks, c), Libres(ks) \cap {c})
  BY <1>2, <1>4, <1>5, TurnoSigue, TurnoParado
<1> QED BY <1>2, <1>3, <1>6, TurnoDeCPU

\* A CPU that waits takes the order to run, or drops what it reads.
LEMMA TurnoDe_esperar_pid ==
  ASSUME TiposDeCPU, Turnos, NEW c \in CPUs, ks' = ks, esperar_pid(c)
  PROVE  Turnos'
<1> DEFINE x == cpu[c]
           d == deKS[c]
           r == [CPUOciosa EXCEPT !.pc = "mapaCod", !.pid = Head(d).pid]
<1>1. /\ x.pc = "ocioso" /\ d # <<>> /\ deKS' = [deKS EXCEPT ![c] = Tail(d)] /\ aKS' = aKS
      /\ \/ Head(d).t = "PID" /\ cpu' = [cpu EXCEPT ![c] = r]
         \/ cpu' = cpu
  BY DEF esperar_pid, LeeKS, EnPC, TiposDeCPU
<1>2. r.pc = "mapaCod" /\ r.pid = Head(d).pid
  BY DEF CPUOciosa
<1> HIDE DEF r
<1>3. CASE cpu' = [cpu EXCEPT ![c] = r] /\ Head(d).t = "PID"
  <2>1. Turno(r, aKS[c], Tail(d), Suyos(ks, c), Libres(ks) \cap {c})
    BY <1>1, <1>2, <1>3, TurnoEs, TurnoTomaPID
  <2> QED BY <1>1, <1>3, <2>1, TurnoDeCPU
<1>4. CASE cpu' = cpu
  <2>1. Turno(x, aKS[c], Tail(d), Suyos(ks, c), Libres(ks) \cap {c})
    BY <1>1, TurnoEs, TurnoLee
  <2>2. cpu' = [cpu EXCEPT ![c] = x]
    BY <1>4 DEF TiposDeCPU
  <2> HIDE DEF x
  <2> QED BY <1>1, <2>1, <2>2, TurnoDeCPU
<1> QED BY <1>1, <1>3, <1>4

\* The CPU that goes on is still that of its process.
LEMMA TurnoDe_noop ==
  ASSUME TiposDeCPU, Turnos, NEW c \in CPUs, ks' = ks, noop(c),
         NEW d, (deKS' = deKS /\ d = deKS[c]) \/ deKS' = [deKS EXCEPT ![c] = d],
         \A r : r.pid = cpu[c].pid /\ r.pc = "interrupciones" =>
                Turno(r, aKS[c], d, Suyos(ks, c), Libres(ks) \cap {c})
  PROVE  Turnos'
<1> DEFINE a == Avanzada(c)
           k == [a EXCEPT !.pc = "interrupciones"]
<1>1. a \in Registros /\ a.pid = cpu[c].pid
  BY AvanzadaTipo
<1>2. cpu' = [cpu EXCEPT ![c] = k] /\ aKS' = aKS
  BY DEF noop
<1> HIDE DEF a
<1>3. k.pc = "interrupciones" /\ k.pid = cpu[c].pid
  BY <1>1 DEF Registros
<1> HIDE DEF k
<1>4. Turno(k, aKS[c], d, Suyos(ks, c), Libres(ks) \cap {c})
  BY <1>3
<1> QED BY <1>2, <1>4, TurnoDeCPU

\* ejecutar keeps the turn: the CPU ends, goes on, saves, or calls the scheduler.
LEMMA TurnoDe_ejecutar ==
  ASSUME TiposDeCPU, Turnos, NEW c \in CPUs, ks' = ks, ejecutar(c)
  PROVE  Turnos'
<1> DEFINE x == cpu[c]
<1>1. x.pc = "ejecuta" /\ x \in Registros /\ deKS' = deKS /\ x.pc \in EnMarcha
  BY TiposDe DEF ejecutar, EnPC, EnMarcha
<1>2. Turno(x, aKS[c], deKS[c], Suyos(ks, c), Libres(ks) \cap {c}) /\ aKS[c] \in Seq(Avisados)
      /\ deKS[c] \in Seq(Ordenes)
  BY TurnoEs
<1>3. CASE Va(c, "fin") /\ UNCHANGED <<aKM, aKS, real>>
  <2> DEFINE r == [x EXCEPT !.pc = "fin"]
  <2>1. cpu' = [cpu EXCEPT ![c] = r] /\ r.pc = "fin" /\ aKS' = aKS
    BY <1>1, <1>3 DEF Va, TiposDeCPU, Registros
  <2> HIDE DEF r
  <2>2. Turno(r, aKS[c], deKS[c], Suyos(ks, c), Libres(ks) \cap {c})
    BY <1>1, <1>2, <2>1, TurnoParado
  <2> QED BY <1>1, <2>1, <2>2, TurnoDeCPU
<1>4. CASE noop(c)
  <2>1. \A r : r.pid = x.pid /\ r.pc = "interrupciones" =>
               Turno(r, aKS[c], deKS[c], Suyos(ks, c), Libres(ks) \cap {c})
    BY <1>1, <1>2, TurnoSigue
  <2> QED BY <1>1, <1>4, <2>1, TurnoDe_noop
<1>5. CASE syscall_sleep(c)
  <2>1. Avanzada(c) \in Registros /\ Avanzada(c).pid = x.pid
    BY AvanzadaTipo
  <2>2. guardar_contexto_km(c, Avanzada(c), "SLEEP") /\ aKS' = aKS
    BY <1>5 DEF syscall_sleep
  <2>3. "SLEEP" \in {"SLEEP", "ATENDIDA"}
    OBVIOUS
  <2> QED BY <1>1, <1>2, <2>1, <2>2, <2>3, TurnoDeGuardar
<1>6. ASSUME NEW pc \in {"okExit", "ackSegFault", "respKS"}, NEW t, Va(c, pc), EscribeKS(c, t),
             \/ pc = "okExit" /\ t = "DONE"
             \/ pc = "ackSegFault" /\ t = "SEG_FAULT"
             \/ pc = "respKS" /\ t \in Llamadas /\ t = Operacion(c)
      PROVE  Turnos' \/ x.pid \notin Procesos
  <2> DEFINE r == [x EXCEPT !.pc = pc]
             m == [t |-> t, pid |-> x.pid]
  <2>1. cpu' = [cpu EXCEPT ![c] = r] /\ r.pc = pc /\ r.pid = x.pid /\ r.instr = x.instr
    BY <1>1, <1>6 DEF Va, TiposDeCPU, Registros
  <2>2. aKS' = [aKS EXCEPT ![c] = Append(aKS[c], m)]
    BY <1>6 DEF EscribeKS, TiposDeCPU
  <2>3. x.pid \in Procesos => m \in Avisados
    BY <1>6 DEF Avisados
  <2>4. m.t = t /\ m.pid = x.pid
    OBVIOUS
  <2>5. OperacionDe(r) = Operacion(c)
    BY <2>1 DEF OperacionDe, Operacion
  <2> HIDE DEF m, r
  <2>6. x.pid \in Procesos => Turno(r, Append(aKS[c], m), deKS[c], Suyos(ks, c), Libres(ks) \cap {c})
    BY <1>1, <1>2, <1>6, <2>1, <2>3, <2>4, <2>5, TurnoLlama
  <2> QED BY <1>1, <2>1, <2>2, <2>6, TurnoDeCPU
<1>7. x.pid \in Procesos
  <2>1. x.pid \in Suyos(ks, c)
    BY <1>1, <1>2 DEF Turno, Corre
  <2> QED BY <2>1 DEF Suyos
<1>8. CASE syscall_exit(c)
  <2>1. "okExit" \in {"okExit", "ackSegFault", "respKS"}
    OBVIOUS
  <2>2. Va(c, "okExit") /\ EscribeKS(c, "DONE")
    BY <1>8 DEF syscall_exit
  <2> QED BY <1>6, <1>7, <2>1, <2>2
<1>9. CASE Va(c, "ackSegFault") /\ EscribeKS(c, "SEG_FAULT")
  <2>1. "ackSegFault" \in {"okExit", "ackSegFault", "respKS"}
    OBVIOUS
  <2> QED BY <1>6, <1>7, <1>9, <2>1
<1>10. CASE Operacion(c) \in Llamadas /\ Va(c, "respKS") /\ EscribeKS(c, Operacion(c))
  <2>1. "respKS" \in {"okExit", "ackSegFault", "respKS"}
    OBVIOUS
  <2> QED BY <1>6, <1>7, <1>10, <2>1
<1> QED BY <1>3, <1>4, <1>5, <1>8, <1>9, <1>10, ejecutarFormas

\* What follows a context that was saved, or an EXIT.
LEMMA TurnoDe_guardado ==
  ASSUME TiposDeCPU, Fases, Turnos, NEW c \in CPUs, ks' = ks, guardado(c) \/ okExit(c)
  PROVE  Turnos'
<1> DEFINE x == cpu[c]
           w == [x EXCEPT !.pc = "fin"]
           o == CPUOciosa
           m == [t |-> x.tras, pid |-> x.pid]
<1>1. x.pc \in {"okGuarda", "okExit"} /\ x \in Registros /\ deKS' = deKS /\ x.pc # "respKS"
  BY TiposDe DEF guardado, okExit, LeeKM, EnPC, SoloKM
<1>2. Turno(x, aKS[c], deKS[c], Suyos(ks, c), Libres(ks) \cap {c}) /\ aKS[c] \in Seq(Avisados)
  BY TurnoEs
<1>3. /\ cpu' = [cpu EXCEPT ![c] = o] \/ cpu' = [cpu EXCEPT ![c] = w]
      /\ \/ aKS' = aKS
         \/ /\ cpu' = [cpu EXCEPT ![c] = o] /\ x.pc = "okGuarda" /\ x.tras \in {"SLEEP", "ATENDIDA"}
            /\ aKS' = [aKS EXCEPT ![c] = Append(@, m)]
  BY DEF guardado, okExit, LeeKM, EnPC, SoloKM, Va, Ocioso, EscribeKS
<1>4. o.pc = "ocioso" /\ w.pc = "fin"
  BY <1>1, OciosaTipo DEF Registros
<1>5. x.pid \in Procesos
  BY <1>1 DEF Fases, Fase
<1> HIDE DEF o, w
<1>6. CASE aKS' = aKS
  <2>1. \A r \in {o, w} : Turno(r, aKS[c], deKS[c], Suyos(ks, c), Libres(ks) \cap {c})
    BY <1>1, <1>2, <1>4, TurnoParado
  <2> QED BY <1>1, <1>3, <1>6, <2>1, TurnoDeCPU
<1>7. CASE /\ cpu' = [cpu EXCEPT ![c] = o] /\ x.pc = "okGuarda" /\ x.tras \in {"SLEEP", "ATENDIDA"}
           /\ aKS' = [aKS EXCEPT ![c] = Append(@, m)]
  <2>1. m \in Avisados /\ m.pid = x.pid /\ m.t \in {"SLEEP", "ATENDIDA"} /\ x.tras # "BLOQUEADO"
    BY <1>5, <1>7 DEF Avisados
  <2> HIDE DEF m
  <2>2. Turno(o, Append(aKS[c], m), deKS[c], Suyos(ks, c), Libres(ks) \cap {c})
    BY <1>2, <1>4, <1>7, <2>1, TurnoAvisa
  <2>3. aKS' = [aKS EXCEPT ![c] = Append(aKS[c], m)]
    BY <1>7
  <2> QED BY <1>1, <1>7, <2>2, <2>3, TurnoDeCPU
<1> QED BY <1>3, <1>6, <1>7

\* The confirmation of a fault leaves the CPU idle.
LEMMA TurnoDe_manejar_seg_fault ==
  ASSUME TiposDeCPU, Turnos, NEW c \in CPUs, ks' = ks, manejar_seg_fault(c)
  PROVE  Turnos'
<1> DEFINE x == cpu[c]
           d == deKS[c]
           o == CPUOciosa
<1>1. /\ x.pc = "ackSegFault" /\ d # <<>> /\ deKS' = [deKS EXCEPT ![c] = Tail(d)] /\ aKS' = aKS
      /\ cpu' = [cpu EXCEPT ![c] = o]
  BY DEF manejar_seg_fault, LeeKS, EnPC, Ocioso, TiposDeCPU
<1>2. o.pc = "ocioso"
  BY OciosaTipo
<1> HIDE DEF o
<1>3. Turno(x, aKS[c], Tail(d), Suyos(ks, c), Libres(ks) \cap {c})
  BY <1>1, TurnoEs, TurnoLee
<1>4. Turno(o, aKS[c], Tail(d), Suyos(ks, c), Libres(ks) \cap {c})
  BY <1>1, <1>2, <1>3, TurnoParado
<1> QED BY <1>1, <1>4, TurnoDeCPU

\* An interrupt, kept or just read, saves the context or ends the cycle.
LEMMA TurnoDe_atender_interrupcion ==
  ASSUME TiposDeCPU, Turnos, NEW c \in CPUs, ks' = ks,
         atender_interrupcion(c) \/ atender_interrupcion_en_espera(c)
  PROVE  Turnos'
<1> DEFINE x == cpu[c]
           r == [x EXCEPT !.pc = "respuesta"]
           w == [x EXCEPT !.pc = "fin"]
           o == CPUOciosa
           d == IF deKS' = deKS THEN deKS[c] ELSE Tail(deKS[c])
<1>1. /\ x.pc = "interrupciones" /\ aKS' = aKS /\ x \in Registros
      /\ \/ cpu' = [cpu EXCEPT ![c] = r] /\ x.espera = Nadie
         \/ cpu' = [cpu EXCEPT ![c] = w]
         \/ cpu' = [cpu EXCEPT ![c] = o]
         \/ guardar_contexto_km(c, x, "ATENDIDA")
      /\ \/ deKS' = deKS
         \/ deKS[c] # <<>> /\ deKS' = [deKS EXCEPT ![c] = Tail(deKS[c])]
  BY TiposDe DEF atender_interrupcion, atender_interrupcion_en_espera, LeeKS, EnPC, Ocioso, Va, fetch, TiposDeCPU
<1>2. /\ o.pc = "ocioso" /\ w.pc = "fin" /\ r.pc = "respuesta" /\ r.pid = x.pid
      /\ "respuesta" \in EnMarcha /\ x.pc # "respKS"
  BY <1>1, OciosaTipo DEF Registros, EnMarcha
<1> HIDE DEF o, w, r
<1>3. (deKS' = deKS /\ d = deKS[c]) \/ deKS' = [deKS EXCEPT ![c] = d]
  BY <1>1
<1>4. Turno(x, aKS[c], d, Suyos(ks, c), Libres(ks) \cap {c})
  <2>1. CASE deKS' = deKS
    BY <2>1, TurnoEs
  <2>2. CASE deKS' # deKS
    <3>1. d = Tail(deKS[c]) /\ deKS[c] # <<>>
      BY <1>1, <2>2
    <3> QED BY <1>2, <3>1, TurnoEs, TurnoLee
  <2> QED BY <2>1, <2>2
<1> HIDE DEF d
<1>5. CASE cpu' = [cpu EXCEPT ![c] = r] /\ x.espera = Nadie
  <2>1. Turno(r, aKS[c], d, Suyos(ks, c), Libres(ks) \cap {c})
    BY <1>1, <1>2, <1>4, <1>5, TurnoSigue
  <2> QED BY <1>1, <1>3, <1>5, <2>1, TurnoDeCPU
<1>6. ASSUME NEW k \in {o, w}, cpu' = [cpu EXCEPT ![c] = k] PROVE Turnos'
  <2>1. Turno(k, aKS[c], d, Suyos(ks, c), Libres(ks) \cap {c})
    BY <1>2, <1>4, <1>6, TurnoParado
  <2> QED BY <1>1, <1>3, <1>6, <2>1, TurnoDeCPU
<1>7. CASE guardar_contexto_km(c, x, "ATENDIDA")
  <2>1. "ATENDIDA" \in {"SLEEP", "ATENDIDA"} /\ x.pc \in EnMarcha \cup {"interrupciones"}
    BY <1>1
  <2> QED BY <1>1, <1>3, <1>4, <1>7, <2>1, TurnoDeGuardar
<1> QED BY <1>1, <1>5, <1>6, <1>7

\* The answer of the scheduler: the process goes on, blocks, or the CPU ends.
LEMMA TurnoDe_respuestaKS ==
  ASSUME TiposDeCPU, Turnos, NEW c \in CPUs, ks' = ks, respuestaKS(c)
  PROVE  Turnos'
<1> DEFINE x == cpu[c]
           d == deKS[c]
           m == Head(d)
           op == OperacionDe(x)
           S == Suyos(ks, c)
           l == Libres(ks) \cap {c}
<1>1. /\ x.pc = "respKS" /\ d # <<>> /\ deKS' = [deKS EXCEPT ![c] = Tail(d)] /\ aKS' = aKS
      /\ x \in Registros
  BY TiposDe DEF respuestaKS, LeeKS, EnPC, TiposDeCPU
<1>2. Turno(x, aKS[c], d, S, l) /\ d \in Seq(Ordenes)
  BY TurnoEs
<1>3. m \in Ordenes
  BY <1>1, <1>2, HeadTailProperties
<1>4. \/ /\ m.t = "INTERRUPT" /\ cpu' = [cpu EXCEPT ![c].espera = m.pid]
      \/ m.t = "OK" /\ noop(c)
      \/ m.t = "BLOQUEADO" /\ guardar_contexto_km(c, Avanzada(c), "BLOQUEADO")
      \/ /\ Va(c, IF op \in LlamadasMem THEN "interrupciones" ELSE "fin")
         /\ m.t # "OK" /\ ~(m.t = "BLOQUEADO" /\ op = "MUTEX_LOCK")
         /\ m.t = "INTERRUPT" => op # "MUTEX_LOCK" /\ (op \in LlamadasMem => x.espera # Nadie)
  BY DEF respuestaKS, Operacion, OperacionDe, LlamadasMem
<1>5. CASE m.t = "INTERRUPT" /\ cpu' = [cpu EXCEPT ![c].espera = m.pid]
  <2> DEFINE k == [x EXCEPT !.espera = m.pid]
  <2>1. cpu' = [cpu EXCEPT ![c] = k]
    BY <1>5
  <2>2. k.pc = "respKS" /\ k.pid = x.pid /\ k.instr = x.instr
    BY <1>1 DEF Registros
  <2> HIDE DEF k
  <2>3. Turno(k, aKS[c], Tail(d), S, l)
    BY <1>1, <1>2, <1>5, <2>2, TurnoEspera
  <2> QED BY <1>1, <2>1, <2>3, TurnoDeCPU
<1>6. CASE m.t = "OK" /\ noop(c)
  <2>1. \A r : r.pid = x.pid /\ r.pc = "interrupciones" => Turno(r, aKS[c], Tail(d), S, l)
    BY <1>1, <1>2, <1>6, TurnoContestado
  <2> QED BY <1>1, <1>6, <2>1, TurnoDe_noop
<1>7. CASE m.t = "BLOQUEADO" /\ guardar_contexto_km(c, Avanzada(c), "BLOQUEADO")
  <2> DEFINE k == Avanzada(c)
             r == [k EXCEPT !.pc = "okGuarda", !.tras = "BLOQUEADO"]
  <2>1. cpu' = [cpu EXCEPT ![c] = r]
    BY <1>7 DEF guardar_contexto_km
  <2>2. k \in Registros
    BY AvanzadaTipo
  <2> HIDE DEF k
  <2>3. r.pc = "okGuarda" /\ r.tras = "BLOQUEADO"
    BY <2>2 DEF Registros
  <2> HIDE DEF r
  <2>4. Turno(r, aKS[c], Tail(d), S, l)
    BY <1>1, <1>2, <1>7, <2>3, TurnoBloqueado
  <2> QED BY <1>1, <2>1, <2>4, TurnoDeCPU
<1>8. CASE /\ Va(c, IF op \in LlamadasMem THEN "interrupciones" ELSE "fin")
           /\ m.t # "OK" /\ ~(m.t = "BLOQUEADO" /\ op = "MUTEX_LOCK")
           /\ m.t = "INTERRUPT" => op # "MUTEX_LOCK" /\ (op \in LlamadasMem => x.espera # Nadie)
  <2> DEFINE pc == IF op \in LlamadasMem THEN "interrupciones" ELSE "fin"
             k == [x EXCEPT !.pc = pc]
  <2>1. cpu' = [cpu EXCEPT ![c] = k]
    BY <1>8 DEF Va
  <2>2. k.pc = pc /\ k.pid = x.pid /\ k.espera = x.espera
    BY <1>1 DEF Registros
  <2> HIDE DEF k
  <2>3. m.t \in {"INTERRUPT", "PID", "ERROR"}
    <3>1. m.t # "BLOQUEADO"
      BY <1>1, <1>2, <1>8, HayCola DEF Turno
    <3> QED BY <1>3, <1>8, <3>1 DEF Ordenes
  <2>4. CASE m.t = "INTERRUPT"
    <3>1. op # "MUTEX_LOCK" /\ (k.pc = "fin" \/ (k.pc = "interrupciones" /\ k.espera # Nadie))
      BY <1>8, <2>2, <2>4
    <3>2. Turno(k, aKS[c], Tail(d), S, l)
      BY <1>1, <1>2, <2>2, <2>4, <3>1, TurnoInesperado
    <3> QED BY <1>1, <2>1, <3>2, TurnoDeCPU
  <2>5. CASE m.t \in {"PID", "ERROR"}
    <3>1. k.pc \in {"fin", "interrupciones"} /\ m.t \in {"OK", "ERROR", "PID"}
      BY <2>2, <2>5
    <3>2. Turno(k, aKS[c], Tail(d), S, l)
      BY <1>1, <1>2, <2>2, <3>1, TurnoContestado
    <3> QED BY <1>1, <2>1, <3>2, TurnoDeCPU
  <2> QED BY <2>3, <2>4, <2>5
<1> QED BY <1>4, <1>5, <1>6, <1>7, <1>8

\* Every step of a CPU keeps the turns.
LEMMA TurnoDeCiclo ==
  ASSUME TiposDeCPU, Fases, Turnos, NEW c \in CPUs, ks' = ks, Ciclo(c)
  PROVE  Turnos'
<1>1. CASE recibir_mapa(c) \/ recibirContexto(c) \/ recibirInstruccion(c) \/ actualizar_tabla_segmentos(c)
  BY <1>1, TurnoDeLectura
<1>2. CASE esperar_pid(c) \/ ejecutar(c) \/ respuestaKS(c)
  BY <1>2, TurnoDe_esperar_pid, TurnoDe_ejecutar, TurnoDe_respuestaKS
<1>3. CASE guardado(c) \/ okExit(c) \/ manejar_seg_fault(c)
  BY <1>3, TurnoDe_guardado, TurnoDe_manejar_seg_fault
<1>4. CASE atender_interrupcion_en_espera(c) \/ atender_interrupcion(c)
  BY <1>4, TurnoDe_atender_interrupcion
<1> QED BY <1>1, <1>2, <1>3, <1>4 DEF Ciclo

\* What the scheduler does.  A process leaves the CPU with its last message,
LEMMA TurnoFuera ==
  ASSUME NEW k, NEW a \in Seq(Avisados), NEW d \in Seq(Ordenes), NEW S, NEW l, Turno(k, a, d, S, l),
         a # <<>>, Head(a).t \in {"ATENDIDA", "SLEEP", "DONE", "SEG_FAULT"},
         NEW m \in Ordenes, m.t = "OK", NEW f
  PROVE  Turno(k, Tail(a), d, {}, f) /\ Turno(k, Tail(a), Append(d, m), {}, f)
<1> DEFINE b == Tail(a)
           u == Append(d, m)
<1>1. Hay(a, Head(a).t)
  BY HayCola
<1>2. k.pc \in {"ocioso", "fin", "okExit", "ackSegFault"}
  BY <1>1 DEF Turno
<1>3. ~Hay(d, "PID") /\ ~Hay(d, "BLOQUEADO")
  BY DEF Turno
<1>4. Head(a).t \in Ultimos
  BY DEF Ultimos
<1>5. b = <<>>
  BY <1>4, PendientesCola DEF Turno
<1>6. ~Hay(u, "PID") /\ ~Hay(u, "BLOQUEADO")
  BY <1>3, HayMas
<1>7. ConPID(d, {}) /\ ConPID(u, {}) /\ ConBloqueo(d) /\ ConBloqueo(u)
  BY <1>3, <1>6 DEF ConPID, ConBloqueo, Hay
<1>8. \A t : ~Hay(b, t)
  BY <1>5, HayNada
<1>10. Pendientes(b, {})
  BY <1>5, PendientesNada
<1> HIDE DEF b, u
<1>11. k.pc \notin EnMarcha /\ ~Corre(k, d) /\ ~Corre(k, u)
  BY <1>2 DEF EnMarcha, Corre
<1>12. Turno(k, b, d, {}, f) /\ Turno(k, b, u, {}, f)
  BY <1>2, <1>3, <1>5, <1>6, <1>7, <1>8, <1>10, <1>11 DEF Turno
<1> QED BY <1>12 DEF b, u

\* or because it has to wait for the mutex;
LEMMA TurnoBloquea ==
  ASSUME NEW k, NEW a \in Seq(Avisados), NEW d \in Seq(Ordenes), NEW S, NEW l, Turno(k, a, d, S, l),
         a # <<>>, Head(a).t = "MUTEX_LOCK", NEW m \in Ordenes, m.t = "BLOQUEADO", NEW f
  PROVE  Turno(k, Tail(a), Append(d, m), {}, f)
<1> DEFINE b == Tail(a)
           u == Append(d, m)
<1>1. Hay(a, "MUTEX_LOCK") /\ Len(a) # 0
  BY HayCola
<1>2. k.pc = "respKS" /\ ~Hay(d, "PID") /\ ~Hay(d, "BLOQUEADO")
  BY <1>1 DEF Turno
<1>3. Len(a) = 1 /\ a[1].t = OperacionDe(k) /\ Sueltos(d)
  BY <1>1, <1>2 DEF Turno
<1>4. OperacionDe(k) = "MUTEX_LOCK"
  BY <1>3
<1>5. b = <<>>
  <2>1. Head(a).t \in Ultimos
    BY DEF Ultimos
  <2> QED BY <2>1, PendientesCola DEF Turno
<1>6. ~Hay(u, "PID") /\ Hay(u, "BLOQUEADO")
  BY <1>2, HayMas
<1>7. ConPID(u, {})
  BY <1>6 DEF ConPID, Hay
<1>12. ConBloqueo(u)
  BY <1>3, ConBloqueoMas DEF Turno
<1>8. \A t : ~Hay(b, t)
  BY <1>5, HayNada
<1>10. Pendientes(b, {})
  BY <1>5, PendientesNada
<1> HIDE DEF b, u
<1>11. k.pc \notin EnMarcha /\ ~Corre(k, u)
  BY <1>2, <1>6 DEF EnMarcha, Corre
<1>13. Turno(k, b, u, {}, f)
  BY <1>2, <1>4, <1>5, <1>6, <1>7, <1>8, <1>10, <1>11, <1>12 DEF Turno
<1> QED BY <1>13 DEF b, u

\* a call is answered;
LEMMA TurnoResponde ==
  ASSUME NEW k, NEW a \in Seq(Avisados), NEW d \in Seq(Ordenes), NEW S, NEW l, Turno(k, a, d, S, l),
         a # <<>>, Head(a).t \in Llamadas, NEW m \in Ordenes, m.t \in {"OK", "ERROR"}
  PROVE  Turno(k, Tail(a), Append(d, m), S, l)
<1> DEFINE b == Tail(a)
           u == Append(d, m)
<1>1. Len(a) # 0 /\ l = {}
  BY DEF Turno
<1>2. ~Hay(d, "PID") /\ ~Hay(d, "BLOQUEADO")
  BY DEF Turno
<1>3. \A t : Hay(b, t) => Hay(a, t)
  BY HayCola
<1>4. Pendientes(b, S)
  BY PendientesCola DEF Turno
<1>5. ~Hay(u, "PID") /\ ~Hay(u, "BLOQUEADO")
  BY <1>2, HayMas
<1>6. ConPID(u, S) /\ ConBloqueo(u)
  BY <1>2, ConPIDMas, ConBloqueoMas DEF Turno
<1>7. k.pc \notin EnMarcha /\ ~(k.pc = "interrupciones" /\ k.espera = Nadie)
  BY DEF Turno
<1>8. k.pc = "respKS" => b = <<>> /\ Contestada(u)
  <2> SUFFICES ASSUME k.pc = "respKS" PROVE b = <<>> /\ Contestada(u)
    OBVIOUS
  <2>1. Len(a) = 1 /\ Sueltos(d)
    BY <1>1, <1>2 DEF Turno
  <2>2. Len(b) = 0 /\ b \in Seq(Avisados)
    BY <2>1, HeadTailProperties
  <2>3. b = <<>>
    BY <2>2, EmptySeq
  <2> QED BY <2>1, <2>3, ContestadaMas
<1>9. Corre(k, u) <=> Corre(k, d)
  BY <1>2, <1>5 DEF Corre
<1>10. Corre(k, d) => k.pid \in S
  BY DEF Turno
<1>11. /\ Hay(a, "ATENDIDA") => k.pc \in {"ocioso", "fin"}
       /\ Hay(a, "SLEEP") => k.pc \in {"ocioso", "fin"}
       /\ Hay(a, "DONE") => k.pc \in {"okExit", "ocioso", "fin"}
       /\ Hay(a, "SEG_FAULT") => k.pc \in {"ackSegFault", "ocioso", "fin"}
       /\ Hay(a, "MUTEX_LOCK") => k.pc = "respKS"
  BY DEF Turno
<1> HIDE DEF b, u
<1>13. Turno(k, b, u, S, l)
  BY <1>1, <1>3, <1>4, <1>5, <1>6, <1>7, <1>8, <1>9, <1>10, <1>11 DEF Turno
<1> QED BY <1>13 DEF b, u

\* an interrupt is written,
LEMMA TurnoInterrumpe ==
  ASSUME NEW k, NEW a, NEW d \in Seq(Ordenes), NEW S, NEW l, Turno(k, a, d, S, l),
         NEW m \in Ordenes, m.t = "INTERRUPT"
  PROVE  Turno(k, a, Append(d, m), S, l)
<1> DEFINE u == Append(d, m)
<1>1. /\ Hay(u, "PID") <=> Hay(d, "PID")
      /\ Hay(u, "BLOQUEADO") <=> Hay(d, "BLOQUEADO")
  BY HayMas
<1>2. ConPID(u, S) /\ ConBloqueo(u)
  BY ConPIDMas, ConBloqueoMas DEF Turno
<1>3. Sueltos(d) => Sueltos(u)
  BY SueltosMas
<1>4. Contestada(d) => Contestada(u)
  BY ContestadaMas
<1> HIDE DEF u
<1>5. Corre(k, u) <=> Corre(k, d)
  BY <1>1 DEF Corre
<1>6. Turno(k, a, u, S, l)
  BY <1>1, <1>2, <1>3, <1>4, <1>5 DEF Turno
<1> QED BY <1>6 DEF u

\* and a process is dispatched to a CPU that is free.
LEMMA TurnoDespacha ==
  ASSUME NEW k, NEW a, NEW d \in Seq(Ordenes), NEW S, NEW l, Turno(k, a, d, S, l), l # {},
         NEW m \in Ordenes, m.t = "PID", NEW Z, m.pid \in Z
  PROVE  Turno(k, a, Append(d, m), Z, {})
<1> DEFINE u == Append(d, m)
<1>1. a = <<>> /\ ~Hay(d, "PID") /\ ~Corre(k, d)
  BY DEF Turno
<1>2. Hay(u, "PID") /\ (Hay(u, "BLOQUEADO") <=> Hay(d, "BLOQUEADO"))
  BY HayMas
<1>3. ConPID(d, Z)
  BY <1>1 DEF ConPID, Hay
<1>4. ConPID(u, Z) /\ ConBloqueo(u)
  BY <1>1, <1>3, ConPIDMas, ConBloqueoMas DEF Turno
<1>5. \A t : ~Hay(a, t)
  BY <1>1, HayNada
<1>6. Pendientes(a, Z)
  BY <1>1, PendientesNada
<1> HIDE DEF u
<1>7. ~Corre(k, u) /\ k.pc \notin EnMarcha \cup {"interrupciones"}
  BY <1>1, <1>2 DEF Corre
<1>8. k.pc = "respKS" => Hay(u, "BLOQUEADO")
  BY <1>7 DEF Corre
<1>9. Hay(u, "BLOQUEADO") => k.pc = "respKS" /\ OperacionDe(k) = "MUTEX_LOCK"
  BY <1>2 DEF Turno
<1>10. Turno(k, a, u, Z, {})
  BY <1>1, <1>2, <1>4, <1>5, <1>6, <1>7, <1>8, <1>9 DEF Turno
<1> QED BY <1>10 DEF u

\* Who runs where after a process leaves its CPU, and after one is dispatched.
LEMMA SuyosDeja ==
  ASSUME PlanOK(ks), NEW c \in CPUs, NEW p \in Suyos(ks, c), NEW e \in {"READY", "BLOCK", "EXIT"}
  PROVE  LET u == Deja(ks, c, p, e) IN
         /\ Suyos(u, c) = {}
         /\ \A x \in CPUs \ {c} : Suyos(u, x) = Suyos(ks, x) /\ Libres(u) \cap {x} = Libres(ks) \cap {x}
<1> DEFINE u == Deja(ks, c, p, e)
<1>1. p \in Procesos /\ ks.estado[p] = "EXEC" /\ ks.en[p] = c
  BY DEF Suyos
<1>2. /\ u.estado = [ks.estado EXCEPT ![p] = e] /\ u.en = ks.en
      /\ u.libres = ks.libres \cup {c} /\ u.manejador = ks.manejador
  BY DEF PlanOK, Deja, Planes
<1>3. ks.estado \in [Procesos -> Estados] /\ ks.en \in [Procesos -> CPUs \cup {Nadie}]
  BY DEF PlanOK, Planes
<1> HIDE DEF u
<1>4. \A r \in Procesos : /\ u.estado[r] = IF r = p THEN e ELSE ks.estado[r]
                          /\ u.en[r] = ks.en[r]
  BY <1>1, <1>2, <1>3
<1>7. Libres(u) = Libres(ks) \cup {c}
  BY <1>2 DEF Libres
<1>5. Suyos(u, c) = {}
  BY <1>7 DEF Suyos
<1>6. ASSUME NEW x \in CPUs \ {c}
      PROVE  Suyos(u, x) = Suyos(ks, x) /\ Libres(u) \cap {x} = Libres(ks) \cap {x}
  <2>1. Libres(u) \cap {x} = Libres(ks) \cap {x} /\ (x \in Libres(u) <=> x \in Libres(ks))
    BY <1>6, <1>7
  <2>2. \A r \in Procesos : r \in Suyos(u, x) <=> r \in Suyos(ks, x)
    BY <1>1, <1>4, <1>6, <2>1 DEF Suyos
  <2>3. Suyos(u, x) = Suyos(ks, x)
    BY <2>2 DEF Suyos
  <2> QED BY <2>1, <2>3
<1> QED BY <1>5, <1>6 DEF u

\* A CPU, its handler and its socket.
LEMMA TurnoDelMensaje ==
  ASSUME TiposDeCPU, Turnos, NEW c \in CPUs, aKS[c] # <<>>
  PROVE  Head(aKS[c]).pid \in Suyos(ks, c) /\ Head(aKS[c]).pid \in Procesos
<1>1. Pendientes(aKS[c], Suyos(ks, c)) /\ aKS[c] \in Seq(Avisados)
  BY TurnoEs DEF Turno
<1>2. Head(aKS[c]).pid \in Suyos(ks, c)
  BY <1>1, PendientesCola
<1> QED BY <1>2 DEF Suyos

\* Nobody who runs waits for the mutex.
LEMMA NoEspera ==
  ASSUME PlanOK(ks), Esperas(ks), NEW c \in CPUs, ks.manejador[c].pc = "libre", NEW p \in Suyos(ks, c)
  PROVE  /\ p \in Procesos /\ ks.estado[p] = "EXEC" /\ ks.en[p] = c /\ c \notin ks.libres
         /\ \A i \in 1..Len(ks.cola) : ks.cola[i] # p
         /\ \A d \in CPUs : ks.manejador[d].pc # "libre" => d # c /\ ks.manejador[d].pid # p
<1>1. p \in Procesos /\ ks.estado[p] = "EXEC" /\ ks.en[p] = c /\ c \notin ks.libres
  BY DEF Suyos, Libres
<1>2. \A d \in CPUs : ks.manejador[d].pc # "libre" => d # c /\ ks.manejador[d].pid # p
  BY <1>1 DEF Esperas
<1>3. \A i \in 1..Len(ks.cola) : ks.cola[i] # p
  BY <1>1, <1>2 DEF Esperas, SeBloquea
<1> QED BY <1>1, <1>2, <1>3

\* A process that leaves its CPU waits for nothing.
LEMMA EsperasDeja ==
  ASSUME PlanOK(ks), Esperas(ks), NEW c \in CPUs, ks.manejador[c].pc = "libre", NEW p \in Suyos(ks, c),
         NEW e \in {"READY", "BLOCK", "EXIT"}
  PROVE  Esperas(Deja(ks, c, p, e))
<1> DEFINE q == ks.cola
           u == Deja(ks, c, p, e)
<1>0. p \in Procesos
  BY DEF Suyos
<1>2. /\ u.estado = [ks.estado EXCEPT ![p] = e] /\ u.en = ks.en
      /\ u.libres = ks.libres \cup {c} /\ u.cola = q /\ u.manejador = ks.manejador
  BY DEF PlanOK, Deja, Planes
<1>1. /\ p \in Procesos
      /\ \A i \in 1..Len(q) : q[i] # p
      /\ \A d \in CPUs : ks.manejador[d].pc # "libre" => d # c /\ ks.manejador[d].pid # p
  BY NoEspera
<1>3. q \in Seq(Procesos) /\ ks.estado \in [Procesos -> Estados] /\ ks.manejador \in [CPUs -> Hilos]
  BY DEF PlanOK, Planes
<1>4. \A i \in 1..Len(q) : q[i] \in Procesos
  BY <1>3, ElementOfSeq
<1>5. \A d \in CPUs : ks.manejador[d].pc # "libre" => ks.manejador[d].pid \in Procesos
  BY <1>3 DEF Hilos
<1>6. \A r \in Procesos : r # p => u.estado[r] = ks.estado[r]
  BY <1>2, <1>3
<1> HIDE DEF u, q
<1>7. \A i \in 1..Len(q) : u.estado[q[i]] = "BLOCK" \/ SeBloquea(u, q[i])
  BY <1>1, <1>2, <1>4, <1>6 DEF Esperas, SeBloquea, q
<1>8. ASSUME NEW d \in CPUs, u.manejador[d].pc # "libre"
      PROVE  LET r == u.manejador[d].pid IN u.estado[r] = "EXEC" /\ u.en[r] = d /\ d \notin u.libres
  BY <1>1, <1>2, <1>5, <1>6, <1>8 DEF Esperas
<1>9. \A i, j \in 1..Len(q) : q[i] = q[j] => i = j
  BY DEF Esperas, q
<1>10. Esperas(u)
  BY <1>2, <1>7, <1>8, <1>9 DEF Esperas
<1> QED BY <1>10 DEF u

\* The handlers of the scheduler.  One that takes a process from its CPU:
LEMMA TurnoDeDejar ==
  ASSUME Tipos, Turnos, NEW c \in CPUs, aKS[c] # <<>>, ks.manejador[c].pc = "libre",
         Head(aKS[c]).t \in {"ATENDIDA", "SLEEP", "DONE", "SEG_FAULT"}, NEW e \in {"READY", "BLOCK", "EXIT"},
         ks' = Deja(ks, c, Head(aKS[c]).pid, e), Atendido(c), cpu' = cpu,
         deKS' = deKS \/ EscribeCPU(c, "OK", Head(aKS[c]).pid)
  PROVE  Turnos'
<1> DEFINE p == Head(aKS[c]).pid
           m == [t |-> "OK", pid |-> p]
           d == deKS[c]
           u == Deja(ks, c, p, e)
<1>1. p \in Suyos(ks, c) /\ p \in Procesos /\ TiposDeCPU /\ PlanOK(ks)
  BY TurnoDelMensaje, PlanDeKS DEF Tipos
<1>2. m \in Ordenes /\ m.t = "OK"
  BY <1>1 DEF Ordenes
<1> HIDE DEF p
<1>3. /\ Suyos(u, c) = {}
      /\ \A x \in CPUs \ {c} : Suyos(u, x) = Suyos(ks, x) /\ Libres(u) \cap {x} = Libres(ks) \cap {x}
  BY <1>1, SuyosDeja
<1>4. Esperas(u)
  BY <1>1, EsperasDeja DEF Turnos
<1>5. Turno(cpu[c], aKS[c], d, Suyos(ks, c), Libres(ks) \cap {c}) /\ aKS[c] \in Seq(Avisados) /\ d \in Seq(Ordenes)
  BY <1>1, TurnoEs
<1> HIDE DEF m
<1>6. \A f : Turno(cpu[c], Tail(aKS[c]), d, {}, f) /\ Turno(cpu[c], Tail(aKS[c]), Append(d, m), {}, f)
  BY <1>2, <1>5, TurnoFuera
<1>7. aKS'[c] = Tail(aKS[c]) /\ \A x \in CPUs \ {c} : aKS'[x] = aKS[x]
  BY <1>1, AtendidoTipo
<1>8. deKS'[c] \in {d, Append(d, m)} /\ \A x \in CPUs \ {c} : deKS'[x] = deKS[x]
  BY <1>1 DEF EscribeCPU, TiposDeCPU, m, p
<1>9. ks' = u
  BY DEF p
<1> HIDE DEF u, d
<1>10. Turno(cpu'[c], aKS'[c], deKS'[c], Suyos(ks', c), Libres(ks') \cap {c})
  BY <1>3, <1>6, <1>7, <1>8, <1>9
<1> QED BY <1>3, <1>4, <1>7, <1>8, <1>9, <1>10, UnTurno

\* and one that answers, with nothing that matters to the CPUs changed in the plan:
LEMMA TurnoDeContestar ==
  ASSUME Tipos, Turnos, NEW c \in CPUs, aKS[c] # <<>>, Head(aKS[c]).t \in Llamadas,
         NEW tipo \in {"OK", "ERROR"}, EscribeCPU(c, tipo, Head(aKS[c]).pid), Atendido(c), cpu' = cpu,
         Esperas(ks'), \A x \in CPUs : Suyos(ks', x) = Suyos(ks, x), Libres(ks') = Libres(ks)
  PROVE  Turnos'
<1> DEFINE p == Head(aKS[c]).pid
           m == [t |-> tipo, pid |-> p]
           d == deKS[c]
<1>1. p \in Procesos /\ TiposDeCPU
  BY TurnoDelMensaje DEF Tipos
<1>2. m \in Ordenes /\ m.t = tipo
  BY <1>1 DEF Ordenes
<1> HIDE DEF p
<1>5. Turno(cpu[c], aKS[c], d, Suyos(ks, c), Libres(ks) \cap {c}) /\ aKS[c] \in Seq(Avisados) /\ d \in Seq(Ordenes)
  BY <1>1, TurnoEs
<1>8. deKS'[c] = Append(d, m) /\ \A x \in CPUs \ {c} : deKS'[x] = deKS[x]
  BY <1>1 DEF EscribeCPU, TiposDeCPU, p
<1> HIDE DEF m
<1>6. Turno(cpu[c], Tail(aKS[c]), Append(d, m), Suyos(ks, c), Libres(ks) \cap {c})
  BY <1>2, <1>5, TurnoResponde
<1>7. aKS'[c] = Tail(aKS[c]) /\ \A x \in CPUs \ {c} : aKS'[x] = aKS[x]
  BY <1>1, AtendidoTipo
<1> HIDE DEF d
<1> QED BY <1>6, <1>7, <1>8, UnTurno

\* MUTEX_LOCK gives the mutex,
LEMMA TurnoDe_mutex_lock_libre ==
  ASSUME Tipos, Turnos, NEW c \in CPUs, mutex_lock_libre(c)
  PROVE  Turnos'
<1> DEFINE p == Head(aKS[c]).pid
<1>1. /\ aKS[c] # <<>> /\ Head(aKS[c]).t = "MUTEX_LOCK" /\ Atendido(c) /\ cpu' = cpu
      /\ ks' = [ks EXCEPT !.tomador = p] /\ EscribeCPU(ks.en[p], "OK", p)
  BY DEF mutex_lock_libre, Mensaje, Recibido, SoloKS
<1>2. p \in Suyos(ks, c) /\ p \in Procesos /\ ks \in Planes
  BY <1>1, TurnoDelMensaje, PlanDeKS DEF Tipos, PlanOK
<1> HIDE DEF p
<1>3. /\ ks'.estado = ks.estado /\ ks'.en = ks.en /\ ks'.libres = ks.libres /\ ks'.cola = ks.cola
      /\ ks'.manejador = ks.manejador
  BY <1>1, <1>2 DEF Planes
<1>4. (\A x \in CPUs : Suyos(ks', x) = Suyos(ks, x)) /\ Libres(ks') = Libres(ks)
  BY <1>3 DEF Suyos, Libres
<1>5. Esperas(ks')
  BY <1>3 DEF Esperas, SeBloquea, Turnos
<1>6. Head(aKS[c]).t \in Llamadas /\ "OK" \in {"OK", "ERROR"} /\ EscribeCPU(c, "OK", p)
  BY <1>1, <1>2 DEF Llamadas, Suyos
<1> QED BY <1>1, <1>4, <1>5, <1>6, TurnoDeContestar DEF p

\* or queues the process, which nobody else can tell;
LEMMA TurnoDe_mutex_lock_ocupado ==
  ASSUME Tipos, Turnos, NEW c \in CPUs, mutex_lock_ocupado(c)
  PROVE  Turnos' /\ (EnAvisos => EnAvisos')
<1> DEFINE p == Head(aKS[c]).pid
           h == [pc |-> "avisar", pid |-> p]
           q == ks.cola
           w == Append(q, p)
           n == Len(q)
<1>1. /\ aKS[c] # <<>> /\ cpu' = cpu /\ aKS' = aKS /\ deKS' = deKS /\ ks.manejador[c].pc = "libre"
      /\ ks' = [ks EXCEPT !.cola = w, !.manejador[c] = h]
  BY DEF mutex_lock_ocupado, Mensaje, Recibido, SoloKS
<1>2. p \in Suyos(ks, c) /\ PlanOK(ks) /\ ks \in Planes /\ Esperas(ks)
  BY <1>1, TurnoDelMensaje, PlanDeKS DEF Tipos, PlanOK, Turnos
<1>10. EnAvisos => EnAvisos'
  BY <1>1, <1>2 DEF EnAvisos, Planes
<1> HIDE DEF p
<1>3. /\ p \in Procesos /\ ks.estado[p] = "EXEC" /\ ks.en[p] = c /\ c \notin ks.libres
      /\ \A i \in 1..n : q[i] # p
  BY <1>1, <1>2, NoEspera
<1>4. /\ ks'.estado = ks.estado /\ ks'.en = ks.en /\ ks'.libres = ks.libres /\ ks'.cola = w
      /\ ks'.manejador[c] = h /\ \A d \in CPUs \ {c} : ks'.manejador[d] = ks.manejador[d]
  BY <1>1, <1>2 DEF Planes
<1>5. q \in Seq(Procesos) /\ n \in Nat
  BY <1>2, LenProperties DEF Planes
<1>6. /\ Len(w) = n + 1 /\ w[n + 1] = p
      /\ \A i \in 1..n : w[i] = q[i]
  BY <1>3, <1>5, AppendProperties
<1>7. h.pc = "avisar" /\ h.pid = p
  OBVIOUS
<1> HIDE DEF h, w, q, n
<1>8. Libres(ks') = Libres(ks) /\ \A x \in CPUs : Suyos(ks', x) = Suyos(ks, x)
  <2>1. \A d \in CPUs : ks'.manejador[d].pc = "bloquear" <=> ks.manejador[d].pc = "bloquear"
    BY <1>1, <1>4, <1>7
  <2>2. Libres(ks') = Libres(ks)
    BY <1>4, <2>1 DEF Libres
  <2> QED BY <1>4, <2>2 DEF Suyos
<1>9. Esperas(ks')
  <2>1. /\ \A i \in 1..n : ks.estado[q[i]] = "BLOCK" \/ SeBloquea(ks, q[i])
        /\ \A i, j \in 1..n : q[i] = q[j] => i = j
    BY <1>2 DEF Esperas, q, n
  <2>2. \A r : SeBloquea(ks, r) => SeBloquea(ks', r)
    BY <1>1, <1>4 DEF SeBloquea
  <2>3. SeBloquea(ks', p)
    BY <1>4, <1>7 DEF SeBloquea
  <2>4. \A i \in 1..(n + 1) : i \in 1..n \/ i = n + 1
    BY <1>5
  <2>5. \A i \in 1..(n + 1) : ks'.estado[w[i]] = "BLOCK" \/ SeBloquea(ks', w[i])
    BY <1>4, <1>6, <2>1, <2>2, <2>3, <2>4
  <2>6. \A i, j \in 1..(n + 1) : w[i] = w[j] => i = j
    BY <1>3, <1>6, <2>1, <2>4
  <2>7. ASSUME NEW d \in CPUs, ks'.manejador[d].pc # "libre"
        PROVE  LET r == ks'.manejador[d].pid IN
               ks'.estado[r] = "EXEC" /\ ks'.en[r] = d /\ d \notin ks'.libres
    BY <1>2, <1>3, <1>4, <1>7, <2>7 DEF Esperas
  <2> QED BY <1>4, <1>6, <2>5, <2>6, <2>7 DEF Esperas
<1> QED BY <1>1, <1>8, <1>9, <1>10 DEF Turnos, TurnoDe

\* the answer frees the CPU for all the others can tell,
LEMMA TurnoDe_avisarBloqueado ==
  ASSUME Tipos, Turnos, EnAvisos, NEW c \in CPUs, avisarBloqueado(c)
  PROVE  Turnos'
<1> DEFINE p == Head(aKS[c]).pid
           m == [t |-> "BLOQUEADO", pid |-> p]
           d == deKS[c]
           h == [ks.manejador[c] EXCEPT !.pc = "bloquear"]
<1>1. /\ aKS[c] # <<>> /\ Head(aKS[c]).t = "MUTEX_LOCK" /\ Atendido(c) /\ cpu' = cpu
      /\ ks.manejador[c].pc = "avisar" /\ EscribeCPU(ks.en[p], "BLOQUEADO", p)
      /\ ks' = [ks EXCEPT !.manejador[c].pc = "bloquear"]
  BY DEF avisarBloqueado, Recibido, SoloKS
<1>2. p \in Suyos(ks, c) /\ p \in Procesos /\ TiposDeCPU /\ PlanOK(ks) /\ ks \in Planes /\ Esperas(ks)
  BY <1>1, TurnoDelMensaje, PlanDeKS DEF Tipos, PlanOK, Turnos
<1>3. ks.manejador[c].pid = p /\ ks.manejador[c] \in Hilos
  BY <1>1, <1>2 DEF EnAvisos, Planes
<1>4. ks.en[p] = c /\ h.pc = "bloquear" /\ h.pid = p
  BY <1>2, <1>3 DEF Suyos, Hilos
<1>5. m \in Ordenes /\ m.t = "BLOQUEADO"
  BY <1>2 DEF Ordenes
<1>6. Turno(cpu[c], aKS[c], d, Suyos(ks, c), Libres(ks) \cap {c}) /\ aKS[c] \in Seq(Avisados) /\ d \in Seq(Ordenes)
  BY <1>2, TurnoEs
<1>7. deKS'[c] = Append(d, m) /\ \A x \in CPUs \ {c} : deKS'[x] = deKS[x]
  BY <1>1, <1>2, <1>4 DEF EscribeCPU, TiposDeCPU
<1> HIDE DEF m, p
<1>8. \A f : Turno(cpu[c], Tail(aKS[c]), Append(d, m), {}, f)
  BY <1>1, <1>5, <1>6, TurnoBloquea
<1>9. aKS'[c] = Tail(aKS[c]) /\ \A x \in CPUs \ {c} : aKS'[x] = aKS[x]
  BY <1>1, <1>2, AtendidoTipo
<1>10. /\ ks'.estado = ks.estado /\ ks'.en = ks.en /\ ks'.libres = ks.libres /\ ks'.cola = ks.cola
       /\ ks'.manejador[c] = h /\ \A x \in CPUs \ {c} : ks'.manejador[x] = ks.manejador[x]
  BY <1>1, <1>2 DEF Planes
<1> HIDE DEF h, d
<1>11. c \in Libres(ks') /\ \A x \in CPUs \ {c} : x \in Libres(ks') <=> x \in Libres(ks)
  BY <1>4, <1>10 DEF Libres
<1>12. Suyos(ks', c) = {}
  BY <1>11 DEF Suyos
<1>13. \A x \in CPUs \ {c} : Suyos(ks', x) = Suyos(ks, x) /\ Libres(ks') \cap {x} = Libres(ks) \cap {x}
  BY <1>10, <1>11 DEF Suyos
<1>14. Esperas(ks')
  <2>1. \A x \in CPUs : /\ ks'.manejador[x].pc # "libre" <=> ks.manejador[x].pc # "libre"
                        /\ ks'.manejador[x].pid = ks.manejador[x].pid
    BY <1>1, <1>3, <1>4, <1>10
  <2>2. \A r : SeBloquea(ks', r) <=> SeBloquea(ks, r)
    BY <2>1 DEF SeBloquea
  <2> QED BY <1>2, <1>10, <2>1, <2>2 DEF Esperas
<1>15. Turno(cpu'[c], aKS'[c], deKS'[c], Suyos(ks', c), Libres(ks') \cap {c})
  BY <1>1, <1>7, <1>8, <1>9, <1>12
<1> QED BY <1>1, <1>7, <1>9, <1>13, <1>14, <1>15, UnTurno

\* and with the block it is free for them all.
LEMMA TurnoDe_bloquearPorMutex ==
  ASSUME Tipos, Turnos, NEW c \in CPUs, bloquearPorMutex(c)
  PROVE  Turnos'
<1> DEFINE r == ks.manejador[c].pid
           u == Deja(ks, c, r, "BLOCK")
           h == [pc |-> "libre", pid |-> Nadie]
           q == ks.cola
<1>1. /\ ks.manejador[c].pc = "bloquear" /\ cpu' = cpu /\ aKS' = aKS /\ deKS' = deKS
      /\ ks' = [u EXCEPT !.manejador[c] = h]
  BY DEF bloquearPorMutex, SoloKS
<1>2. PlanOK(ks) /\ ks \in Planes /\ Esperas(ks) /\ ks.estado \in [Procesos -> Estados]
      /\ q \in Seq(Procesos) /\ ks.manejador \in [CPUs -> Hilos]
  BY PlanDeKS DEF PlanOK, Turnos, Planes
<1>3. r \in Procesos /\ ks.estado[r] = "EXEC" /\ ks.en[r] = c
  BY <1>1, <1>2 DEF Hilos, Esperas
<1>4. "BLOCK" \in {"READY", "BLOCK", "EXIT"}
  OBVIOUS
<1> HIDE DEF r
<1>5. /\ PlanOK(u) /\ u.estado = [ks.estado EXCEPT ![r] = "BLOCK"] /\ u.en = ks.en
      /\ u.libres = ks.libres \cup {c} /\ u.cola = q /\ u.manejador = ks.manejador
  BY <1>2, <1>3, <1>4, DejaEs
<1> HIDE DEF u
<1>6. /\ ks'.estado = u.estado /\ ks'.en = u.en /\ ks'.libres = u.libres /\ ks'.cola = u.cola
      /\ ks'.manejador[c] = h /\ \A x \in CPUs \ {c} : ks'.manejador[x] = ks.manejador[x]
  BY <1>1, <1>5 DEF PlanOK, Planes
<1>7. h.pc = "libre"
  OBVIOUS
<1> HIDE DEF h, q
<1>8. Libres(ks') = Libres(ks)
  BY <1>1, <1>5, <1>6, <1>7 DEF Libres
<1>9. \A x \in Procesos : ks'.estado[x] = IF x = r THEN "BLOCK" ELSE ks.estado[x]
  BY <1>2, <1>3, <1>5, <1>6
<1>10. ASSUME NEW x \in CPUs PROVE Suyos(ks', x) = Suyos(ks, x)
  <2>1. r \notin Suyos(ks, x)
    BY <1>1, <1>3 DEF Suyos, Libres
  <2> QED BY <1>5, <1>6, <1>8, <1>9, <2>1 DEF Suyos
<1>11. Esperas(ks')
  <2>1. /\ \A i \in 1..Len(q) : q[i] \in Procesos
        /\ \A i \in 1..Len(q) : ks.estado[q[i]] = "BLOCK" \/ SeBloquea(ks, q[i])
        /\ \A i, j \in 1..Len(q) : q[i] = q[j] => i = j
    BY <1>2, ElementOfSeq DEF Esperas, q
  <2>2. \A x \in Procesos : SeBloquea(ks, x) /\ x # r => SeBloquea(ks', x)
    BY <1>6 DEF SeBloquea, r
  <2>3. \A i \in 1..Len(q) : ks'.estado[q[i]] = "BLOCK" \/ SeBloquea(ks', q[i])
    BY <1>9, <2>1, <2>2
  <2>4. ASSUME NEW d \in CPUs, ks'.manejador[d].pc # "libre"
        PROVE  LET x == ks'.manejador[d].pid IN
               ks'.estado[x] = "EXEC" /\ ks'.en[x] = d /\ d \notin ks'.libres
    <3>1. d # c /\ ks'.manejador[d] = ks.manejador[d] /\ ks.manejador[d].pid \in Procesos
      BY <1>2, <1>6, <1>7, <2>4 DEF Hilos
    <3>2. /\ ks.estado[ks.manejador[d].pid] = "EXEC" /\ ks.en[ks.manejador[d].pid] = d
          /\ d \notin ks.libres
      BY <1>2, <2>4, <3>1 DEF Esperas
    <3>3. ks.manejador[d].pid # r
      BY <1>3, <3>1, <3>2
    <3> QED BY <1>5, <1>6, <1>9, <3>1, <3>2, <3>3
  <2> QED BY <1>5, <1>6, <2>1, <2>3, <2>4 DEF Esperas
<1> QED BY <1>1, <1>8, <1>10, <1>11 DEF Turnos, TurnoDe

\* The first in the queue of the mutex is blocked, and no other is it.
LEMMA EsperasDespierta ==
  ASSUME PlanOK(ks), Esperas(ks), ks.cola # <<>>, NEW n \in Nombres,
         ~SeBloquea(ks, Head(ks.cola))
  PROVE  LET h == Head(ks.cola)
             v == [ks EXCEPT !.tomador = n, !.cola = Tail(ks.cola), !.estado[h] = "READY"]
         IN /\ h \in Procesos /\ ks.estado[h] = "BLOCK" /\ Esperas(v)
            /\ v.estado = [ks.estado EXCEPT ![h] = "READY"] /\ v.en = ks.en /\ v.libres = ks.libres
            /\ v.manejador = ks.manejador
<1> DEFINE q == ks.cola
           h == Head(q)
           t == Tail(q)
           v == [ks EXCEPT !.tomador = n, !.cola = t, !.estado[h] = "READY"]
           l == Len(q)
<1>1. q \in Seq(Procesos) /\ ks.estado \in [Procesos -> Estados] /\ ks \in Planes
  BY DEF PlanOK, Planes
<1>2. l \in Nat /\ l # 0 /\ h = q[1] /\ h \in Procesos
  BY <1>1, LenProperties, EmptySeq, HeadTailProperties
<1>3. /\ Len(t) = l - 1
      /\ \A i \in 1..Len(t) : t[i] = q[i + 1]
  BY <1>1, HeadTailProperties
<1>4. \A i \in 1..l : q[i] \in Procesos /\ (ks.estado[q[i]] = "BLOCK" \/ SeBloquea(ks, q[i]))
  BY <1>1, ElementOfSeq DEF Esperas
<1>5. \A i, j \in 1..l : q[i] = q[j] => i = j
  BY DEF Esperas
<1>6. 1 \in 1..l /\ \A i \in 1..(l - 1) : i + 1 \in 1..l /\ i + 1 # 1
  BY <1>2
<1>7. \A i, j \in 1..(l - 1) : i + 1 = j + 1 => i = j
  BY <1>2
<1>8. v.cola = t /\ v.estado = [ks.estado EXCEPT ![h] = "READY"] /\ v.en = ks.en /\ v.libres = ks.libres
      /\ v.manejador = ks.manejador
  BY <1>1 DEF Planes
<1>13. \A r : SeBloquea(v, r) <=> SeBloquea(ks, r)
  BY <1>8 DEF SeBloquea
<1>14. ks.manejador \in [CPUs -> Hilos]
  BY <1>1 DEF Planes
<1>9. ks.estado[h] = "BLOCK"
  BY <1>2, <1>4, <1>6
<1> HIDE DEF t, h, v, q, l
<1>10. \A i \in 1..(l - 1) : v.estado[t[i]] = "BLOCK" \/ SeBloquea(v, t[i])
  <2> TAKE i \in 1..(l - 1)
  <2>1. t[i] = q[i + 1] /\ i + 1 \in 1..l /\ i + 1 # 1
    BY <1>3, <1>6
  <2>2. q[i + 1] # h
    BY <1>2, <1>5, <1>6, <2>1
  <2> QED BY <1>1, <1>4, <1>8, <1>13, <2>1, <2>2
<1>11. \A i, j \in 1..(l - 1) : t[i] = t[j] => i = j
  BY <1>3, <1>5, <1>6, <1>7
<1>15. ASSUME NEW d \in CPUs, v.manejador[d].pc # "libre"
       PROVE  LET r == v.manejador[d].pid IN v.estado[r] = "EXEC" /\ v.en[r] = d /\ d \notin v.libres
  <2> DEFINE r == v.manejador[d].pid
  <2>1. r \in Procesos /\ ks.estado[r] = "EXEC" /\ ks.en[r] = d /\ d \notin ks.libres
    BY <1>8, <1>14, <1>15 DEF Esperas, Hilos
  <2> HIDE DEF r
  <2>2. v.estado[r] = "EXEC" /\ v.en[r] = d /\ d \notin v.libres
    BY <1>1, <1>8, <1>9, <2>1
  <2> QED BY <2>2 DEF r
<1>12. Esperas(v)
  BY <1>3, <1>8, <1>10, <1>11, <1>15 DEF Esperas
<1> QED BY <1>2, <1>8, <1>9, <1>12 DEF v, h, t, q

\* A process that does not run becomes READY.
LEMMA SuyosDespierta ==
  ASSUME PlanOK(ks), NEW p \in Procesos, ks.estado[p] # "EXEC", NEW u,
         u.estado = [ks.estado EXCEPT ![p] = "READY"], u.en = ks.en, u.libres = ks.libres,
         u.manejador = ks.manejador
  PROVE  Libres(u) = Libres(ks) /\ \A x \in CPUs : Suyos(u, x) = Suyos(ks, x)
<1>1. ks.estado \in [Procesos -> Estados]
  BY DEF PlanOK, Planes
<1>2. \A r \in Procesos : u.estado[r] = "EXEC" <=> ks.estado[r] = "EXEC"
  BY <1>1
<1>3. Libres(u) = Libres(ks)
  BY DEF Libres
<1> QED BY <1>2, <1>3 DEF Suyos

\* MUTEX_UNLOCK answers, and wakes up the first that waits.
LEMMA TurnoDe_mutex_unlock ==
  ASSUME Tipos, Turnos, NEW c \in CPUs, mutex_unlock(c), "bloqueo" \notin desvios'
  PROVE  Turnos'
<1> DEFINE p == Head(aKS[c]).pid
           h == Head(ks.cola)
           t == Tail(ks.cola)
<1>1. /\ aKS[c] # <<>> /\ Head(aKS[c]).t = "MUTEX_UNLOCK" /\ Atendido(c) /\ cpu' = cpu
      /\ EscribeCPU(c, "OK", p)
      /\ \/ ks' = ks
         \/ ks' = [ks EXCEPT !.tomador = Nadie]
         \/ /\ ks.cola # <<>> /\ ~SeBloquea(ks, h)
            /\ ks' = [ks EXCEPT !.tomador = h, !.cola = t, !.estado[h] = "READY"]
  BY DEF mutex_unlock, Mensaje, Recibido, SoloKS, Desvio, SinBloquear, SeBloquea
<1>2. PlanOK(ks) /\ ks \in Planes /\ Esperas(ks)
  BY PlanDeKS DEF PlanOK, Turnos
<1>3. Esperas(ks') /\ Libres(ks') = Libres(ks) /\ \A x \in CPUs : Suyos(ks', x) = Suyos(ks, x)
  <2>1. ASSUME ks' = ks \/ ks' = [ks EXCEPT !.tomador = Nadie]
        PROVE  Esperas(ks') /\ Libres(ks') = Libres(ks) /\ \A x \in CPUs : Suyos(ks', x) = Suyos(ks, x)
    <3>1. /\ ks'.estado = ks.estado /\ ks'.en = ks.en /\ ks'.libres = ks.libres /\ ks'.cola = ks.cola
          /\ ks'.manejador = ks.manejador
      BY <1>2, <2>1 DEF Planes
    <3> QED BY <1>2, <3>1 DEF Suyos, Libres, Esperas, SeBloquea
  <2>2. ASSUME ks.cola # <<>>, ~SeBloquea(ks, h),
               ks' = [ks EXCEPT !.tomador = h, !.cola = t, !.estado[h] = "READY"]
        PROVE  Esperas(ks') /\ Libres(ks') = Libres(ks) /\ \A x \in CPUs : Suyos(ks', x) = Suyos(ks, x)
    <3>1. h \in Nombres
      BY <1>2, <2>2, HeadTailProperties DEF Planes, Nombres
    <3>2. /\ h \in Procesos /\ ks.estado[h] = "BLOCK" /\ Esperas(ks')
          /\ ks'.estado = [ks.estado EXCEPT ![h] = "READY"] /\ ks'.en = ks.en /\ ks'.libres = ks.libres
          /\ ks'.manejador = ks.manejador
      BY <1>2, <2>2, <3>1, EsperasDespierta
    <3> HIDE DEF h
    <3>3. Libres(ks') = Libres(ks) /\ \A x \in CPUs : Suyos(ks', x) = Suyos(ks, x)
      BY <1>2, <3>2, SuyosDespierta
    <3> QED BY <3>2, <3>3
  <2> QED BY <1>1, <2>1, <2>2
<1>4. Head(aKS[c]).t \in Llamadas /\ "OK" \in {"OK", "ERROR"}
  BY <1>1 DEF Llamadas
<1> HIDE DEF h, t
<1> QED BY <1>1, <1>3, <1>4, TurnoDeContestar

\* The end of an IO makes a blocked process ready.
LEMMA TurnoDe_finalizar_io ==
  ASSUME Tipos, Turnos, NEW p \in Procesos, finalizar_io_y_desbloquear(p)
  PROVE  Turnos'
<1>1. /\ ks.estado[p] = "BLOCK" /\ ~Contains(ks.cola, p) /\ ks' = [ks EXCEPT !.estado[p] = "READY"]
      /\ cpu' = cpu /\ aKS' = aKS /\ deKS' = deKS
  BY DEF finalizar_io_y_desbloquear, SoloKS
<1>2. PlanOK(ks) /\ ks \in Planes /\ Esperas(ks) /\ ks.estado \in [Procesos -> Estados] /\ ks.cola \in Seq(Procesos)
      /\ ks.manejador \in [CPUs -> Hilos]
  BY PlanDeKS DEF PlanOK, Turnos, Planes
<1>3. /\ ks'.estado = [ks.estado EXCEPT ![p] = "READY"] /\ ks'.en = ks.en /\ ks'.libres = ks.libres
      /\ ks'.cola = ks.cola /\ ks'.manejador = ks.manejador
  BY <1>1, <1>2 DEF Planes
<1>4. Libres(ks') = Libres(ks) /\ \A x \in CPUs : Suyos(ks', x) = Suyos(ks, x)
  BY <1>1, <1>2, <1>3, SuyosDespierta
<1>5. \A i \in 1..Len(ks.cola) : ks.cola[i] # p
  BY <1>1 DEF Contains
<1>7. \A r : SeBloquea(ks', r) <=> SeBloquea(ks, r)
  BY <1>3 DEF SeBloquea
<1>8. ASSUME NEW d \in CPUs, ks'.manejador[d].pc # "libre"
      PROVE  LET r == ks'.manejador[d].pid IN
             ks'.estado[r] = "EXEC" /\ ks'.en[r] = d /\ d \notin ks'.libres
  BY <1>1, <1>2, <1>3, <1>8 DEF Esperas, Hilos
<1>6. Esperas(ks')
  BY <1>2, <1>3, <1>5, <1>7, <1>8 DEF Esperas
<1> QED BY <1>1, <1>3, <1>4, <1>6 DEF Turnos, TurnoDe

\* Every handler of the scheduler keeps the turns.
LEMMA TurnoDe_atender_cpu_ks ==
  ASSUME Tipos, Turnos, EnAvisos, NEW c \in CPUs, atender_cpu_ks(c), "bloqueo" \notin desvios'
  PROVE  Turnos'
<1>0. /\ "READY" \in {"READY", "BLOCK", "EXIT"} /\ "BLOCK" \in {"READY", "BLOCK", "EXIT"}
      /\ "EXIT" \in {"READY", "BLOCK", "EXIT"} /\ "OK" \in {"OK", "ERROR"} /\ "ERROR" \in {"OK", "ERROR"}
  OBVIOUS
<1>1. CASE km_notificar_exit(c)
  BY <1>1 DEF km_notificar_exit, SoloKS, Turnos, TurnoDe
<1>2. CASE finalizar_proceso(c)
  <2>1. /\ aKS[c] # <<>> /\ Head(aKS[c]).t \in {"ATENDIDA", "SLEEP", "DONE", "SEG_FAULT"}
        /\ ks.manejador[c].pc = "libre" /\ ks' = Deja(ks, c, Head(aKS[c]).pid, "EXIT") /\ Atendido(c) /\ cpu' = cpu
        /\ deKS' = deKS \/ EscribeCPU(c, "OK", Head(aKS[c]).pid)
    BY <1>2 DEF finalizar_proceso, Mensaje, Recibido, SoloKS
  <2> QED BY <1>0, <2>1, TurnoDeDejar
<1>3. CASE interrupcionAtendida(c)
  <2>1. /\ aKS[c] # <<>> /\ Head(aKS[c]).t \in {"ATENDIDA", "SLEEP", "DONE", "SEG_FAULT"}
        /\ ks.manejador[c].pc = "libre" /\ ks' = Deja(ks, c, Head(aKS[c]).pid, "READY") /\ Atendido(c) /\ cpu' = cpu
        /\ deKS' = deKS
    BY <1>3 DEF interrupcionAtendida, Mensaje, Recibido, SoloKS
  <2> QED BY <1>0, <2>1, TurnoDeDejar
<1>4. CASE atender_sleep_ks(c)
  <2>1. /\ aKS[c] # <<>> /\ Head(aKS[c]).t \in {"ATENDIDA", "SLEEP", "DONE", "SEG_FAULT"}
        /\ ks.manejador[c].pc = "libre" /\ ks' = Deja(ks, c, Head(aKS[c]).pid, "BLOCK") /\ Atendido(c) /\ cpu' = cpu
        /\ deKS' = deKS
    BY <1>4 DEF atender_sleep_ks, Mensaje, Recibido, SoloKS
  <2> QED BY <1>0, <2>1, TurnoDeDejar
<1>5. CASE memoria(c) \/ sin_memoria(c) \/ crear(c)
  <2>1. /\ aKS[c] # <<>> /\ Head(aKS[c]).t \in Llamadas /\ Atendido(c) /\ cpu' = cpu /\ ks' = ks
        /\ EscribeCPU(c, "OK", Head(aKS[c]).pid) \/ EscribeCPU(c, "ERROR", Head(aKS[c]).pid)
    BY <1>5 DEF memoria, sin_memoria, crear, Mensaje, Recibido, SoloKS, enKM, Llamadas, LlamadasMem
  <2>2. Esperas(ks') /\ (\A x \in CPUs : Suyos(ks', x) = Suyos(ks, x)) /\ Libres(ks') = Libres(ks)
    BY <2>1 DEF Turnos
  <2> QED BY <1>0, <2>1, <2>2, TurnoDeContestar
<1>6. CASE mutex_lock_libre(c) \/ mutex_lock_ocupado(c) \/ avisarBloqueado(c) \/ bloquearPorMutex(c)
  BY <1>6, TurnoDe_mutex_lock_libre, TurnoDe_mutex_lock_ocupado, TurnoDe_avisarBloqueado,
     TurnoDe_bloquearPorMutex
<1>7. CASE mutex_unlock(c)
  BY <1>7, TurnoDe_mutex_unlock
<1> QED BY <1>1, <1>2, <1>3, <1>4, <1>5, <1>6, <1>7 DEF atender_cpu_ks

\* The scheduler gives a free CPU to a process that is ready.
LEMMA TurnoDe_despachar ==
  ASSUME Tipos, Turnos, NEW c \in CPUs, NEW p \in Procesos, despachar(c, p)
  PROVE  Turnos'
<1> DEFINE m == [t |-> "PID", pid |-> p]
           d == deKS[c]
<1>1. /\ c \in ks.libres /\ ks.estado[p] = "READY"
      /\ ks' = [ks EXCEPT !.estado[p] = "EXEC", !.en[p] = c, !.libres = @ \ {c}]
      /\ deKS' = [deKS EXCEPT ![c] = Append(d, m)] /\ cpu' = cpu /\ aKS' = aKS
  BY DEF despachar, EscribeCPU, SoloKS, Tipos, TiposDeCPU
<1>2. TiposDeCPU /\ PlanOK(ks) /\ ks \in Planes /\ Esperas(ks)
  BY PlanDeKS DEF PlanOK, Turnos, Tipos
<1>3. ks.estado \in [Procesos -> Estados] /\ ks.en \in [Procesos -> CPUs \cup {Nadie}] /\ ks.cola \in Seq(Procesos)
      /\ ks.manejador \in [CPUs -> Hilos]
  BY <1>2 DEF Planes
<1>4. /\ ks'.estado = [ks.estado EXCEPT ![p] = "EXEC"] /\ ks'.en = [ks.en EXCEPT ![p] = c]
      /\ ks'.libres = ks.libres \ {c} /\ ks'.cola = ks.cola /\ ks'.manejador = ks.manejador
  BY <1>1, <1>2 DEF Planes
<1>5. \A r \in Procesos : /\ ks'.estado[r] = IF r = p THEN "EXEC" ELSE ks.estado[r]
                          /\ ks'.en[r] = IF r = p THEN c ELSE ks.en[r]
  BY <1>3, <1>4
<1>15. c \in Libres(ks) /\ c \notin Libres(ks')
  BY <1>1, <1>2, <1>4 DEF Libres, Esperas
<1>6. p \in Suyos(ks', c)
  BY <1>5, <1>15 DEF Suyos
<1>7. ASSUME NEW x \in CPUs \ {c}
      PROVE  Suyos(ks', x) = Suyos(ks, x) /\ Libres(ks') \cap {x} = Libres(ks) \cap {x}
  <2>1. Libres(ks') \cap {x} = Libres(ks) \cap {x} /\ (x \in Libres(ks') <=> x \in Libres(ks))
    BY <1>4, <1>7 DEF Libres
  <2>2. \A r \in Procesos : r \in Suyos(ks', x) <=> r \in Suyos(ks, x)
    BY <1>1, <1>5, <1>7, <2>1 DEF Suyos
  <2>3. Suyos(ks', x) = Suyos(ks, x)
    BY <2>2 DEF Suyos
  <2> QED BY <2>1, <2>3
<1>8. Esperas(ks')
  <2>1. \A i \in 1..Len(ks.cola) :
          ks.cola[i] \in Procesos /\ (ks.estado[ks.cola[i]] = "BLOCK" \/ SeBloquea(ks, ks.cola[i]))
    BY <1>2, <1>3, ElementOfSeq DEF Esperas
  <2>3. \A x : SeBloquea(ks', x) <=> SeBloquea(ks, x)
    BY <1>4 DEF SeBloquea
  <2>2. \A i \in 1..Len(ks.cola) : ks'.estado[ks.cola[i]] = "BLOCK" \/ SeBloquea(ks', ks.cola[i])
    BY <1>1, <1>5, <2>1, <2>3
  <2>4. ASSUME NEW e \in CPUs, ks'.manejador[e].pc # "libre"
        PROVE  LET y == ks'.manejador[e].pid IN
               ks'.estado[y] = "EXEC" /\ ks'.en[y] = e /\ e \notin ks'.libres
    <3> DEFINE z == ks'.manejador[e].pid
    <3>1. z \in Procesos /\ ks.estado[z] = "EXEC" /\ ks.en[z] = e /\ e \notin ks.libres
      BY <1>2, <1>3, <1>4, <2>4 DEF Esperas, Hilos
    <3> HIDE DEF z
    <3>2. ks'.estado[z] = "EXEC" /\ ks'.en[z] = e /\ e \notin ks'.libres
      BY <1>1, <1>4, <1>5, <3>1
    <3> QED BY <3>2 DEF z
  <2> QED BY <1>2, <1>4, <2>2, <2>4 DEF Esperas
<1>9. Turno(cpu[c], aKS[c], d, Suyos(ks, c), Libres(ks) \cap {c}) /\ d \in Seq(Ordenes)
  BY <1>2, TurnoEs DEF Turnos
<1>10. m \in Ordenes /\ m.t = "PID" /\ m.pid = p
  BY DEF Ordenes
<1>11. deKS'[c] = Append(d, m) /\ \A x \in CPUs \ {c} : deKS'[x] = deKS[x]
  BY <1>1, <1>2 DEF TiposDeCPU
<1> HIDE DEF m, d
<1>12. Libres(ks) \cap {c} # {} /\ Libres(ks') \cap {c} = {}
  BY <1>15
<1>13. Turno(cpu[c], aKS[c], Append(d, m), Suyos(ks', c), {})
  BY <1>6, <1>9, <1>10, <1>12, TurnoDespacha
<1>14. Turno(cpu'[c], aKS'[c], deKS'[c], Suyos(ks', c), Libres(ks') \cap {c})
  BY <1>1, <1>11, <1>12, <1>13
<1> QED BY <1>1, <1>7, <1>8, <1>11, <1>14, UnTurno

\* A plan that differs in nothing the CPUs can tell.
LEMMA TurnosIguales ==
  ASSUME Turnos, UNCHANGED <<cpu, aKS, deKS>>, ks'.estado = ks.estado, ks'.en = ks.en,
         ks'.libres = ks.libres, ks'.cola = ks.cola, ks'.manejador = ks.manejador
  PROVE  Turnos'
<1>1. Libres(ks') = Libres(ks) /\ \A x \in CPUs : Suyos(ks', x) = Suyos(ks, x)
  BY DEF Suyos, Libres
<1>2. Esperas(ks')
  BY DEF Esperas, SeBloquea, Turnos
<1> QED BY <1>1, <1>2 DEF Turnos, TurnoDe

\* An interrupt is sent, late or not.
LEMMA TurnoDe_enviar_interrupcion_cpu ==
  ASSUME Tipos, Fases, Turnos, NEW i \in DOMAIN ks.interrumpe, enviar_interrupcion_cpu(i)
  PROVE  Turnos'
<1> DEFINE c == ks.interrumpe[i].cpu
           p == ks.interrumpe[i].pid
           m == [t |-> "INTERRUPT", pid |-> p]
           d == deKS[c]
<1>1. /\ c \in CPUs /\ p \in Procesos
      /\ ks'.estado = ks.estado /\ ks'.en = ks.en /\ ks'.libres = ks.libres /\ ks'.cola = ks.cola
      /\ ks'.manejador = ks.manejador
  BY enviar_interrupcion_cpuPaso
<1>2. deKS' = [deKS EXCEPT ![c] = Append(@, m)] /\ cpu' = cpu /\ aKS' = aKS
  BY DEF enviar_interrupcion_cpu, EscribeCPU, SoloKS
<1> HIDE DEF c, p
<1>3. TiposDeCPU /\ m \in Ordenes /\ m.t = "INTERRUPT"
  BY <1>1 DEF Ordenes, Tipos
<1>4. deKS'[c] = Append(d, m) /\ \A x \in CPUs \ {c} : deKS'[x] = deKS[x]
  BY <1>1, <1>2, <1>3 DEF TiposDeCPU
<1>5. Turno(cpu[c], aKS[c], d, Suyos(ks, c), Libres(ks) \cap {c}) /\ d \in Seq(Ordenes)
  BY <1>1, <1>3, TurnoEs
<1> HIDE DEF m, d
<1>6. Turno(cpu[c], aKS[c], Append(d, m), Suyos(ks, c), Libres(ks) \cap {c})
  BY <1>3, <1>5, TurnoInterrumpe
<1>7. (\A x \in CPUs : Suyos(ks', x) = Suyos(ks, x)) /\ Esperas(ks') /\ Libres(ks') = Libres(ks)
  BY <1>1 DEF Suyos, Libres, Esperas, SeBloquea, Turnos
<1> QED BY <1>1, <1>2, <1>4, <1>6, <1>7, UnTurno

\* What a message leaves in a socket as its first.
LEMMA PrimeroQueda ==
  ASSUME NEW S, NEW s \in Seq(S), s # <<>>, NEW m \in S
  PROVE  Append(s, m) # <<>> /\ Head(Append(s, m)) = Head(s)
<1>1. Len(s) \in Nat /\ Len(s) # 0 /\ Append(s, m) \in Seq(S) /\ Len(Append(s, m)) = Len(s) + 1
      /\ \A i \in 1..Len(s) : Append(s, m)[i] = s[i]
  BY AppendProperties, LenProperties, EmptySeq
<1>2. 1 \in 1..Len(s) /\ Len(Append(s, m)) # 0
  BY <1>1
<1>3. Head(s) = s[1] /\ Append(s, m) # <<>> /\ Head(Append(s, m)) = Append(s, m)[1]
  BY <1>1, <1>2, HeadTailProperties, EmptySeq
<1> QED BY <1>1, <1>2, <1>3

\* A CPU only adds to what it has sent.
LEMMA CicloAgrega ==
  ASSUME TiposDeCPU, NEW c \in CPUs, Ciclo(c), TiposDeCPU'
  PROVE  /\ aKS[c] # <<>> => aKS'[c] # <<>> /\ Head(aKS'[c]) = Head(aKS[c])
         /\ \A x \in CPUs \ {c} : aKS'[x] = aKS[x]
<1>1. aKS' = aKS \/ \E tipo : EscribeKS(c, tipo)
  <2>1. CASE esperar_pid(c) \/ recibir_mapa(c) \/ recibirContexto(c) \/ recibirInstruccion(c)
    BY <2>1 DEF esperar_pid, recibir_mapa, recibirContexto, recibirInstruccion, SoloKM
  <2>2. CASE actualizar_tabla_segmentos(c) \/ okExit(c)
    BY <2>2 DEF actualizar_tabla_segmentos, okExit, SoloKM
  <2>3. CASE guardado(c) \/ manejar_seg_fault(c) \/ respuestaKS(c)
    BY <2>3 DEF guardado, manejar_seg_fault, respuestaKS
  <2>4. CASE ejecutar(c)
    <3> QED BY <2>4, ejecutarFormas DEF noop, syscall_sleep, syscall_exit
  <2>5. CASE atender_interrupcion_en_espera(c) \/ atender_interrupcion(c)
    BY <2>5 DEF atender_interrupcion_en_espera, atender_interrupcion
  <2> QED BY <2>1, <2>2, <2>3, <2>4, <2>5 DEF Ciclo
<1>2. CASE aKS' = aKS
  BY <1>2
<1>3. ASSUME NEW tipo, EscribeKS(c, tipo)
      PROVE  /\ aKS[c] # <<>> => aKS'[c] # <<>> /\ Head(aKS'[c]) = Head(aKS[c])
             /\ \A x \in CPUs \ {c} : aKS'[x] = aKS[x]
  <2> DEFINE m == [t |-> tipo, pid |-> cpu[c].pid]
             S == {m} \cup Avisados
  <2>1. aKS'[c] = Append(aKS[c], m) /\ \A x \in CPUs \ {c} : aKS'[x] = aKS[x]
    BY <1>3 DEF EscribeKS, TiposDeCPU
  <2>2. aKS[c] \in Seq(Avisados)
    BY DEF TiposDeCPU
  <2>3. aKS[c] \in Seq(S) /\ m \in S
    BY <2>2, SeqDef
  <2> HIDE DEF m, S
  <2> QED BY <2>1, <2>3, PrimeroQueda
<1> QED BY <1>1, <1>2, <1>3

\* What a thread is to answer stays at the head of its socket until it does.
LEMMA PasoDeAvisos ==
  ASSUME Tipos, Tipos', Fases, Turnos, EnAvisos, [Next]_vars
  PROVE  EnAvisos'
<1>0. TiposDeCPU /\ TiposDeCPU' /\ ks \in Planes /\ PlanOK(ks)
  BY PlanDeKS DEF Tipos, TiposDeProceso
<1>1. ASSUME NEW c \in CPUs, Ciclo(c) PROVE EnAvisos'
  <2>1. ks' = ks
    BY <1>1, CicloProceso
  <2> QED BY <1>0, <1>1, <2>1, CicloAgrega DEF EnAvisos
<1>2. ASSUME aKS' = aKS, ks'.manejador = ks.manejador PROVE EnAvisos'
  BY <1>2 DEF EnAvisos
<1>3. ASSUME NEW c \in CPUs, Atendido(c), ks.manejador[c].pc = "libre", ks'.manejador = ks.manejador
      PROVE  EnAvisos'
  BY <1>0, <1>3 DEF EnAvisos, Atendido, TiposDeCPU
<1>4. ASSUME NEW c \in CPUs, atender_cpu_ks(c) PROVE EnAvisos'
  <2>1. CASE km_notificar_exit(c)
    BY <1>2, <2>1 DEF km_notificar_exit, SoloKS
  <2>2. CASE finalizar_proceso(c) \/ interrupcionAtendida(c) \/ atender_sleep_ks(c)
    <3>1. Atendido(c) /\ ks.manejador[c].pc = "libre"
      BY <2>2 DEF finalizar_proceso, interrupcionAtendida, atender_sleep_ks, Mensaje
    <3>2. \E p, s : ks' = Deja(ks, c, p, s)
      BY <2>2 DEF finalizar_proceso, interrupcionAtendida, atender_sleep_ks
    <3>3. ks'.manejador = ks.manejador
      BY <1>0, <3>2 DEF Deja, Planes
    <3> QED BY <1>3, <3>1, <3>3
  <2>3. CASE mutex_lock_libre(c) \/ mutex_unlock(c)
    <3>1. Atendido(c) /\ ks.manejador[c].pc = "libre"
      BY <2>3 DEF mutex_lock_libre, mutex_unlock, Mensaje
    <3>2. ks'.manejador = ks.manejador
      BY <1>0, <2>3 DEF mutex_lock_libre, mutex_unlock, Planes
    <3> QED BY <1>3, <3>1, <3>2
  <2>4. CASE mutex_lock_ocupado(c)
    BY <2>4, TurnoDe_mutex_lock_ocupado
  <2>5. CASE avisarBloqueado(c)
    <3>1. Atendido(c) /\ ks' = [ks EXCEPT !.manejador[c].pc = "bloquear"]
      BY <2>5 DEF avisarBloqueado
    <3>2. /\ ks'.manejador[c].pc = "bloquear" /\ \A x \in CPUs \ {c} : ks'.manejador[x] = ks.manejador[x]
          /\ \A x \in CPUs \ {c} : aKS'[x] = aKS[x]
      BY <1>0, <3>1 DEF Planes, Hilos, Atendido, TiposDeCPU
    <3> QED BY <3>2 DEF EnAvisos
  <2>6. CASE bloquearPorMutex(c)
    <3> DEFINE u == Deja(ks, c, ks.manejador[c].pid, "BLOCK")
               h == [pc |-> "libre", pid |-> Nadie]
    <3>1. aKS' = aKS /\ ks' = [u EXCEPT !.manejador[c] = h]
      BY <2>6 DEF bloquearPorMutex
    <3>2. u.manejador = ks.manejador /\ DOMAIN u = DOMAIN ks
      BY <1>0 DEF Deja, Planes
    <3>3. h.pc = "libre"
      OBVIOUS
    <3> HIDE DEF u, h
    <3>4. ks'.manejador[c] = h /\ \A x \in CPUs \ {c} : ks'.manejador[x] = ks.manejador[x]
      BY <1>0, <3>1, <3>2 DEF Planes
    <3> QED BY <3>1, <3>3, <3>4 DEF EnAvisos
  <2>7. CASE memoria(c) \/ sin_memoria(c) \/ crear(c)
    <3>1. Atendido(c) /\ ks.manejador[c].pc = "libre" /\ ks' = ks
      BY <2>7 DEF memoria, sin_memoria, crear, Mensaje, enKM
    <3> QED BY <1>3, <3>1
  <2> QED BY <1>4, <2>1, <2>2, <2>3, <2>4, <2>5, <2>6, <2>7 DEF atender_cpu_ks
<1>5. ASSUME NEW c \in CPUs, Sesion(c) PROVE EnAvisos'
  BY <1>2, <1>5, SesionProceso
<1>6. ASSUME NEW c \in CPUs, NEW p \in Procesos, despachar(c, p) PROVE EnAvisos'
  BY <1>0, <1>2, <1>6 DEF despachar, Planes
<1>7. ASSUME NEW p \in Procesos, decidir_interrupcion(p) \/ reubicar(p) \/ finalizar_io_y_desbloquear(p)
      PROVE  EnAvisos'
  BY <1>0, <1>2, <1>7 DEF decidir_interrupcion, reubicar, finalizar_io_y_desbloquear, enCPU, Planes
<1>8. ASSUME NEW i \in DOMAIN ks.interrumpe, enviar_interrupcion_cpu(i) PROVE EnAvisos'
  BY <1>0, <1>2, <1>8 DEF enviar_interrupcion_cpu, Planes
<1>9. CASE avisar \/ notificar_mapa_a_todas(SetToSeq(CPUs)) \/ UNCHANGED vars
  BY <1>2, <1>9 DEF avisar, notificar_mapa_a_todas, enCPU, vars
<1> QED BY <1>1, <1>4, <1>5, <1>6, <1>7, <1>8, <1>9 DEF Next

\* The design, once left, is not come back to.
LEMMA DesviosCrecen == Tipos /\ [Next]_vars => desvios \subseteq desvios'
<1> SUFFICES ASSUME Tipos, [Next]_vars PROVE desvios \subseteq desvios'
  OBVIOUS
<1>1. ASSUME NEW c \in CPUs, Ciclo(c) PROVE desvios \subseteq desvios'
  <2>1. CASE esperar_pid(c) \/ recibir_mapa(c) \/ recibirContexto(c) \/ recibirInstruccion(c)
    BY <2>1 DEF esperar_pid, recibir_mapa, recibirContexto, recibirInstruccion
  <2>2. CASE actualizar_tabla_segmentos(c) \/ ejecutar(c) \/ respuestaKS(c) \/ guardado(c)
    BY <2>2 DEF actualizar_tabla_segmentos, ejecutar, respuestaKS, guardado, Desvio
  <2>3. CASE okExit(c) \/ manejar_seg_fault(c) \/ atender_interrupcion_en_espera(c) \/ atender_interrupcion(c)
    BY <2>3 DEF okExit, manejar_seg_fault, atender_interrupcion_en_espera, atender_interrupcion, Desvio
  <2> QED BY <1>1, <2>1, <2>2, <2>3 DEF Ciclo
<1>2. ASSUME NEW c \in CPUs, Sesion(c) PROVE desvios \subseteq desvios'
  BY <1>2 DEF Sesion, enviar, atender_mensaje_cpu, inicializar_proceso, existe_proceso, manejar_proceso,
     Desvio
<1>3. ASSUME NEW c \in CPUs, atender_cpu_ks(c) PROVE desvios \subseteq desvios'
  <2>1. CASE km_notificar_exit(c) \/ finalizar_proceso(c) \/ interrupcionAtendida(c) \/ atender_sleep_ks(c)
    BY <2>1 DEF km_notificar_exit, finalizar_proceso, interrupcionAtendida, atender_sleep_ks, Desvio
  <2>2. CASE mutex_lock_libre(c) \/ mutex_lock_ocupado(c) \/ avisarBloqueado(c) \/ bloquearPorMutex(c)
    BY <2>2 DEF mutex_lock_libre, mutex_lock_ocupado, avisarBloqueado, bloquearPorMutex
  <2>3. CASE mutex_unlock(c) \/ memoria(c) \/ sin_memoria(c) \/ crear(c)
    BY <2>3 DEF mutex_unlock, memoria, sin_memoria, crear, Desvio
  <2> QED BY <1>3, <2>1, <2>2, <2>3 DEF atender_cpu_ks
<1>4. ASSUME NEW c \in CPUs, NEW p \in Procesos, despachar(c, p) PROVE desvios \subseteq desvios'
  BY <1>4 DEF despachar
<1>5. ASSUME NEW p \in Procesos, decidir_interrupcion(p) \/ reubicar(p) \/ finalizar_io_y_desbloquear(p)
      PROVE  desvios \subseteq desvios'
  BY <1>5 DEF decidir_interrupcion, reubicar, finalizar_io_y_desbloquear, Desvio
<1>6. ASSUME NEW i \in DOMAIN ks.interrumpe, enviar_interrupcion_cpu(i) PROVE desvios \subseteq desvios'
  BY <1>6 DEF enviar_interrupcion_cpu
<1>7. CASE avisar \/ notificar_mapa_a_todas(SetToSeq(CPUs)) \/ UNCHANGED vars
  BY <1>7 DEF avisar, notificar_mapa_a_todas, vars
<1> QED BY <1>1, <1>2, <1>3, <1>4, <1>5, <1>6, <1>7 DEF Next

\* The types, the phases and the turns are inductive as long as the mutex is not handed to a
\* process that is still to be blocked.
EnTurno == "bloqueo" \notin desvios => Turnos /\ EnAvisos
LEMMA PasoDeTurnos == Tipos /\ Fases /\ EnTurno /\ [Next]_vars => EnTurno'
<1> SUFFICES ASSUME Tipos, Fases, EnTurno, [Next]_vars, "bloqueo" \notin desvios' PROVE Turnos' /\ EnAvisos'
  BY DEF EnTurno
<1>0. Turnos /\ EnAvisos /\ Tipos'
  BY DesviosCrecen, PasoDeFases DEF EnTurno
<1>9. SUFFICES Turnos'
  BY <1>0, PasoDeAvisos
<1>1. ASSUME NEW c \in CPUs, Ciclo(c) PROVE Turnos'
  BY <1>0, <1>1, CicloProceso, TurnoDeCiclo DEF Tipos
<1>2. ASSUME NEW c \in CPUs, Sesion(c) PROVE Turnos'
  BY <1>0, <1>2, SesionProceso DEF Turnos, TurnoDe
<1>3. ASSUME NEW p \in Procesos, decidir_interrupcion(p) \/ reubicar(p) PROVE Turnos'
  <2>1. /\ UNCHANGED <<cpu, aKS, deKS>> /\ ks'.estado = ks.estado /\ ks'.en = ks.en
        /\ ks'.libres = ks.libres /\ ks'.cola = ks.cola /\ ks'.manejador = ks.manejador
    BY <1>3 DEF decidir_interrupcion, reubicar, enCPU, Tipos, TiposDeProceso, Planes
  <2> QED BY <1>0, <2>1, TurnosIguales
<1>4. CASE avisar \/ notificar_mapa_a_todas(SetToSeq(CPUs))
  <2>1. UNCHANGED <<cpu, aKS, deKS, ks>>
    BY <1>4 DEF avisar, notificar_mapa_a_todas, enCPU
  <2> QED BY <1>0, <2>1 DEF Turnos, TurnoDe
<1>5. CASE UNCHANGED vars
  BY <1>0, <1>5 DEF vars, Turnos, TurnoDe
<1>6. CASE \E c \in CPUs : Ciclo(c) \/ Sesion(c) \/ atender_cpu_ks(c) \/ \E p \in Procesos : despachar(c, p)
  BY <1>0, <1>1, <1>2, <1>6, TurnoDe_atender_cpu_ks, TurnoDe_despachar
<1>7. CASE \E p \in Procesos : decidir_interrupcion(p) \/ reubicar(p) \/ finalizar_io_y_desbloquear(p)
  BY <1>0, <1>3, <1>7, TurnoDe_finalizar_io
<1>8. CASE \E i \in DOMAIN ks.interrumpe : enviar_interrupcion_cpu(i)
  BY <1>0, <1>8, TurnoDe_enviar_interrupcion_cpu
<1> QED BY <1>4, <1>5, <1>6, <1>7, <1>8 DEF Next

\* They hold at the start.
LEMMA InicioDeTurnos == Init => EnTurno
<1> SUFFICES ASSUME Init PROVE Turnos /\ EnAvisos
  BY DEF EnTurno
<1> DEFINE v == <<>>
<1>0. Len(v) = 0 /\ v = <<>>
  OBVIOUS
<1>1. /\ cpu = [c \in CPUs |-> CPUOciosa] /\ aKS = [c \in CPUs |-> v] /\ deKS = [c \in CPUs |-> v]
      /\ ks.estado = [p \in Procesos |-> "READY"] /\ ks.cola = v
      /\ \A c \in CPUs : ks.manejador[c].pc = "libre"
  BY DEF Init
<1>2. (\A t : ~Hay(v, t)) /\ \A S : Pendientes(v, S)
  BY HayNada, PendientesNada
<1>3. ConBloqueo(v) /\ \A S : ConPID(v, S)
  BY <1>0 DEF ConBloqueo, ConPID
<1>4. Esperas(ks)
  BY <1>0, <1>1 DEF Esperas
<1>5. ASSUME NEW c \in CPUs PROVE TurnoDe(c)
  <2>1. cpu[c].pc = "ocioso" /\ aKS[c] = v /\ deKS[c] = v
    BY <1>1, OciosaTipo
  <2>2. cpu[c].pc \notin EnMarcha /\ ~Corre(cpu[c], v)
    BY <2>1 DEF EnMarcha, Corre
  <2> HIDE DEF v
  <2> QED BY <1>0, <1>2, <1>3, <2>1, <2>2 DEF Turno, TurnoDe
<1>6. EnAvisos
  BY <1>1 DEF EnAvisos
<1> QED BY <1>4, <1>5, <1>6 DEF Turnos

\* As long as the mutex is never handed to a process that a thread has queued and is still to
\* block, between the scheduler and a CPU there is one turn: an order to run, a call or a
\* last message of the process is on its way, never two of them at cross purposes; a CPU that
\* runs a program is the one the scheduler has it on, a CPU that is free has nothing to say,
\* and who waits for the mutex is blocked or about to be.
THEOREM TurnosDeLasCPUs == Spec => [](Tipos /\ Fases /\ ("bloqueo" \notin desvios => Turnos /\ EnAvisos))
<1>1. Init => Tipos /\ Fases /\ EnTurno
  BY InicioDeFases, InicioDeTurnos
<1>2. Tipos /\ Fases /\ EnTurno /\ [Next]_vars => (Tipos /\ Fases /\ EnTurno)'
  BY PasoDeFases, PasoDeTurnos
<1>3. EnTurno <=> ("bloqueo" \notin desvios => Turnos /\ EnAvisos)
  BY DEF EnTurno
<1> QED BY <1>1, <1>2, <1>3, PTL DEF Spec

=============================================================================
