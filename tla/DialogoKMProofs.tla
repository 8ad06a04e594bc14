-------------------------- MODULE DialogoKMProofs --------------------------
(* Proofs about DialogoKM, for any threads and any requests of theirs.      *)
EXTENDS DialogoKM, SequenceTheorems, TLAPS

-----------------------------------------------------------------------------
(* The inductive invariant.                                                 *)

Palabra == [t : {"largo", "cuerpo", "aviso"}, valor : Nat, de : Hilos \cup {Nadie}]
Pedido == [op : Operaciones \cup {"DESALOJO_REALIZADO"}, de : Hilos]
Hebra == [pc : {"libre", "largo", "cuerpo", "desalojo", "vuelve"}, linea : Nat,
          fase : {1, 2}, falta : Nat, valor : Nat \cup {NULO}, compacta : BOOLEAN]

Tipos ==
  /\ hilo \in [Hilos -> Hebra]
  /\ mutexKM \in Hilos \cup {Nadie} /\ enCompactacion \in BOOLEAN
  /\ aKM \in Seq(Pedido) /\ deKM \in Seq(Palabra)
  /\ km \in [pc : {"lee", "espera", "escribe", "fin"}, tras : {"lee", "espera"},
             de : Hilos \cup {Nadie}, envio : Seq(Seq(Palabra)), dormido : BOOLEAN]
  /\ cierre \in {"no", "envia", "cierra", "cerrado"}
  /\ ks \in {"corre", "SIGPIPE", "BSOD"}
  /\ usos \in Nat
  /\ desvios \subseteq {"desalojo", "largo", "cuerpo", "cierre"}

\* Some text that a process may have in its memory has as many bytes as the code of the
\* notice, or that code in one of its words.
HayTextoAviso ==
  \E x \in Textos :
    \/ x.bytes = MEMORIA_CORRUPTA
    \/ \E i \in 1..Palabras(x.bytes) : x.palabras[i] = MEMORIA_CORRUPTA
\* A send has the code of the notice only as the length or as a word of such a text.
SinAviso(send) ==
  \A i \in 1..Len(send) :
    send[i].valor = MEMORIA_CORRUPTA => send[i].t \in TextosAviso /\ HayTextoAviso
\* A frame that looks like the notice has been written.
Dudoso(d) == d \cap TextosAviso # {}
\* What the socket brings is not taken for the notice.
Avisos ==
  /\ \A i \in 1..Len(km.envio) : SinAviso(km.envio[i])
  /\ Dudoso(desvios) => HayTextoAviso
  /\ ~Corrupta /\ ~Dudoso(desvios) =>
       \A i \in 1..Len(deKM) : deKM[i].valor # MEMORIA_CORRUPTA
  /\ ~Corre => Corrupta \/ Dudoso(desvios)

\* Whoever reads holds mutex_km, and a thread that is not free is in one of its requests.
Turnos ==
  /\ \A h \in Hilos : mutexKM = h <=> Leyendo(h)
  /\ \A h \in Hilos : hilo[h].pc # "libre" => hilo[h].linea \in DOMAIN Pedidos[h]
  /\ \A h \in Hilos : EnDesalojo(h) => Operacion(h) = "MEM_ALLOC"
  /\ \A h \in Hilos : hilo[h].fase = 2 => Leyendo(h) /\ Operacion(h) = "STDOUT"
  /\ km.pc # "escribe" => km.envio = <<>>
  /\ Len(km.envio) <= 4
  /\ km.pc = "fin" => Corrupta

\* The words that are still to be read: those of the socket, and those of the sends that
\* Kernel Memory has not made.
Parte(envio, i) == IF i \in 1..Len(envio) THEN envio[i] ELSE <<>>
Junta(palabras, envio) ==
  palabras \o Parte(envio, 1) \o Parte(envio, 2) \o Parte(envio, 3) \o Parte(envio, 4)
Resto == Junta(deKM, km.envio)

\* What the thread of Kernel Memory does once it has nothing left to send.
Sigue(pc) == km.pc = pc \/ (km.pc = "escribe" /\ km.tras = pc)

\* After k words come the length of a text and its words.
Texto(r, k) == Len(r) > k /\ Len(r) = k + 1 + Palabras(r[k + 1].valor)
\* After k words, the last of which is the code c, comes what c announces to the thread.
Cola(h, r, k, c) ==
  /\ IF Operacion(h) = "STDOUT" /\ c = OK THEN Texto(r, k) ELSE Len(r) = k
  /\ IF c = SOLICITAR_DESALOJO
     THEN Operacion(h) = "MEM_ALLOC" /\ Sigue("espera") /\ km.de = h ELSE Sigue("lee")

\* The words to be read are what the thread has not read of the answer to its request.
Responden(h) ==
  LET r == Resto IN
  /\ aKM = <<>>
  /\ \A i \in 1..Len(r) : r[i].de = h
  /\ \/ /\ hilo[h].pc \in {"largo", "vuelve"} /\ hilo[h].fase = 1
        /\ Len(r) > 1 /\ r[1].valor = TamCodigo /\ Cola(h, r, 2, r[2].valor)
     \/ /\ hilo[h].pc = "cuerpo" /\ hilo[h].fase = 1 /\ hilo[h].falta = 1 /\ hilo[h].valor = NULO
        /\ Len(r) > 0 /\ Cola(h, r, 1, r[1].valor)
     \/ /\ hilo[h].pc = "cuerpo" /\ hilo[h].fase = 1 /\ hilo[h].falta = 0
        /\ Cola(h, r, 0, hilo[h].valor)
     \/ /\ hilo[h].pc = "largo" /\ hilo[h].fase = 2 /\ Operacion(h) = "STDOUT"
        /\ Texto(r, 0) /\ Sigue("lee")
     \/ /\ hilo[h].pc = "cuerpo" /\ hilo[h].fase = 2 /\ Operacion(h) = "STDOUT"
        /\ Len(r) = hilo[h].falta /\ Sigue("lee")

\* The request is in the socket.
Pedida(h) ==
  /\ hilo[h].pc = "largo" /\ hilo[h].fase = 1
  /\ aKM = <<[op |-> Operacion(h), de |-> h]>> /\ Resto = <<>> /\ Sigue("lee")
\* The CPUs are being evicted, or they have been and Kernel Memory does not know.
Desalojando(h) ==
  /\ hilo[h].pc = "desalojo" /\ Operacion(h) = "MEM_ALLOC"
  /\ aKM = <<>> /\ Resto = <<>> /\ Sigue("espera") /\ km.de = h
Desalojado(h) ==
  /\ hilo[h].pc \in {"vuelve", "largo"} /\ hilo[h].fase = 1 /\ Operacion(h) = "MEM_ALLOC"
  /\ aKM = <<[op |-> "DESALOJO_REALIZADO", de |-> h]>>
  /\ Resto = <<>> /\ Sigue("espera") /\ km.de = h

EnDialogo(h) == Pedida(h) \/ Responden(h) \/ Desalojando(h) \/ Desalojado(h)
Reposo == aKM = <<>> /\ Resto = <<>> /\ Sigue("lee")

\* As long as nobody asks during an eviction and no stick is lost, one thread at a time is
\* in a dialogue, and the dialogue is in step with the thread of Kernel Memory.
Sincronia ==
  "desalojo" \notin desvios /\ ~Corrupta =>
    /\ \A g, h \in Hilos : hilo[g].pc # "libre" /\ hilo[h].pc # "libre" => g = h
    /\ \A h \in Hilos : hilo[h].pc # "libre" => EnDialogo(h)
    /\ (\A h \in Hilos : hilo[h].pc = "libre") => Reposo

IInv == Tipos /\ Avisos /\ Turnos /\ Sincronia

-----------------------------------------------------------------------------
(* Sequences.                                                               *)

\* What is put behind a sequence leaves its head alone.
LEMMA CabezaDeConcatenacion ==
  ASSUME NEW S, NEW s \in Seq(S), NEW t \in Seq(S), s # <<>>
  PROVE  /\ s \o t # <<>>
         /\ (s \o t)[1] = s[1]
         /\ Tail(s \o t) = Tail(s) \o t
<1>1. Len(s) \in Nat \ {0} /\ Len(t) \in Nat
  BY EmptySeq, LenProperties
<1>2. /\ s \o t \in Seq(S) /\ Len(s \o t) = Len(s) + Len(t)
      /\ \A i \in 1..Len(s) + Len(t) :
           (s \o t)[i] = IF i <= Len(s) THEN s[i] ELSE t[i - Len(s)]
  BY ConcatProperties
<1>3. s \o t # <<>>
  BY <1>1, <1>2, EmptySeq
<1>4. (s \o t)[1] = s[1]
  BY <1>1, <1>2
<1>5. /\ Tail(s) \in Seq(S) /\ Len(Tail(s)) = Len(s) - 1
      /\ \A i \in 1..Len(Tail(s)) : Tail(s)[i] = s[i + 1]
  BY HeadTailProperties
<1>6. /\ Tail(s \o t) \in Seq(S) /\ Len(Tail(s \o t)) = Len(s \o t) - 1
      /\ \A i \in 1..Len(Tail(s \o t)) : Tail(s \o t)[i] = (s \o t)[i + 1]
  BY <1>2, <1>3, HeadTailProperties
<1>7. /\ Tail(s) \o t \in Seq(S) /\ Len(Tail(s) \o t) = Len(Tail(s)) + Len(t)
      /\ \A i \in 1..Len(Tail(s)) + Len(t) :
           (Tail(s) \o t)[i] = IF i <= Len(Tail(s)) THEN Tail(s)[i] ELSE t[i - Len(Tail(s))]
  BY <1>5, ConcatProperties
<1>8. Len(Tail(s \o t)) = Len(Tail(s) \o t)
  BY <1>1, <1>2, <1>5, <1>6, <1>7
<1>9. ASSUME NEW i \in 1..Len(Tail(s \o t))
      PROVE  Tail(s \o t)[i] = (Tail(s) \o t)[i]
  <2>1. i \in Nat /\ i >= 1 /\ i <= Len(s) + Len(t) - 1
    BY <1>1, <1>2, <1>6, <1>9
  <2>2. Tail(s \o t)[i] = IF i + 1 <= Len(s) THEN s[i + 1] ELSE t[i + 1 - Len(s)]
    BY <1>1, <1>2, <1>6, <2>1
  <2>3. (Tail(s) \o t)[i] = IF i <= Len(s) - 1 THEN s[i + 1] ELSE t[i - (Len(s) - 1)]
    BY <1>1, <1>5, <1>7, <2>1
  <2>4. i + 1 - Len(s) = i - (Len(s) - 1) /\ (i + 1 <= Len(s) <=> i <= Len(s) - 1)
    BY <1>1, <2>1
  <2> QED  BY <2>2, <2>3, <2>4
<1>10. Tail(s \o t) = Tail(s) \o t
  BY <1>6, <1>7, <1>8, <1>9, SeqEqual
<1> QED  BY <1>3, <1>4, <1>10

\* Palabras is a natural.
LEMMA PalabrasNat ==
  ASSUME NEW n \in Nat
  PROVE  Palabras(n) \in Nat
BY DEF Palabras

\* A part of a message is a sequence of words of the message.
LEMMA PartesTipo ==
  ASSUME NEW S, NEW e \in Seq(Seq(S)), NEW i \in Nat
  PROVE  Parte(e, i) \in Seq(S)
BY ElementOfSeq, EmptySeq DEF Parte

\* The words that are still to be read begin with those of the socket.
LEMMA JuntaTipo ==
  ASSUME NEW S, NEW p \in Seq(S), NEW e \in Seq(Seq(S))
  PROVE  /\ Junta(p, e) \in Seq(S)
         /\ p # <<>> => /\ Junta(p, e) # <<>> /\ Junta(p, e)[1] = Head(p)
                        /\ Junta(Tail(p), e) = Tail(Junta(p, e))
         /\ Junta(p, e) = <<>> => p = <<>>
<1> DEFINE q1 == p \o Parte(e, 1)
           q2 == q1 \o Parte(e, 2)
           q3 == q2 \o Parte(e, 3)
           q4 == q3 \o Parte(e, 4)
           P(i) == Parte(e, i)
<1>1. P(1) \in Seq(S) /\ P(2) \in Seq(S) /\ P(3) \in Seq(S) /\ P(4) \in Seq(S)
  BY PartesTipo
<1>2. q1 \in Seq(S)
  BY <1>1, ConcatProperties
<1>3. q2 \in Seq(S)
  BY <1>1, <1>2, ConcatProperties
<1>4. q3 \in Seq(S)
  BY <1>1, <1>3, ConcatProperties
<1>5. q4 \in Seq(S)
  BY <1>1, <1>4, ConcatProperties
<1>6. Junta(p, e) = q4
  BY DEF Junta
<1>7. ASSUME p # <<>>
      PROVE  /\ q4 # <<>> /\ q4[1] = Head(p)
             /\ Junta(Tail(p), e) = Tail(q4)
  <2>1. q1 # <<>> /\ q1[1] = p[1] /\ Tail(q1) = Tail(p) \o P(1)
    BY <1>1, <1>7, CabezaDeConcatenacion
  <2>2. q2 # <<>> /\ q2[1] = q1[1] /\ Tail(q2) = Tail(q1) \o P(2)
    <3> DEFINE u == P(2)
    <3>1. u \in Seq(S) /\ q1 \in Seq(S) /\ q1 # <<>> /\ q2 = q1 \o u
      BY <1>1, <1>2, <2>1
    <3> HIDE DEF u, q1, q2
    <3>2. q2 # <<>> /\ q2[1] = q1[1] /\ Tail(q2) = Tail(q1) \o u
      BY <3>1, CabezaDeConcatenacion
    <3> QED BY <3>2 DEF u
  <2>3. q3 # <<>> /\ q3[1] = q2[1] /\ Tail(q3) = Tail(q2) \o P(3)
    <3> DEFINE u == P(3)
    <3>1. u \in Seq(S) /\ q2 \in Seq(S) /\ q2 # <<>> /\ q3 = q2 \o u
      BY <1>1, <1>3, <2>2
    <3> HIDE DEF u, q2, q3
    <3>2. q3 # <<>> /\ q3[1] = q2[1] /\ Tail(q3) = Tail(q2) \o u
      BY <3>1, CabezaDeConcatenacion
    <3> QED BY <3>2 DEF u
  <2>4. q4 # <<>> /\ q4[1] = q3[1] /\ Tail(q4) = Tail(q3) \o P(4)
    <3> DEFINE u == P(4)
    <3>1. u \in Seq(S) /\ q3 \in Seq(S) /\ q3 # <<>> /\ q4 = q3 \o u
      BY <1>1, <1>4, <2>3
    <3> HIDE DEF u, q3, q4
    <3>2. q4 # <<>> /\ q4[1] = q3[1] /\ Tail(q4) = Tail(q3) \o u
      BY <3>1, CabezaDeConcatenacion
    <3> QED BY <3>2 DEF u
  <2>5. Head(p) = p[1]
    OBVIOUS
  <2>6. Junta(Tail(p), e) = Tail(q4)
    BY <2>1, <2>2, <2>3, <2>4 DEF Junta
  <2> QED  BY <2>1, <2>2, <2>3, <2>4, <2>5, <2>6
<1> QED  BY <1>5, <1>6, <1>7

\* A send moves words from Kernel Memory to the socket, and the words still to be read
\* are the same.
LEMMA JuntaEnvio ==
  ASSUME NEW S, NEW p \in Seq(S), NEW e \in Seq(Seq(S)), e # <<>>, Len(e) <= 4
  PROVE  Junta(p \o Head(e), Tail(e)) = Junta(p, e)
<1>1. Len(e) \in Nat \ {0} /\ Head(e) \in Seq(S) /\ Head(e) = e[1]
  BY EmptySeq, HeadTailProperties
<1>2. /\ Tail(e) \in Seq(Seq(S)) /\ Len(Tail(e)) = Len(e) - 1
      /\ \A i \in 1..Len(Tail(e)) : Tail(e)[i] = e[i + 1]
  BY HeadTailProperties
<1>3. Parte(e, 1) = Head(e)
  BY <1>1 DEF Parte
<1>4. ASSUME NEW i \in 1..3
      PROVE  Parte(Tail(e), i) = Parte(e, i + 1)
  BY <1>1, <1>2 DEF Parte
<1>5. Parte(Tail(e), 4) = <<>>
  BY <1>1, <1>2 DEF Parte
<1>6. Parte(Tail(e), 1) = Parte(e, 2) /\ Parte(Tail(e), 2) = Parte(e, 3) /\ Parte(Tail(e), 3) = Parte(e, 4)
  BY <1>4
<1>7. Junta(p, e) \in Seq(S)
  BY JuntaTipo
<1>8. Junta(p, e) \o <<>> = Junta(p, e)
  BY <1>7, ConcatEmptySeq
<1> QED  BY <1>3, <1>5, <1>6, <1>8 DEF Junta

-----------------------------------------------------------------------------
(* Types.                                                                   *)

\* Whatever an answer to a request is, it is one or two frames: four sends at most, none
\* of which has the code of the notice but in the length of a text.
LEMMA RespuestasTipo ==
  ASSUME NEW op \in Operaciones, NEW de \in Hilos \cup {Nadie}, NEW envio \in Respuestas(op, de)
  PROVE  \/ \E c \in {OK, ERROR, SIN_MEMORIA, SEG_FAULT} :
              envio = Codigo(c, de) /\ (op = "STDOUT" => c # OK)
         \/ op = "STDOUT" /\ \E x \in Textos : envio = Codigo(OK, de) \o Datos(x, de)
BY DEF Respuestas, Operaciones, Simples, OK, ERROR, SIN_MEMORIA, SEG_FAULT

\* A code is sent as a length word and one body word.
LEMMA CodigoTipo ==
  ASSUME NEW c \in Nat, NEW de \in Hilos \cup {Nadie}
  PROVE  /\ Codigo(c, de) \in Seq(Seq(Palabra)) /\ Len(Codigo(c, de)) = 2
         /\ Codigo(c, de)[1] = <<[t |-> "largo", valor |-> TamCodigo, de |-> de]>>
         /\ Codigo(c, de)[2] = <<[t |-> "cuerpo", valor |-> c, de |-> de]>>
<1>1. [t |-> "largo", valor |-> TamCodigo, de |-> de] \in Palabra
  BY DEF Palabra, TamCodigo
<1>2. [t |-> "cuerpo", valor |-> c, de |-> de] \in Palabra
  BY DEF Palabra
<1> QED  BY <1>1, <1>2 DEF Codigo, Largo

\* The bytes and the words of a text are naturals.
LEMMA TextoTipo ==
  ASSUME NEW x \in Textos
  PROVE  /\ x.bytes \in Nat /\ Palabras(x.bytes) \in Nat
         /\ \A i \in 1..Palabras(x.bytes) : x.palabras[i] \in Nat
<1>1. x.bytes \in Nat /\ x.palabras \in [1..Palabras(x.bytes) -> Nat]
  BY DialogoKMAssumption
<1>2. Palabras(x.bytes) \in Nat
  BY <1>1, PalabrasNat
<1> QED  BY <1>1, <1>2

\* A text is sent as its length and as many body words as its bytes need.
LEMMA DatosTipo ==
  ASSUME NEW x \in Textos, NEW de \in Hilos \cup {Nadie}
  PROVE  /\ Datos(x, de) \in Seq(Seq(Palabra)) /\ Len(Datos(x, de)) = 2
         /\ Datos(x, de)[1] = <<[t |-> "largo", valor |-> x.bytes, de |-> de]>>
         /\ Datos(x, de)[2] \in Seq(Palabra) /\ Len(Datos(x, de)[2]) = Palabras(x.bytes)
         /\ \A i \in 1..Palabras(x.bytes) :
              Datos(x, de)[2][i] = [t |-> "cuerpo", valor |-> x.palabras[i], de |-> de]
<1> DEFINE n == x.bytes
           palabra(i) == [t |-> "cuerpo", valor |-> x.palabras[i], de |-> de]
           texto == [i \in 1..Palabras(n) |-> palabra(i)]
<1>0. n \in Nat /\ Palabras(n) \in Nat /\ \A i \in 1..Palabras(n) : x.palabras[i] \in Nat
  BY TextoTipo
<1>1. [t |-> "largo", valor |-> n, de |-> de] \in Palabra
  BY <1>0 DEF Palabra
<1>2. \A i \in 1..Palabras(n) : palabra(i) \in Palabra
  BY <1>0 DEF Palabra
<1>4. texto \in Seq(Palabra) /\ Len(texto) = Palabras(n)
      /\ \A i \in 1..Palabras(n) : texto[i] = palabra(i)
  <2> HIDE DEF palabra, n
  <2> QED  BY <1>0, <1>2
<1>5. Datos(x, de) = << <<[t |-> "largo", valor |-> n, de |-> de]>>, texto >>
  BY DEF Datos, Largo
<1> HIDE DEF texto
<1> QED  BY <1>1, <1>4, <1>5

\* A code and a text behind it.
LEMMA CodigoYDatosTipo ==
  ASSUME NEW x \in Textos, NEW de \in Hilos \cup {Nadie}
  PROVE  LET e == Codigo(OK, de) \o Datos(x, de) IN
         /\ e \in Seq(Seq(Palabra)) /\ Len(e) = 4
         /\ e[1] = Codigo(OK, de)[1] /\ e[2] = Codigo(OK, de)[2]
         /\ e[3] = Datos(x, de)[1] /\ e[4] = Datos(x, de)[2]
<1>1. OK \in Nat
  BY DEF OK
<1>2. Codigo(OK, de) \in Seq(Seq(Palabra)) /\ Len(Codigo(OK, de)) = 2
  BY <1>1, CodigoTipo
<1>3. Datos(x, de) \in Seq(Seq(Palabra)) /\ Len(Datos(x, de)) = 2
  BY DatosTipo
<1> DEFINE e == Codigo(OK, de) \o Datos(x, de)
<1>4. /\ e \in Seq(Seq(Palabra)) /\ Len(e) = 4
      /\ \A i \in 1..4 : e[i] = IF i <= 2 THEN Codigo(OK, de)[i] ELSE Datos(x, de)[i - 2]
  <2>1. /\ e \in Seq(Seq(Palabra))
        /\ Len(e) = Len(Codigo(OK, de)) + Len(Datos(x, de))
        /\ \A i \in 1..Len(Codigo(OK, de)) + Len(Datos(x, de)) :
             e[i] = IF i <= Len(Codigo(OK, de)) THEN Codigo(OK, de)[i]
                    ELSE Datos(x, de)[i - Len(Codigo(OK, de))]
    BY <1>2, <1>3, ConcatProperties
  <2> HIDE DEF e
  <2> QED  BY <1>2, <1>3, <2>1
<1>5. /\ e[1] = Codigo(OK, de)[1] /\ e[2] = Codigo(OK, de)[2]
      /\ e[3] = Datos(x, de)[3 - 2] /\ e[4] = Datos(x, de)[4 - 2]
  <2> HIDE DEF e
  <2> QED  BY <1>4
<1> QED  BY <1>4, <1>5

\* What Kernel Memory prepares to send: its type, its size, and the notice nowhere in it.
EnvioBueno(envio) ==
  /\ envio \in Seq(Seq(Palabra)) /\ Len(envio) <= 4
  /\ \A i \in 1..Len(envio) : SinAviso(envio[i])

\* A send of one word that is the code of the notice only as part of such a text.
LEMMA SinAvisoDeUna ==
  ASSUME NEW w, w.valor = MEMORIA_CORRUPTA => w.t \in TextosAviso /\ HayTextoAviso
  PROVE  SinAviso(<<w>>)
<1>1. Len(<<w>>) = 1 /\ <<w>>[1] = w
  OBVIOUS
<1> QED  BY <1>1 DEF SinAviso

\* Neither the length nor the body of a code other than the notice is taken for it.
LEMMA CodigoSinAviso ==
  ASSUME NEW c \in Nat, c # MEMORIA_CORRUPTA, NEW de \in Hilos \cup {Nadie}
  PROVE  SinAviso(Codigo(c, de)[1]) /\ SinAviso(Codigo(c, de)[2])
<1> DEFINE w1 == [t |-> "largo", valor |-> TamCodigo, de |-> de]
           w2 == [t |-> "cuerpo", valor |-> c, de |-> de]
<1>1. w1.valor # MEMORIA_CORRUPTA /\ w2.valor # MEMORIA_CORRUPTA
  BY DEF TamCodigo, MEMORIA_CORRUPTA
<1>2. Codigo(c, de)[1] = <<w1>> /\ Codigo(c, de)[2] = <<w2>>
  BY CodigoTipo
<1> HIDE DEF w1, w2
<1>3. SinAviso(<<w1>>) /\ SinAviso(<<w2>>)
  BY <1>1, SinAvisoDeUna
<1> QED  BY <1>2, <1>3

\* A code other than the notice is a message whose frames are never taken for it.
LEMMA CodigoBueno ==
  ASSUME NEW c \in Nat, c # MEMORIA_CORRUPTA, NEW de \in Hilos \cup {Nadie}
  PROVE  EnvioBueno(Codigo(c, de))
<1>1. SinAviso(Codigo(c, de)[1]) /\ SinAviso(Codigo(c, de)[2])
  BY CodigoSinAviso
<1>2. \A i \in 1..2 : SinAviso(Codigo(c, de)[i])
  BY <1>1
<1>3. Codigo(c, de) \in Seq(Seq(Palabra)) /\ Len(Codigo(c, de)) = 2
  BY CodigoTipo
<1> QED  BY <1>2, <1>3 DEF EnvioBueno

\* Every answer of Kernel Memory is such a message.
LEMMA RespuestasBuenas ==
  ASSUME NEW op \in Operaciones, NEW de \in Hilos \cup {Nadie}, NEW envio \in Respuestas(op, de)
  PROVE  EnvioBueno(envio)
<1>1. CASE \E c \in {OK, ERROR, SIN_MEMORIA, SEG_FAULT} : envio = Codigo(c, de)
  BY <1>1, CodigoBueno DEF OK, ERROR, SIN_MEMORIA, SEG_FAULT, MEMORIA_CORRUPTA
<1>2. ASSUME NEW x \in Textos, envio = Codigo(OK, de) \o Datos(x, de)
      PROVE  EnvioBueno(envio)
  <2>2. OK \in Nat /\ OK # MEMORIA_CORRUPTA
    BY DEF OK, MEMORIA_CORRUPTA
  <2>3. SinAviso(Codigo(OK, de)[1]) /\ SinAviso(Codigo(OK, de)[2])
    BY <2>2, CodigoSinAviso
  <2>4. SinAviso(Datos(x, de)[1])
    <3> DEFINE w == [t |-> "largo", valor |-> x.bytes, de |-> de]
    <3>1. w.valor = MEMORIA_CORRUPTA => w.t \in TextosAviso /\ HayTextoAviso
      BY DEF HayTextoAviso, TextosAviso
    <3>2. Datos(x, de)[1] = <<w>>
      BY DatosTipo
    <3> HIDE DEF w
    <3>3. SinAviso(<<w>>)
      BY <3>1, SinAvisoDeUna
    <3> QED  BY <3>2, <3>3
  <2>5. SinAviso(Datos(x, de)[2])
    <3> DEFINE palabra(i) == [t |-> "cuerpo", valor |-> x.palabras[i], de |-> de]
    <3>0. \A i \in 1..Palabras(x.bytes) : Datos(x, de)[2][i] = palabra(i)
      BY DatosTipo
    <3>1. Len(Datos(x, de)[2]) = Palabras(x.bytes)
      BY DatosTipo
    <3>2. ASSUME NEW i \in 1..Palabras(x.bytes), palabra(i).valor = MEMORIA_CORRUPTA
          PROVE  palabra(i).t \in TextosAviso /\ HayTextoAviso
      BY <3>2 DEF TextosAviso, HayTextoAviso
    <3> HIDE DEF palabra
    <3> QED  BY <3>0, <3>1, <3>2 DEF SinAviso
  <2>6. \A i \in 1..4 : SinAviso(envio[i])
    <3>1. SinAviso(envio[1]) /\ SinAviso(envio[2]) /\ SinAviso(envio[3]) /\ SinAviso(envio[4])
      BY <1>2, <2>3, <2>4, <2>5, CodigoYDatosTipo
    <3> QED  BY <3>1
  <2>7. envio \in Seq(Seq(Palabra)) /\ Len(envio) = 4
    BY <1>2, CodigoYDatosTipo
  <2> QED  BY <2>6, <2>7 DEF EnvioBueno
<1> QED  BY <1>1, <1>2, RespuestasTipo

\* The invariant holds before the first request.
LEMMA InicioTipos == Init => Tipos /\ Avisos /\ Turnos /\ Sincronia
<1> SUFFICES ASSUME Init PROVE Tipos /\ Avisos /\ Turnos /\ Sincronia
  OBVIOUS
<1>1. HiloLibre \in Hebra
  BY DEF HiloLibre, Hebra, NULO
<1>2. Tipos
  <2>1. hilo \in [Hilos -> Hebra]
    BY <1>1 DEF Init
  <2>2. <<>> \in Seq(Pedido) /\ <<>> \in Seq(Palabra) /\ <<>> \in Seq(Seq(Palabra))
    BY EmptySeq
  <2> QED  BY <2>1, <2>2 DEF Init, Tipos
<1>3. Avisos
  BY DEF Init, Avisos, Dudoso, Corre, Corrupta
<1>4. Turnos
  BY DialogoKMAssumption DEF Init, Turnos, Leyendo, EnDesalojo, HiloLibre, Operacion
<1>5. Resto = <<>>
  BY DEF Init, Resto, Junta, Parte
<1>6. Sincronia
  BY <1>5 DEF Init, Sincronia, Reposo, Sigue, HiloLibre
<1> QED  BY <1>2, <1>3, <1>4, <1>6

\* A thread whose request is over is free, and at the next one.
LEMMA TerminadoEs ==
  ASSUME Tipos, NEW h \in Hilos
  PROVE  Terminado(h) \in Hebra /\ Terminado(h).pc = "libre" /\ Terminado(h).fase = 1
<1>1. HiloLibre \in Hebra /\ HiloLibre.pc = "libre" /\ HiloLibre.fase = 1
  BY DEF HiloLibre, Hebra, NULO
<1>2. hilo[h].linea + 1 \in Nat
  BY DEF Tipos, Hebra
<1> DEFINE n == hilo[h].linea + 1
<1> HIDE DEF n
<1>3. /\ [HiloLibre EXCEPT !.linea = n] \in Hebra /\ [HiloLibre EXCEPT !.linea = n].pc = "libre"
      /\ [HiloLibre EXCEPT !.linea = n].fase = 1
  BY <1>1, <1>2 DEF Hebra, n
<1> QED  BY <1>3 DEF Terminado, n

\* What a thread may be after a message has come to it.
LEMMA TrasRecibido ==
  ASSUME Tipos, NEW h \in Hilos, NEW v \in Nat \cup {NULO}, recibido(h, v)
  PROVE  /\ hilo' \in [Hilos -> Hebra]
         /\ mutexKM' \in Hilos \cup {Nadie} /\ enCompactacion' \in BOOLEAN
         /\ \A g \in Hilos : g # h => hilo'[g] = hilo[g]
<1>1. hilo[h] \in Hebra
  BY DEF Tipos
<1>2. Terminado(h) \in Hebra
  BY TerminadoEs
<1>3. /\ [hilo[h] EXCEPT !.pc = "desalojo", !.compacta = TRUE] \in Hebra
      /\ [hilo[h] EXCEPT !.pc = "largo", !.fase = 2] \in Hebra
  BY <1>1 DEF Hebra
<1> QED  BY <1>2, <1>3 DEF recibido, Tipos

\* A step of a thread of the scheduler keeps the types.
LEMMA TiposHilo ==
  ASSUME Tipos, NEW h \in Hilos, Hilo(h)
  PROVE  Tipos'
<1>0. hilo[h] \in Hebra /\ hilo \in [Hilos -> Hebra]
  BY DEF Tipos
<1>1. deKM # <<>> => Head(deKM) \in Palabra /\ Tail(deKM) \in Seq(Palabra)
  BY HeadTailProperties DEF Tipos
<1>2. ASSUME NEW p \in Pedido
      PROVE  Append(aKM, p) \in Seq(Pedido)
  BY AppendProperties DEF Tipos
<1>3. CASE pedir(h)
  <2>1. [op |-> Operacion(h), de |-> h] \in Pedido
    <3>1. hilo[h].linea \in DOMAIN Pedidos[h]
      BY <1>3 DEF pedir
    <3>2. Pedidos[h] \in Seq(Operaciones)
      BY DialogoKMAssumption
    <3>3. Operacion(h) \in Operaciones
      BY <3>1, <3>2, LenProperties, ElementOfSeq DEF Operacion
    <3> QED  BY <3>3 DEF Pedido
  <2>2. aKM' \in Seq(Pedido) /\ ks' \in {"corre", "SIGPIPE", "BSOD"}
    BY <1>2, <1>3, <2>1 DEF pedir, Envia, Tipos
  <2>3. [hilo[h] EXCEPT !.pc = "largo", !.fase = 1] \in Hebra
    BY <1>0 DEF Hebra
  <2>4. hilo' \in [Hilos -> Hebra]
    BY <1>0, <1>3, <2>3 DEF pedir
  <2> QED  BY <1>3, <2>2, <2>4 DEF pedir, SoloHilo, Tipos
<1>4. CASE leerLargo(h)
  <2>1. CASE deKM # <<>> /\ hilo' = [hilo EXCEPT ![h].pc = "cuerpo",
               ![h].falta = Palabras(Head(deKM).valor), ![h].valor = NULO]
             /\ deKM' = Tail(deKM) /\ UNCHANGED <<mutexKM, enCompactacion>>
    <3>1. Palabras(Head(deKM).valor) \in Nat
      BY <1>1, <2>1, PalabrasNat DEF Palabra
    <3>2. [hilo[h] EXCEPT !.pc = "cuerpo", !.falta = Palabras(Head(deKM).valor), !.valor = NULO] \in Hebra
      BY <1>0, <3>1 DEF Hebra
    <3>3. hilo' \in [Hilos -> Hebra]
      BY <1>0, <2>1, <3>2
    <3> QED  BY <1>1, <1>4, <2>1, <3>3 DEF leerLargo, SoloHilo, Tipos
  <2>2. CASE recibido(h, NULO) /\ UNCHANGED deKM
    BY <1>4, <2>2, TrasRecibido DEF leerLargo, SoloHilo, Tipos
  <2> QED  BY <1>4, <2>1, <2>2 DEF leerLargo
<1>5. CASE leerCuerpo(h)
  <2>1. CASE hilo[h].falta > 0 /\ deKM # <<>>
             /\ hilo' = [hilo EXCEPT ![h].falta = @ - 1,
                                     ![h].valor = IF @ = NULO THEN Head(deKM).valor ELSE @]
             /\ deKM' = Tail(deKM) /\ UNCHANGED <<mutexKM, enCompactacion>>
    <3>1. hilo[h].falta - 1 \in Nat /\ Head(deKM).valor \in Nat /\ hilo[h].valor \in Nat \cup {NULO}
      BY <1>0, <1>1, <2>1 DEF Palabra, Hebra
    <3>2. [hilo[h] EXCEPT !.falta = @ - 1,
                          !.valor = IF @ = NULO THEN Head(deKM).valor ELSE @] \in Hebra
      BY <1>0, <3>1 DEF Hebra
    <3>3. hilo' \in [Hilos -> Hebra]
      BY <1>0, <2>1, <3>2
    <3> QED  BY <1>1, <1>5, <2>1, <3>3 DEF leerCuerpo, SoloHilo, Tipos
  <2>2. CASE recibido(h, hilo[h].valor) /\ UNCHANGED deKM
    <3>1. hilo[h].valor \in Nat \cup {NULO}
      BY <1>0 DEF Hebra
    <3> QED  BY <1>5, <2>2, <3>1, TrasRecibido DEF leerCuerpo, SoloHilo, Tipos
  <2> QED  BY <1>5, <2>1, <2>2 DEF leerCuerpo
<1>6. CASE manejar_solicitud_desalojo(h)
  <2>1. [op |-> "DESALOJO_REALIZADO", de |-> h] \in Pedido
    BY DEF Pedido
  <2>2. aKM' \in Seq(Pedido) /\ ks' \in {"corre", "SIGPIPE", "BSOD"}
    BY <1>2, <1>6, <2>1 DEF manejar_solicitud_desalojo, Envia, Tipos
  <2>3. [hilo[h] EXCEPT !.pc = "vuelve"] \in Hebra
    BY <1>0 DEF Hebra
  <2>4. hilo' \in [Hilos -> Hebra]
    BY <1>0, <1>6, <2>3 DEF manejar_solicitud_desalojo
  <2> QED  BY <1>6, <2>2, <2>4 DEF manejar_solicitud_desalojo, SoloHilo, Tipos
<1>7. CASE seguirEsperando(h)
  <2>1. [hilo[h] EXCEPT !.pc = "largo"] \in Hebra
    BY <1>0 DEF Hebra
  <2>2. hilo' \in [Hilos -> Hebra]
    BY <1>0, <1>7, <2>1 DEF seguirEsperando
  <2> QED  BY <1>7, <2>2 DEF seguirEsperando, SoloHilo, Tipos
<1> QED  BY <1>3, <1>4, <1>5, <1>6, <1>7 DEF Hilo


\* What a send leaves recorded: nothing if none of its words is the code of the notice, and
\* only if some text looks like it.
LEMMA ConfundeEs ==
  ASSUME NEW send \in Seq(Palabra), SinAviso(send)
  PROVE  /\ Confunde(send) \subseteq TextosAviso
         /\ Confunde(send) # {} => HayTextoAviso
         /\ Confunde(send) = {} => \A i \in 1..Len(send) : send[i].valor # MEMORIA_CORRUPTA
BY DEF Confunde, SinAviso

\* What is left to send of a good message is one.
LEMMA EnvioCola ==
  ASSUME NEW e, EnvioBueno(e), e # <<>>
  PROVE  EnvioBueno(Tail(e)) /\ Head(e) \in Seq(Palabra) /\ Head(e) = e[1] /\ SinAviso(Head(e))
<1>1. e \in Seq(Seq(Palabra)) /\ Len(e) \in Nat \ {0} /\ Len(e) <= 4
  BY EmptySeq DEF EnvioBueno
<1>2. /\ Tail(e) \in Seq(Seq(Palabra)) /\ Len(Tail(e)) = Len(e) - 1
      /\ \A i \in 1..Len(Tail(e)) : Tail(e)[i] = e[i + 1]
      /\ Head(e) \in Seq(Palabra)
  BY <1>1, HeadTailProperties
<1>3. \A i \in 1..Len(e) : SinAviso(e[i])
  BY DEF EnvioBueno
<1>4. ASSUME NEW i \in 1..Len(Tail(e))
      PROVE  SinAviso(Tail(e)[i])
  <2>1. i + 1 \in 1..Len(e)
    BY <1>1, <1>2
  <2> QED  BY <1>2, <1>3, <2>1
<1>5. Head(e) = e[1]
  OBVIOUS
<1>6. 1 \in 1..Len(e)
  BY <1>1
<1> QED  BY <1>1, <1>2, <1>3, <1>4, <1>5, <1>6 DEF EnvioBueno

\* What Kernel Memory is about to send, and the step it goes on with.
LEMMA RespondeTipo ==
  ASSUME Tipos, NEW de \in Hilos \cup {Nadie}, NEW envio, EnvioBueno(envio),
         NEW tras \in {"lee", "espera"}, Responde(de, envio, tras)
  PROVE  /\ km' \in [pc : {"lee", "espera", "escribe", "fin"}, tras : {"lee", "espera"},
                     de : Hilos \cup {Nadie}, envio : Seq(Seq(Palabra)), dormido : BOOLEAN]
         /\ km'.pc = "escribe" /\ km'.tras = tras /\ km'.de = de /\ km'.envio = envio
BY DEF Tipos, Responde, EnvioBueno

\* What Kernel Memory reads is a request.
LEMMA RecibeTipo ==
  ASSUME Tipos, NEW pc, Recibe(pc)
  PROVE  Head(aKM) \in Pedido /\ aKM' \in Seq(Pedido)
BY HeadTailProperties DEF Tipos, Recibe

\* A step of the connection handler of Kernel Memory keeps the types.
LEMMA TiposManejador ==
  ASSUME Tipos, EnvioBueno(km.envio), Manejador
  PROVE  Tipos' /\ EnvioBueno(km'.envio)
<1>1. CASE atender_kernel_scheduler
  <2>1. Head(aKM) \in Pedido /\ aKM' \in Seq(Pedido)
    BY <1>1, RecibeTipo DEF atender_kernel_scheduler
  <2>2. ASSUME NEW envio \in Respuestas(Head(aKM).op, Head(aKM).de), Head(aKM).op \in Operaciones,
               Responde(Head(aKM).de, envio, "lee")
        PROVE  Tipos' /\ EnvioBueno(km'.envio)
    <3>1. Head(aKM).de \in Hilos \cup {Nadie}
      BY <2>1 DEF Pedido
    <3>2. EnvioBueno(envio)
      BY <2>2, <3>1, RespuestasBuenas
    <3> QED  BY <1>1, <2>1, <2>2, <3>1, <3>2, RespondeTipo DEF atender_kernel_scheduler, SoloKM, Tipos
  <2>3. CASE UNCHANGED km
    BY <1>1, <2>1, <2>3 DEF atender_kernel_scheduler, SoloKM, Tipos
  <2> QED  BY <1>1, <2>2, <2>3 DEF atender_kernel_scheduler
<1>2. CASE solicitar_desalojo_por_compactacion
  <2>1. Head(aKM) \in Pedido /\ aKM' \in Seq(Pedido)
    BY <1>2, RecibeTipo DEF solicitar_desalojo_por_compactacion
  <2>2. Head(aKM).de \in Hilos \cup {Nadie}
    BY <2>1 DEF Pedido
  <2>3. SOLICITAR_DESALOJO \in Nat /\ SOLICITAR_DESALOJO # MEMORIA_CORRUPTA
    BY DEF SOLICITAR_DESALOJO, MEMORIA_CORRUPTA
  <2>4. EnvioBueno(Codigo(SOLICITAR_DESALOJO, Head(aKM).de))
    BY <2>2, <2>3, CodigoBueno
  <2>5. usos' \in Nat
    BY <1>2 DEF solicitar_desalojo_por_compactacion, Tipos
  <2> QED  BY <1>2, <2>1, <2>2, <2>4, <2>5, RespondeTipo
             DEF solicitar_desalojo_por_compactacion, SoloKM, Tipos
<1>3. CASE atender_creacion_segmento
  <2>1. Head(aKM) \in Pedido /\ aKM' \in Seq(Pedido)
    BY <1>3, RecibeTipo DEF atender_creacion_segmento
  <2>2. km.de \in Hilos \cup {Nadie}
    BY DEF Tipos
  <2>3. PICK envio \in IF Head(aKM).op = "DESALOJO_REALIZADO" THEN Respuestas("MEM_ALLOC", km.de)
                       ELSE {Codigo(ERROR, km.de)} : Responde(km.de, envio, "lee")
    BY <1>3 DEF atender_creacion_segmento
  <2>4. EnvioBueno(Codigo(ERROR, km.de))
    BY <2>2, CodigoBueno DEF ERROR, MEMORIA_CORRUPTA
  <2>5. EnvioBueno(envio)
    BY <2>2, <2>3, <2>4, RespuestasBuenas DEF Operaciones
  <2> QED  BY <1>3, <2>1, <2>2, <2>3, <2>5, RespondeTipo DEF atender_creacion_segmento, SoloKM, Tipos
<1>4. CASE enviar_mensaje
  <2>1. CASE km.envio = <<>>
    <3>1. km' = [km EXCEPT !.pc = km.tras] /\ UNCHANGED <<deKM, desvios>>
      BY <1>4, <2>1 DEF enviar_mensaje
    <3>2. km'.envio = km.envio
      BY <3>1 DEF Tipos
    <3> QED  BY <1>4, <3>1, <3>2 DEF enviar_mensaje, SoloKM, Tipos
  <2>2. CASE km.envio # <<>>
    <3>1. EnvioBueno(Tail(km.envio)) /\ Head(km.envio) \in Seq(Palabra)
      BY <2>2, EnvioCola
    <3>0. SinAviso(Head(km.envio))
      BY <2>2, EnvioCola
    <3>2. km' = [km EXCEPT !.envio = Tail(@)]
      BY <1>4, <2>2 DEF enviar_mensaje
    <3>3. km'.envio = Tail(km.envio) /\ Tail(km.envio) \in Seq(Seq(Palabra))
      BY <3>1, <3>2 DEF Tipos, EnvioBueno
    <3>4. deKM \o Head(km.envio) \in Seq(Palabra)
      BY <3>1, ConcatProperties DEF Tipos
    <3>5. deKM' \in Seq(Palabra)
      BY <1>4, <2>2, <3>4 DEF enviar_mensaje, Tipos
    <3>6. desvios' \subseteq {"desalojo", "largo", "cuerpo", "cierre"}
      <4>1. desvios' = desvios \cup Confunde(Head(km.envio))
        BY <1>4, <2>2 DEF enviar_mensaje
      <4>2. Confunde(Head(km.envio)) \subseteq TextosAviso
        BY <3>0, <3>1, ConfundeEs
      <4> QED  BY <4>1, <4>2 DEF Tipos, TextosAviso
    <3> QED  BY <1>4, <3>1, <3>2, <3>3, <3>5, <3>6 DEF enviar_mensaje, SoloKM, Tipos
  <2> QED  BY <2>1, <2>2
<1>5. CASE terminar
  BY <1>5 DEF terminar, SoloKM, Tipos
<1> QED  BY <1>1, <1>2, <1>3, <1>4, <1>5 DEF Manejador

\* The monitor, the notifier and the loss of a stick keep the types.
LEMMA TiposResto ==
  ASSUME Tipos, EnvioBueno(km.envio), hilo_monitor_km \/ perderStick \/ Notificador
  PROVE  Tipos' /\ km'.envio = km.envio
<1>1. CASE hilo_monitor_km
  BY <1>1 DEF hilo_monitor_km, SoloHilo, Tipos
<1>2. CASE perderStick
  BY <1>2 DEF perderStick, Tipos
<1>3. CASE notificar_memoria_corrupta_a_ks
  <2>1. [t |-> "aviso", valor |-> MEMORIA_CORRUPTA, de |-> Nadie] \in Palabra
    BY DEF Palabra, MEMORIA_CORRUPTA
  <2>2. deKM' \in Seq(Palabra)
    BY <1>3, <2>1, AppendProperties DEF notificar_memoria_corrupta_a_ks, Tipos
  <2> QED  BY <1>3, <2>2 DEF notificar_memoria_corrupta_a_ks, Tipos
<1>4. CASE cerrar
  BY <1>4 DEF cerrar, Tipos
<1> QED  BY <1>1, <1>2, <1>3, <1>4 DEF Notificador


-----------------------------------------------------------------------------
(* The turns of the threads, and the notice.                                *)

\* Kernel Memory only ever has a good message to send.
LEMMA EnvioDeKM ==
  ASSUME Tipos, Avisos, Turnos
  PROVE  EnvioBueno(km.envio)
BY DEF Tipos, Avisos, Turnos, EnvioBueno

\* A step of one thread keeps the turns if it leaves mutex_km to that thread or to nobody.
LEMMA TurnosDeUno ==
  ASSUME Tipos, Turnos, NEW h \in Hilos,
         \A g \in Hilos : g # h => hilo'[g] = hilo[g],
         mutexKM \in {Nadie, h}, mutexKM' = IF Leyendo(h)' THEN h ELSE Nadie,
         hilo'[h].pc # "libre" =>
           hilo[h].linea \in DOMAIN Pedidos[h] /\ hilo'[h].linea = hilo[h].linea,
         EnDesalojo(h)' => Operacion(h) = "MEM_ALLOC",
         hilo'[h].fase = 2 => Leyendo(h)' /\ Operacion(h) = "STDOUT",
         km' = km, cierre' = cierre
  PROVE  Turnos'
<1>1. \A g \in Hilos : g # h => ~Leyendo(g)
  BY DialogoKMAssumption DEF Turnos
<1>2. \A g \in Hilos : (mutexKM' = g <=> Leyendo(g)')
  BY <1>1, DialogoKMAssumption DEF Leyendo
<1>3. \A g \in Hilos : (hilo[g].pc # "libre" => hilo[g].linea \in DOMAIN Pedidos[g])'
  BY DEF Turnos
<1>4. hilo'[h].pc # "libre" => Operacion(h)' = Operacion(h)
  BY DEF Operacion
<1>5. \A g \in Hilos : (EnDesalojo(g) => Operacion(g) = "MEM_ALLOC")'
  BY <1>4 DEF Turnos, EnDesalojo, Operacion
<1>6. \A g \in Hilos : (hilo[g].fase = 2 => Leyendo(g) /\ Operacion(g) = "STDOUT")'
  BY <1>4 DEF Turnos, Leyendo, Operacion
<1> QED  BY <1>2, <1>3, <1>5, <1>6 DEF Turnos, Corrupta

\* A thread that reads its answer keeps the turns: it goes on, or gives mutex_km back.
LEMMA TurnosRecibido ==
  ASSUME Tipos, Turnos, NEW h \in Hilos, Leyendo(h), NEW v \in Nat \cup {NULO}, recibido(h, v),
         km' = km, cierre' = cierre
  PROVE  Turnos'
<1>1. mutexKM = h /\ hilo[h].linea \in DOMAIN Pedidos[h]
  BY DEF Turnos, Leyendo
<1>2. hilo[h] \in Hebra /\ hilo \in [Hilos -> Hebra]
  BY DEF Tipos
<1>3. \A g \in Hilos : g # h => hilo'[g] = hilo[g]
  BY TrasRecibido
<1>4. CASE Operacion(h) = "MEM_ALLOC" /\ v = SOLICITAR_DESALOJO
  <2>1. hilo' = [hilo EXCEPT ![h].pc = "desalojo", ![h].compacta = TRUE] /\ mutexKM' = Nadie
    BY <1>4 DEF recibido
  <2>2. /\ hilo'[h].pc = "desalojo" /\ hilo'[h].linea = hilo[h].linea
        /\ hilo'[h].fase = hilo[h].fase
    BY <1>2, <2>1 DEF Hebra
  <2>3. hilo[h].fase # 2
    BY <1>4 DEF Turnos
  <2> QED  BY <1>1, <1>3, <1>4, <2>1, <2>2, <2>3, TurnosDeUno DEF Leyendo
<1>5. CASE /\ ~(Operacion(h) = "MEM_ALLOC" /\ v = SOLICITAR_DESALOJO)
           /\ Operacion(h) = "STDOUT" /\ hilo[h].fase = 1 /\ v = OK
  <2>1. hilo' = [hilo EXCEPT ![h].pc = "largo", ![h].fase = 2] /\ mutexKM' = mutexKM
    BY <1>5 DEF recibido
  <2>2. hilo'[h].pc = "largo" /\ hilo'[h].linea = hilo[h].linea
    BY <1>2, <2>1 DEF Hebra
  <2> QED  BY <1>1, <1>3, <1>5, <2>1, <2>2, TurnosDeUno DEF Leyendo, EnDesalojo
<1>6. CASE /\ ~(Operacion(h) = "MEM_ALLOC" /\ v = SOLICITAR_DESALOJO)
           /\ ~(Operacion(h) = "STDOUT" /\ hilo[h].fase = 1 /\ v = OK)
  <2>1. hilo' = [hilo EXCEPT ![h] = Terminado(h)] /\ mutexKM' = Nadie
    BY <1>6 DEF recibido
  <2>2. hilo'[h].pc = "libre" /\ hilo'[h].fase = 1
    BY <1>2, <2>1, TerminadoEs
  <2> QED  BY <1>1, <1>3, <2>1, <2>2, TurnosDeUno DEF Leyendo, EnDesalojo
<1> QED  BY <1>4, <1>5, <1>6

\* Turns, steps of a thread: mutex_km is taken before a request and given back after its answer.
LEMMA TurnosHilo ==
  ASSUME Tipos, Turnos, NEW h \in Hilos, Hilo(h)
  PROVE  Turnos'
<1>1. hilo[h] \in Hebra /\ hilo \in [Hilos -> Hebra]
  BY DEF Tipos
<1>2. CASE pedir(h)
  <2>1. /\ hilo'[h].pc = "largo" /\ hilo'[h].fase = 1 /\ hilo'[h].linea = hilo[h].linea
        /\ \A g \in Hilos : g # h => hilo'[g] = hilo[g]
    BY <1>1, <1>2 DEF pedir, Hebra
  <2>2. /\ Leyendo(h)' /\ ~EnDesalojo(h)' /\ mutexKM' = h /\ mutexKM = Nadie
        /\ km' = km /\ cierre' = cierre /\ hilo[h].linea \in DOMAIN Pedidos[h]
    BY <1>2, <2>1 DEF pedir, SoloHilo, Leyendo, EnDesalojo
  <2> QED  BY <2>1, <2>2, TurnosDeUno
<1>3. CASE leerLargo(h)
  <2>1. CASE hilo' = [hilo EXCEPT ![h].pc = "cuerpo",
               ![h].falta = Palabras(Head(deKM).valor), ![h].valor = NULO]
             /\ UNCHANGED <<mutexKM, enCompactacion>>
    <3>1. /\ hilo'[h].pc = "cuerpo" /\ hilo'[h].fase = hilo[h].fase
          /\ hilo'[h].linea = hilo[h].linea
          /\ \A g \in Hilos : g # h => hilo'[g] = hilo[g]
      BY <1>1, <2>1 DEF Hebra
    <3>2. Leyendo(h) /\ mutexKM = h /\ hilo[h].linea \in DOMAIN Pedidos[h]
      BY <1>3 DEF leerLargo, Leyendo, Turnos
    <3>3. Leyendo(h)' /\ ~EnDesalojo(h)' /\ mutexKM' = h /\ km' = km /\ cierre' = cierre
      BY <1>3, <2>1, <3>1, <3>2 DEF leerLargo, SoloHilo, Leyendo, EnDesalojo
    <3>4. hilo'[h].fase = 2 => Operacion(h) = "STDOUT"
      BY <3>1 DEF Turnos
    <3> QED  BY <3>1, <3>2, <3>3, <3>4, TurnosDeUno
  <2>2. CASE recibido(h, NULO)
    BY <1>3, <2>2, TurnosRecibido DEF leerLargo, SoloHilo, Leyendo
  <2> QED  BY <1>3, <2>1, <2>2 DEF leerLargo
<1>4. CASE leerCuerpo(h)
  <2>1. CASE hilo' = [hilo EXCEPT ![h].falta = @ - 1,
                                  ![h].valor = IF @ = NULO THEN Head(deKM).valor ELSE @]
             /\ UNCHANGED <<mutexKM, enCompactacion>>
    <3>1. /\ hilo'[h].pc = hilo[h].pc /\ hilo'[h].fase = hilo[h].fase
          /\ hilo'[h].linea = hilo[h].linea
          /\ \A g \in Hilos : g # h => hilo'[g] = hilo[g]
      BY <1>1, <2>1 DEF Hebra
    <3>2. hilo[h].pc = "cuerpo" /\ Leyendo(h) /\ mutexKM = h /\ hilo[h].linea \in DOMAIN Pedidos[h]
      BY <1>4 DEF leerCuerpo, Leyendo, Turnos
    <3>3. Leyendo(h)' /\ ~EnDesalojo(h)' /\ mutexKM' = h /\ km' = km /\ cierre' = cierre
      BY <1>4, <2>1, <3>1, <3>2 DEF leerCuerpo, SoloHilo, Leyendo, EnDesalojo
    <3>4. hilo'[h].fase = 2 => Operacion(h) = "STDOUT"
      BY <3>1 DEF Turnos
    <3> QED  BY <3>1, <3>2, <3>3, <3>4, TurnosDeUno
  <2>2. CASE recibido(h, hilo[h].valor)
    <3>1. hilo[h].valor \in Nat \cup {NULO}
      BY <1>1 DEF Hebra
    <3> QED  BY <1>4, <2>2, <3>1, TurnosRecibido DEF leerCuerpo, SoloHilo, Leyendo
  <2> QED  BY <1>4, <2>1, <2>2 DEF leerCuerpo
<1>5. CASE manejar_solicitud_desalojo(h)
  <2>1. /\ hilo'[h].pc = "vuelve" /\ hilo'[h].fase = hilo[h].fase /\ hilo'[h].linea = hilo[h].linea
        /\ \A g \in Hilos : g # h => hilo'[g] = hilo[g]
    BY <1>1, <1>5 DEF manejar_solicitud_desalojo, Hebra
  <2>2. hilo[h].fase # 2 /\ hilo[h].linea \in DOMAIN Pedidos[h] /\ Operacion(h) = "MEM_ALLOC"
    BY <1>5 DEF manejar_solicitud_desalojo, Turnos, Leyendo, EnDesalojo
  <2> QED  BY <1>5, <2>1, <2>2, TurnosDeUno
             DEF manejar_solicitud_desalojo, SoloHilo, Leyendo, EnDesalojo
<1>6. CASE seguirEsperando(h)
  <2>1. /\ hilo'[h].pc = "largo" /\ hilo'[h].fase = hilo[h].fase /\ hilo'[h].linea = hilo[h].linea
        /\ \A g \in Hilos : g # h => hilo'[g] = hilo[g]
    BY <1>1, <1>6 DEF seguirEsperando, Hebra
  <2>2. hilo[h].fase # 2 /\ hilo[h].linea \in DOMAIN Pedidos[h] /\ Operacion(h) = "MEM_ALLOC"
    BY <1>6 DEF seguirEsperando, Turnos, Leyendo, EnDesalojo
  <2> QED  BY <1>6, <2>1, <2>2, TurnosDeUno
             DEF seguirEsperando, SoloHilo, Leyendo, EnDesalojo
<1> QED  BY <1>2, <1>3, <1>4, <1>5, <1>6 DEF Hilo

\* The turns of the threads are theirs alone: of Kernel Memory they need its sends.
LEMMA TurnosSinHilo ==
  ASSUME Turnos, hilo' = hilo, mutexKM' = mutexKM, km'.pc # "escribe" => km'.envio = <<>>,
         Len(km'.envio) <= 4, km'.pc = "fin" => Corrupta'
  PROVE  Turnos'
BY DEF Turnos, Leyendo, EnDesalojo, Operacion

\* Turns, steps of the handler of Kernel Memory, which touches no mutex of the scheduler.
LEMMA TurnosManejador ==
  ASSUME Tipos, Avisos, Turnos, Manejador
  PROVE  Turnos'
<1>0. EnvioBueno(km.envio) /\ EnvioBueno(km'.envio)
  BY EnvioDeKM, TiposManejador
<1>1. hilo' = hilo /\ mutexKM' = mutexKM /\ cierre' = cierre
  BY DEF Manejador, atender_kernel_scheduler, solicitar_desalojo_por_compactacion,
     atender_creacion_segmento, enviar_mensaje, terminar, SoloKM
<1>2. Len(km'.envio) <= 4
  BY <1>0 DEF EnvioBueno
<1>3. (km'.pc # "escribe" => km'.envio = <<>>) /\ (km'.pc = "fin" => Corrupta')
  <2>1. CASE atender_kernel_scheduler
    <3>1. km' = km \/ \E de, envio, tras : Responde(de, envio, tras)
      BY <2>1 DEF atender_kernel_scheduler
    <3>2. CASE km' = km
      BY <1>1, <3>2 DEF Turnos, Corrupta
    <3>3. CASE \E de, envio, tras : Responde(de, envio, tras)
      BY <3>3 DEF Responde, Tipos
    <3> QED  BY <3>1, <3>2, <3>3
  <2>2. CASE solicitar_desalojo_por_compactacion
    BY <2>2 DEF solicitar_desalojo_por_compactacion, Responde, Tipos
  <2>3. CASE atender_creacion_segmento
    BY <2>3 DEF atender_creacion_segmento, Responde, Tipos
  <2>4. CASE enviar_mensaje
    <3>1. km.pc = "escribe" /\ km.tras # "fin"
      BY <2>4 DEF enviar_mensaje, Tipos
    <3>2. CASE km.envio = <<>>
      BY <2>4, <3>1, <3>2 DEF enviar_mensaje, Tipos
    <3>3. CASE km.envio # <<>>
      BY <2>4, <3>1, <3>3 DEF enviar_mensaje, Tipos
    <3> QED  BY <3>2, <3>3
  <2>5. CASE terminar
    <3>1. km' = [km EXCEPT !.pc = "fin", !.dormido = FALSE] /\ km.envio = <<>> /\ cierre # "no"
      BY <2>5 DEF terminar, Turnos
    <3>2. km'.envio = <<>>
      BY <3>1 DEF Tipos
    <3> QED  BY <1>1, <3>1, <3>2 DEF Corrupta
  <2> QED  BY <2>1, <2>2, <2>3, <2>4, <2>5 DEF Manejador
<1> QED  BY <1>1, <1>2, <1>3, TurnosSinHilo

\* Turns, steps of the monitor, the notifier and the loss of a stick.
LEMMA TurnosResto ==
  ASSUME Tipos, Turnos, hilo_monitor_km \/ perderStick \/ Notificador
  PROVE  Turnos'
<1>1. hilo' = hilo /\ mutexKM' = mutexKM /\ km'.envio = km.envio /\ km'.pc = km.pc
      /\ (Corrupta => Corrupta')
  BY DEF hilo_monitor_km, perderStick, Notificador, notificar_memoria_corrupta_a_ks, cerrar,
     SoloHilo, Tipos, Corrupta
<1> QED  BY <1>1, TurnosSinHilo DEF Turnos


\* A socket that has no notice in it has none in what is left of it.
LEMMA SinAvisoEnLaCola ==
  ASSUME NEW s \in Seq(Palabra), s # <<>>,
         \A i \in 1..Len(s) : s[i].valor # MEMORIA_CORRUPTA
  PROVE  \A i \in 1..Len(Tail(s)) : Tail(s)[i].valor # MEMORIA_CORRUPTA
<1>1. /\ Len(Tail(s)) = Len(s) - 1
      /\ \A i \in 1..Len(Tail(s)) : Tail(s)[i] = s[i + 1]
  BY HeadTailProperties
<1>2. Len(s) \in Nat \ {0}
  BY EmptySeq
<1>3. ASSUME NEW i \in 1..Len(Tail(s))
      PROVE  i + 1 \in 1..Len(s)
  BY <1>1, <1>2
<1> QED  BY <1>1, <1>3

\* Notices, steps of a thread.
LEMMA AvisosHilo ==
  ASSUME Tipos, Avisos, NEW h \in Hilos, Hilo(h)
  PROVE  Avisos'
<1>1. /\ km' = km /\ cierre' = cierre
      /\ deKM' = deKM \/ (deKM # <<>> /\ deKM' = Tail(deKM))
      /\ desvios' = desvios \/ desvios' = desvios \cup {"desalojo"}
      /\ Corre /\ (ks' = ks \/ Cerrado)
  BY DEF Hilo, pedir, leerLargo, leerCuerpo, manejar_solicitud_desalojo, seguirEsperando,
     SoloHilo, Envia
<1>2. ~Corre' => Corrupta'
  BY <1>1 DEF Corre, Cerrado, Corrupta
<1>3. Dudoso(desvios') <=> Dudoso(desvios)
  BY <1>1 DEF Dudoso, TextosAviso
<1>4. ASSUME ~Corrupta', ~Dudoso(desvios')
      PROVE  \A i \in 1..Len(deKM') : deKM'[i].valor # MEMORIA_CORRUPTA
  <2>1. \A i \in 1..Len(deKM) : deKM[i].valor # MEMORIA_CORRUPTA
    BY <1>1, <1>3, <1>4 DEF Avisos, Corrupta
  <2> QED  BY <1>1, <2>1, SinAvisoEnLaCola DEF Tipos
<1> QED  BY <1>1, <1>2, <1>3, <1>4 DEF Avisos

\* Notices, steps of the handler: only a lost stick makes one, or a text that looks like it.
LEMMA AvisosManejador ==
  ASSUME Tipos, Avisos, Turnos, Manejador
  PROVE  Avisos'
<1>1. EnvioBueno(km.envio) /\ EnvioBueno(km'.envio)
  BY EnvioDeKM, TiposManejador
<1>2. cierre' = cierre /\ ks' = ks
  BY DEF Manejador, atender_kernel_scheduler, solicitar_desalojo_por_compactacion,
     atender_creacion_segmento, enviar_mensaje, terminar, SoloKM
<1>3. \A i \in 1..Len(km'.envio) : SinAviso(km'.envio[i])
  BY <1>1 DEF EnvioBueno
<1>4. CASE UNCHANGED <<deKM, desvios>>
  BY <1>2, <1>3, <1>4 DEF Avisos, Corrupta, Corre
<1>5. CASE enviar_mensaje /\ km.envio # <<>>
  <2> DEFINE send == Head(km.envio)
  <2>1. send \in Seq(Palabra) /\ SinAviso(send) /\ Len(send) \in Nat
    BY <1>1, <1>5, EnvioCola, LenProperties
  <2>2. /\ deKM' = IF cierre = "cerrado" THEN deKM ELSE deKM \o send
        /\ desvios' = desvios \cup Confunde(send)
        /\ Corre
    BY <1>5 DEF enviar_mensaje
  <2>3. Dudoso(desvios') => HayTextoAviso
    <3>1. Confunde(send) # {} => HayTextoAviso
      BY <2>1, ConfundeEs
    <3> HIDE DEF send
    <3> QED  BY <2>2, <3>1 DEF Avisos, Dudoso
  <2>4. ASSUME ~Corrupta', ~Dudoso(desvios')
        PROVE  \A i \in 1..Len(deKM') : deKM'[i].valor # MEMORIA_CORRUPTA
    <3>0. Confunde(send) \subseteq TextosAviso
      BY <2>1, ConfundeEs
    <3>1. cierre = "no" /\ ~Dudoso(desvios) /\ Confunde(send) = {}
      <4> HIDE DEF send
      <4> QED  BY <1>2, <2>2, <2>4, <3>0 DEF Corrupta, Dudoso
    <3>2. \A i \in 1..Len(deKM) : deKM[i].valor # MEMORIA_CORRUPTA
      BY <3>1 DEF Avisos, Corrupta
    <3>3. \A i \in 1..Len(send) : send[i].valor # MEMORIA_CORRUPTA
      BY <2>1, <3>1, ConfundeEs
    <3>4. deKM \in Seq(Palabra) /\ Len(deKM) \in Nat
      BY LenProperties DEF Tipos
    <3> HIDE DEF send
    <3>5. deKM' = deKM \o send
      BY <2>2, <3>1
    <3>6. /\ Len(deKM \o send) = Len(deKM) + Len(send)
          /\ \A i \in 1..Len(deKM) + Len(send) :
               (deKM \o send)[i] = IF i <= Len(deKM) THEN deKM[i] ELSE send[i - Len(deKM)]
      BY <2>1, <3>4, ConcatProperties
    <3>7. ASSUME NEW i \in 1..Len(deKM) + Len(send)
          PROVE  (deKM \o send)[i].valor # MEMORIA_CORRUPTA
      <4>1. CASE i <= Len(deKM)
        <5>1. i \in 1..Len(deKM)
          BY <2>1, <3>4, <4>1
        <5> QED  BY <3>2, <3>6, <4>1, <5>1
      <4>2. CASE ~(i <= Len(deKM))
        <5>1. i - Len(deKM) \in 1..Len(send)
          BY <2>1, <3>4, <4>2
        <5> QED  BY <3>3, <3>6, <4>2, <5>1
      <4> QED  BY <4>1, <4>2
    <3> QED  BY <3>5, <3>6, <3>7
  <2>5. ks' = "corre"
    BY <1>2, <2>2 DEF Corre
  <2> QED  BY <1>3, <2>3, <2>4, <2>5 DEF Avisos, Corre
<1>6. UNCHANGED <<deKM, desvios>> \/ (enviar_mensaje /\ km.envio # <<>>)
  BY DEF Manejador, atender_kernel_scheduler, solicitar_desalojo_por_compactacion,
     atender_creacion_segmento, enviar_mensaje, terminar
<1> QED  BY <1>4, <1>5, <1>6

\* Notices, steps of the monitor, the notifier and the loss of a stick.
LEMMA AvisosResto ==
  ASSUME Tipos, Avisos, hilo_monitor_km \/ perderStick \/ Notificador
  PROVE  Avisos'
<1>1. km'.envio = km.envio
  BY DEF hilo_monitor_km, perderStick, Notificador, notificar_memoria_corrupta_a_ks, cerrar,
     SoloHilo, Tipos
<1>2. Dudoso(desvios') <=> Dudoso(desvios)
  BY DEF hilo_monitor_km, perderStick, Notificador, notificar_memoria_corrupta_a_ks, cerrar,
     Dudoso, TextosAviso
<1>3. CASE hilo_monitor_km
  <2>1. Corre /\ cierre' = cierre /\ deKM' = deKM
        /\ (Fin \/ (deKM # <<>> /\ Head(deKM).valor = MEMORIA_CORRUPTA))
    BY <1>3 DEF hilo_monitor_km, SoloHilo
  <2>2. CASE Fin
    BY <1>1, <1>2, <2>1, <2>2 DEF Fin, Cerrado, Avisos, Corrupta
  <2>3. CASE deKM # <<>> /\ Head(deKM).valor = MEMORIA_CORRUPTA
    <3>1. 1 \in 1..Len(deKM) /\ Head(deKM) = deKM[1]
      BY <2>3, EmptySeq DEF Tipos
    <3>2. Corrupta \/ Dudoso(desvios)
      BY <2>3, <3>1 DEF Avisos
    <3> QED  BY <1>1, <1>2, <2>1, <3>2 DEF Avisos, Corrupta
  <2> QED  BY <2>1, <2>2, <2>3
<1>4. CASE perderStick \/ Notificador
  <2>1. Corre' /\ Corrupta'
    BY <1>4 DEF perderStick, Notificador, notificar_memoria_corrupta_a_ks, cerrar, Corre, Corrupta
  <2> QED  BY <1>1, <1>2, <2>1 DEF Avisos
<1> QED  BY <1>3, <1>4


-----------------------------------------------------------------------------
(* The dialogue of one thread.                                              *)

\* Sequences of one word, one behind the other.
LEMMA DosYTres ==
  ASSUME NEW S, NEW x \in S, NEW y \in S, NEW z \in S
  PROVE  <<x>> \o <<y>> = <<x, y>> /\ <<x, y>> \o <<z>> = <<x, y, z>>
<1> DEFINE s == <<x>>
           t == <<y>>
           u == <<z>>
           st == <<x, y>>
           stu == <<x, y, z>>
<1>1. /\ s \in Seq(S) /\ t \in Seq(S) /\ u \in Seq(S) /\ st \in Seq(S) /\ stu \in Seq(S)
      /\ Len(s) = 1 /\ Len(t) = 1 /\ Len(u) = 1 /\ Len(st) = 2 /\ Len(stu) = 3
      /\ s[1] = x /\ t[1] = y /\ u[1] = z /\ st[1] = x /\ st[2] = y
      /\ stu[1] = x /\ stu[2] = y /\ stu[3] = z
  OBVIOUS
<1> HIDE DEF s, t, u, st, stu
<1>2. s \o t = st
  <2>1. /\ s \o t \in Seq(S) /\ Len(s \o t) = Len(s) + Len(t)
        /\ \A i \in 1..Len(s) + Len(t) : (s \o t)[i] = IF i <= Len(s) THEN s[i] ELSE t[i - Len(s)]
    BY <1>1, ConcatProperties
  <2>2. Len(s \o t) = 2 /\ (s \o t)[1] = x /\ (s \o t)[2] = y
    BY <1>1, <2>1
  <2>3. \A i \in 1..Len(s \o t) : (s \o t)[i] = st[i]
    BY <1>1, <2>2
  <2> QED  BY <1>1, <2>1, <2>2, <2>3, SeqEqual
<1>3. st \o u = stu
  <2>1. /\ st \o u \in Seq(S) /\ Len(st \o u) = Len(st) + Len(u)
        /\ \A i \in 1..Len(st) + Len(u) :
             (st \o u)[i] = IF i <= Len(st) THEN st[i] ELSE u[i - Len(st)]
    BY <1>1, ConcatProperties
  <2>2. Len(st \o u) = 3 /\ (st \o u)[1] = x /\ (st \o u)[2] = y /\ (st \o u)[3] = z
    BY <1>1, <2>1
  <2>3. \A i \in 1..Len(st \o u) : (st \o u)[i] = stu[i]
    BY <1>1, <2>2
  <2> QED  BY <1>1, <2>1, <2>2, <2>3, SeqEqual
<1> QED  BY <1>2, <1>3 DEF s, t, u, st, stu

\* The words of a code, and those of a code and the text behind it.
LEMMA JuntaDeCodigo ==
  ASSUME NEW c \in Nat, NEW de \in Hilos \cup {Nadie}
  PROVE  LET r == Junta(<<>>, Codigo(c, de)) IN
         /\ Len(r) = 2 /\ r[1].valor = TamCodigo /\ r[2].valor = c
         /\ \A i \in 1..Len(r) : r[i].de = de
<1> DEFINE w1 == [t |-> "largo", valor |-> TamCodigo, de |-> de]
           w2 == [t |-> "cuerpo", valor |-> c, de |-> de]
           e == Codigo(c, de)
           r == Junta(<<>>, e)
<1>1. /\ w1 \in Palabra /\ w2 \in Palabra
      /\ w1.valor = TamCodigo /\ w2.valor = c /\ w1.de = de /\ w2.de = de
  BY DEF Palabra, TamCodigo
<1>2. Len(e) = 2 /\ e[1] = <<w1>> /\ e[2] = <<w2>>
  BY CodigoTipo
<1> HIDE DEF e, w1, w2
<1>3. Parte(e, 1) = <<w1>> /\ Parte(e, 2) = <<w2>> /\ Parte(e, 3) = <<>> /\ Parte(e, 4) = <<>>
  BY <1>2 DEF Parte
<1>4. r = <<>> \o <<w1>> \o <<w2>> \o <<>> \o <<>>
  BY <1>3 DEF Junta
<1>5. <<>> \o <<w1>> \o <<w2>> \o <<>> \o <<>> = <<w1, w2>>
  <2>1. <<w1>> \in Seq(Palabra) /\ <<w1, w2>> \in Seq(Palabra)
    BY <1>1
  <2>2. <<w1>> \o <<w2>> = <<w1, w2>>
    BY <1>1, DosYTres
  <2> QED  BY <2>1, <2>2, ConcatEmptySeq
<1>6. r = <<w1, w2>>
  BY <1>4, <1>5
<1> HIDE DEF r
<1>7. Len(r) = 2 /\ r[1] = w1 /\ r[2] = w2
  BY <1>6
<1>8. \A i \in 1..Len(r) : r[i].de = de
  BY <1>1, <1>7
<1> QED  BY <1>1, <1>7, <1>8 DEF r, e

\* What the reader of a STDOUT joins: the code, the length of the text and the text.
LEMMA JuntaDeTexto ==
  ASSUME NEW x \in Textos, NEW de \in Hilos \cup {Nadie}
  PROVE  LET r == Junta(<<>>, Codigo(OK, de) \o Datos(x, de)) IN
         /\ Len(r) = 3 + Palabras(x.bytes)
         /\ r[1].valor = TamCodigo /\ r[2].valor = OK /\ r[3].valor = x.bytes
         /\ \A i \in 1..Len(r) : r[i].de = de
<1> DEFINE w1 == [t |-> "largo", valor |-> TamCodigo, de |-> de]
           w2 == [t |-> "cuerpo", valor |-> OK, de |-> de]
           w3 == [t |-> "largo", valor |-> x.bytes, de |-> de]
           s == Datos(x, de)[2]
           e == Codigo(OK, de) \o Datos(x, de)
           r == Junta(<<>>, e)
<1>0. OK \in Nat
  BY DEF OK
<1>1. /\ w1 \in Palabra /\ w2 \in Palabra /\ w3 \in Palabra
      /\ w1.valor = TamCodigo /\ w2.valor = OK /\ w3.valor = x.bytes
      /\ w1.de = de /\ w2.de = de /\ w3.de = de
  BY <1>0, TextoTipo DEF Palabra, TamCodigo
<1>2. Codigo(OK, de)[1] = <<w1>> /\ Codigo(OK, de)[2] = <<w2>>
  BY <1>0, CodigoTipo
<1>3. Datos(x, de)[1] = <<w3>> /\ s \in Seq(Palabra) /\ Len(s) = Palabras(x.bytes)
  BY DatosTipo
<1>4. \A i \in 1..Palabras(x.bytes) : s[i] = [t |-> "cuerpo", valor |-> x.palabras[i], de |-> de]
  BY DatosTipo
<1>5. \A i \in 1..Palabras(x.bytes) : s[i].de = de
  <2> DEFINE palabra(i) == [t |-> "cuerpo", valor |-> x.palabras[i], de |-> de]
  <2>1. \A i \in 1..Palabras(x.bytes) : palabra(i).de = de
    OBVIOUS
  <2>2. \A i \in 1..Palabras(x.bytes) : s[i] = palabra(i)
    BY <1>4
  <2> HIDE DEF s, palabra
  <2> QED  BY <2>1, <2>2
<1>6. Len(e) = 4 /\ e[1] = <<w1>> /\ e[2] = <<w2>> /\ e[3] = <<w3>> /\ e[4] = s
  BY <1>2, <1>3, CodigoYDatosTipo
<1> HIDE DEF e, w1, w2, w3, s
<1>7. Parte(e, 1) = <<w1>> /\ Parte(e, 2) = <<w2>> /\ Parte(e, 3) = <<w3>> /\ Parte(e, 4) = s
  BY <1>6 DEF Parte
<1>8. r = <<>> \o <<w1>> \o <<w2>> \o <<w3>> \o s
  BY <1>7 DEF Junta
<1>9. <<>> \o <<w1>> \o <<w2>> \o <<w3>> = <<w1, w2, w3>>
  <2>1. <<w1>> \in Seq(Palabra)
    BY <1>1
  <2>2. <<w1>> \o <<w2>> = <<w1, w2>>
    BY <1>1, DosYTres
  <2>3. <<w1, w2>> \o <<w3>> = <<w1, w2, w3>>
    BY <1>1, DosYTres
  <2> QED  BY <2>1, <2>2, <2>3, ConcatEmptySeq
<1> DEFINE f == <<w1, w2, w3>>
<1>10. f \in Seq(Palabra) /\ Len(f) = 3 /\ f[1] = w1 /\ f[2] = w2 /\ f[3] = w3
  BY <1>1
<1> HIDE DEF r
<1>11. r = f \o s
  BY <1>8, <1>9
<1> HIDE DEF f
<1>12. /\ Len(r) = Len(f) + Len(s)
       /\ \A i \in 1..Len(f) + Len(s) : r[i] = IF i <= Len(f) THEN f[i] ELSE s[i - Len(f)]
  BY <1>3, <1>10, <1>11, ConcatProperties
<1>13. Palabras(x.bytes) \in Nat
  BY TextoTipo
<1>14. Len(r) = 3 + Palabras(x.bytes) /\ r[1] = w1 /\ r[2] = w2 /\ r[3] = w3
  BY <1>3, <1>10, <1>12, <1>13
<1>15. ASSUME NEW i \in 1..Len(r)
       PROVE  r[i].de = de
  <2>1. CASE i <= 3
    <3>1. i = 1 \/ i = 2 \/ i = 3
      BY <1>13, <1>14, <2>1
    <3> QED  BY <1>1, <1>14, <3>1
  <2>2. CASE ~(i <= 3)
    <3>1. i - 3 \in 1..Palabras(x.bytes)
      BY <1>13, <1>14, <2>2
    <3>2. r[i] = s[i - 3]
      BY <1>3, <1>10, <1>12, <1>13, <1>14, <2>2
    <3> QED  BY <1>5, <3>1, <3>2
  <2> QED  BY <2>1, <2>2
<1> QED  BY <1>1, <1>14, <1>15 DEF r, e

\* The answer to a request, as the thread reads it.
LEMMA JuntaDeRespuesta ==
  ASSUME NEW op \in Operaciones, NEW de \in Hilos, NEW envio \in Respuestas(op, de)
  PROVE  LET r == Junta(<<>>, envio) IN
         /\ Len(r) > 1 /\ r[1].valor = TamCodigo /\ r[2].valor # SOLICITAR_DESALOJO
         /\ \A i \in 1..Len(r) : r[i].de = de
         /\ IF op = "STDOUT" /\ r[2].valor = OK THEN Texto(r, 2) ELSE Len(r) = 2
<1>1. ASSUME NEW c \in {OK, ERROR, SIN_MEMORIA, SEG_FAULT}, envio = Codigo(c, de),
             op = "STDOUT" => c # OK
      PROVE  LET r == Junta(<<>>, envio) IN
             /\ Len(r) = 2 /\ r[1].valor = TamCodigo /\ r[2].valor # SOLICITAR_DESALOJO
             /\ \A i \in 1..Len(r) : r[i].de = de
             /\ ~(op = "STDOUT" /\ r[2].valor = OK)
  <2>1. c \in Nat /\ c # SOLICITAR_DESALOJO
    BY <1>1 DEF OK, ERROR, SIN_MEMORIA, SEG_FAULT, SOLICITAR_DESALOJO
  <2> DEFINE r == Junta(<<>>, envio)
  <2>2. Len(r) = 2 /\ r[1].valor = TamCodigo /\ r[2].valor = c /\ \A i \in 1..Len(r) : r[i].de = de
    BY <1>1, <2>1, JuntaDeCodigo
  <2> QED  BY <1>1, <2>1, <2>2
<1>2. ASSUME NEW x \in Textos, envio = Codigo(OK, de) \o Datos(x, de), op = "STDOUT"
      PROVE  LET r == Junta(<<>>, envio) IN
             /\ Len(r) = 3 + Palabras(x.bytes) /\ r[1].valor = TamCodigo /\ r[2].valor = OK
             /\ \A i \in 1..Len(r) : r[i].de = de
             /\ r[3].valor = x.bytes
  <2> QED  BY <1>2, JuntaDeTexto
<1> DEFINE r == Junta(<<>>, envio)
<1>3. \/ /\ Len(r) = 2 /\ r[1].valor = TamCodigo /\ r[2].valor # SOLICITAR_DESALOJO
         /\ \A i \in 1..Len(r) : r[i].de = de
         /\ ~(op = "STDOUT" /\ r[2].valor = OK)
      \/ \E x \in Textos :
         /\ Len(r) = 3 + Palabras(x.bytes) /\ r[1].valor = TamCodigo /\ r[2].valor = OK
         /\ \A i \in 1..Len(r) : r[i].de = de
         /\ r[3].valor = x.bytes /\ op = "STDOUT"
  BY <1>1, <1>2, RespuestasTipo
<1> HIDE DEF r
<1>4. ASSUME NEW x \in Textos, Len(r) = 3 + Palabras(x.bytes), r[3].valor = x.bytes
      PROVE  Len(r) > 2 /\ Texto(r, 2)
  <2>1. x.bytes \in Nat /\ Palabras(x.bytes) \in Nat
    BY TextoTipo
  <2> QED  BY <1>4, <2>1 DEF Texto
<1>5. OK # SOLICITAR_DESALOJO
  BY DEF OK, SOLICITAR_DESALOJO
<1>6. \A x \in Textos : 3 + Palabras(x.bytes) \in Nat
  <2> TAKE x \in Textos
  <2> QED  BY TextoTipo
<1>7. /\ Len(r) > 1 /\ r[1].valor = TamCodigo /\ r[2].valor # SOLICITAR_DESALOJO
      /\ \A i \in 1..Len(r) : r[i].de = de
      /\ IF op = "STDOUT" /\ r[2].valor = OK THEN Texto(r, 2) ELSE Len(r) = 2
  <2>1. CASE Len(r) = 2 /\ r[1].valor = TamCodigo /\ r[2].valor # SOLICITAR_DESALOJO
             /\ (\A i \in 1..Len(r) : r[i].de = de) /\ ~(op = "STDOUT" /\ r[2].valor = OK)
    BY <2>1
  <2>2. ASSUME NEW x \in Textos, Len(r) = 3 + Palabras(x.bytes), r[1].valor = TamCodigo,
               r[2].valor = OK, \A i \in 1..Len(r) : r[i].de = de, r[3].valor = x.bytes, op = "STDOUT"
        PROVE  /\ Len(r) > 1 /\ r[1].valor = TamCodigo /\ r[2].valor # SOLICITAR_DESALOJO
               /\ \A i \in 1..Len(r) : r[i].de = de
               /\ IF op = "STDOUT" /\ r[2].valor = OK THEN Texto(r, 2) ELSE Len(r) = 2
    BY <1>4, <1>5, <1>6, <2>2
  <2> QED  BY <1>3, <2>1, <2>2
<1> QED  BY <1>7 DEF r


\* A word less to read.
LEMMA LeeUna ==
  ASSUME NEW r \in Seq(Palabra), r # <<>>
  PROVE  /\ Len(r) \in Nat \ {0} /\ Len(Tail(r)) = Len(r) - 1
         /\ r[1] \in Palabra
         /\ Len(r) > 1 => Tail(r)[1] = r[2]
         /\ \A k \in {1, 2} : Texto(r, k) => Texto(Tail(r), k - 1)
         /\ \A h : (\A i \in 1..Len(r) : r[i].de = h) => \A i \in 1..Len(Tail(r)) : Tail(r)[i].de = h
<1>1. /\ Len(r) \in Nat \ {0} /\ Len(Tail(r)) = Len(r) - 1
      /\ \A i \in 1..Len(Tail(r)) : Tail(r)[i] = r[i + 1]
  BY EmptySeq, HeadTailProperties
<1>2. r[1] \in Palabra
  BY <1>1, ElementOfSeq
<1>3. Len(r) > 1 => Tail(r)[1] = r[2]
  BY <1>1
<1>4. ASSUME NEW k \in {1, 2}, Texto(r, k)
      PROVE  Texto(Tail(r), k - 1)
  <2>1. Len(r) > k /\ k \in 1..Len(Tail(r)) /\ k + 1 \in 1..Len(r)
    BY <1>1, <1>4 DEF Texto
  <2>2. Tail(r)[k] = r[k + 1] /\ r[k + 1] \in Palabra
    BY <1>1, <2>1, ElementOfSeq
  <2>3. Palabras(r[k + 1].valor) \in Nat
    BY <2>2, PalabrasNat DEF Palabra
  <2>4. Len(r) = k + 1 + Palabras(r[k + 1].valor)
    BY <1>4 DEF Texto
  <2>5. (k - 1) + 1 = k
    OBVIOUS
  <2>6. Len(Tail(r)) > k - 1 /\ Len(Tail(r)) = (k - 1) + 1 + Palabras(Tail(r)[k].valor)
    <3> DEFINE p == Palabras(r[k + 1].valor)
    <3>1. p \in Nat /\ Len(r) = k + 1 + p /\ Tail(r)[k].valor = r[k + 1].valor
      BY <2>2, <2>3, <2>4
    <3>2. p = Palabras(Tail(r)[k].valor)
      BY <3>1
    <3> HIDE DEF p
    <3>3. Len(Tail(r)) = (k - 1) + 1 + p
      BY <1>1, <3>1
    <3>4. Len(Tail(r)) > k - 1
      BY <1>1, <2>1
    <3> QED  BY <3>2, <3>3, <3>4
  <2> QED  BY <2>5, <2>6 DEF Texto
<1>5. ASSUME NEW h, \A i \in 1..Len(r) : r[i].de = h
      PROVE  \A i \in 1..Len(Tail(r)) : Tail(r)[i].de = h
  <2>1. ASSUME NEW i \in 1..Len(Tail(r))
        PROVE  i + 1 \in 1..Len(r)
    BY <1>1
  <2> QED  BY <1>1, <1>5, <2>1
<1> QED  BY <1>1, <1>2, <1>3, <1>4, <1>5

\* The words still to be read, and those of the socket.
LEMMA RestoTipo ==
  ASSUME Tipos
  PROVE  /\ Resto \in Seq(Palabra) /\ Len(Resto) \in Nat
         /\ Resto = <<>> => deKM = <<>>
         /\ Len(Resto) = 0 <=> Resto = <<>>
         /\ deKM # <<>> => /\ Resto # <<>> /\ Resto[1] = Head(deKM)
                           /\ Junta(Tail(deKM), km.envio) = Tail(Resto)
<1>1. deKM \in Seq(Palabra) /\ km.envio \in Seq(Seq(Palabra))
  BY DEF Tipos
<1>2. Resto \in Seq(Palabra)
  BY <1>1, JuntaTipo DEF Resto
<1>3. Len(Resto) \in Nat /\ (Len(Resto) = 0 <=> Resto = <<>>)
  BY <1>2, EmptySeq, LenProperties
<1> QED  BY <1>1, <1>2, <1>3, JuntaTipo DEF Resto

\* As long as the design is followed, the step of the only thread in a dialogue, or of
\* none, keeps them in step.
SinDesvio == "desalojo" \notin desvios /\ ~Corrupta

\* The dialogue stays in step if one thread moves and no other one is in a dialogue.
LEMMA SincroniaDeUno ==
  ASSUME NEW h \in Hilos,
         \A g \in Hilos : g # h => hilo'[g] = hilo[g] /\ hilo[g].pc = "libre",
         hilo'[h].pc # "libre" => EnDialogo(h)',
         hilo'[h].pc = "libre" => Reposo'
  PROVE  Sincronia'
BY DEF Sincronia

\* While nothing has strayed, one thread at most is in a dialogue.
LEMMA SoloUno ==
  ASSUME Sincronia, SinDesvio, NEW h \in Hilos, hilo[h].pc # "libre"
  PROVE  EnDialogo(h) /\ \A g \in Hilos : g # h => hilo[g].pc = "libre"
BY DEF Sincronia, SinDesvio

\* A thread that asks starts a dialogue on a quiet connection.
LEMMA SincroniaPedir ==
  ASSUME Tipos, Turnos, Sincronia, SinDesvio, NEW h \in Hilos, pedir(h), "desalojo" \notin desvios'
  PROVE  Sincronia'
<1>1. hilo[h] \in Hebra /\ hilo \in [Hilos -> Hebra]
  BY DEF Tipos
<1>2. ASSUME NEW g \in Hilos
      PROVE  hilo[g].pc = "libre"
  <2>1. ~Leyendo(g)
    BY DialogoKMAssumption DEF pedir, Turnos
  <2>2. ~EnDesalojo(g)
    BY DEF pedir
  <2>3. hilo[g] \in Hebra
    BY DEF Tipos
  <2> QED  BY <2>1, <2>2, <2>3 DEF Hebra, Leyendo, EnDesalojo
<1>3. Reposo
  BY <1>2 DEF Sincronia, SinDesvio
<1>4. /\ hilo'[h].pc = "largo" /\ hilo'[h].fase = 1 /\ hilo'[h].linea = hilo[h].linea
      /\ \A g \in Hilos : g # h => hilo'[g] = hilo[g]
  BY <1>1 DEF pedir, Hebra
<1>5. Operacion(h)' = Operacion(h)
  BY <1>4 DEF Operacion
<1>6. ~Cerrado
  BY DEF Cerrado, SinDesvio, Corrupta
<1>7. aKM' = <<[op |-> Operacion(h), de |-> h]>>
  BY <1>3, <1>6 DEF pedir, Envia, Reposo
<1>8. Resto' = <<>> /\ Sigue("lee")'
  BY <1>3 DEF pedir, SoloHilo, Reposo, Resto, Sigue
<1>9. Pedida(h)'
  BY <1>4, <1>5, <1>7, <1>8 DEF Pedida
<1> QED  BY <1>2, <1>4, <1>9, SincroniaDeUno DEF EnDialogo

\* A message has come whole.
LEMMA SincroniaRecibido ==
  ASSUME Tipos, Turnos, Sincronia, SinDesvio, NEW h \in Hilos, hilo[h].pc = "cuerpo",
         hilo[h].falta = 0, recibido(h, hilo[h].valor), UNCHANGED <<aKM, deKM, km>>
  PROVE  Sincronia'
<1>1. hilo[h] \in Hebra /\ hilo \in [Hilos -> Hebra]
  BY DEF Tipos
<1>2. EnDialogo(h) /\ \A g \in Hilos : g # h => hilo[g].pc = "libre"
  BY SoloUno
<1>3. \A g \in Hilos : g # h => hilo'[g] = hilo[g]
  BY <1>1, TrasRecibido DEF Hebra
<1> DEFINE r == Resto
           c == hilo[h].valor
<1>4. aKM = <<>> /\ (\A i \in 1..Len(r) : r[i].de = h)
      /\ (\/ hilo[h].fase = 1 /\ Cola(h, r, 0, c)
          \/ hilo[h].fase = 2 /\ Operacion(h) = "STDOUT" /\ Len(r) = 0 /\ Sigue("lee"))
  BY <1>2 DEF EnDialogo, Pedida, Responden, Desalojando, Desalojado
<1>5. Resto' = Resto /\ aKM' = <<>> /\ km' = km /\ \A pc : Sigue(pc)' = Sigue(pc)
  BY <1>4 DEF Resto, Sigue
<1>6. CASE Operacion(h) = "MEM_ALLOC" /\ c = SOLICITAR_DESALOJO
  <2>1. hilo' = [hilo EXCEPT ![h].pc = "desalojo", ![h].compacta = TRUE]
    BY <1>6 DEF recibido
  <2>2. hilo'[h].pc = "desalojo" /\ hilo'[h].linea = hilo[h].linea
    BY <1>1, <2>1 DEF Hebra
  <2>3. Operacion(h)' = "MEM_ALLOC"
    BY <1>6, <2>2 DEF Operacion
  <2>4. Len(r) = 0 /\ Sigue("espera") /\ km.de = h
    BY <1>4, <1>6 DEF Cola
  <2>5. Resto' = <<>>
    BY <1>5, <2>4, RestoTipo
  <2>6. Desalojando(h)'
    BY <1>5, <2>2, <2>3, <2>4, <2>5 DEF Desalojando
  <2> QED  BY <1>2, <1>3, <2>2, <2>6, SincroniaDeUno DEF EnDialogo
<1>7. CASE /\ ~(Operacion(h) = "MEM_ALLOC" /\ c = SOLICITAR_DESALOJO)
           /\ Operacion(h) = "STDOUT" /\ hilo[h].fase = 1 /\ c = OK
  <2>1. hilo' = [hilo EXCEPT ![h].pc = "largo", ![h].fase = 2]
    BY <1>7 DEF recibido
  <2>2. hilo'[h].pc = "largo" /\ hilo'[h].fase = 2 /\ hilo'[h].linea = hilo[h].linea
    BY <1>1, <2>1 DEF Hebra
  <2>3. Operacion(h)' = "STDOUT"
    BY <1>7, <2>2 DEF Operacion
  <2>4. Texto(r, 0) /\ Sigue("lee")
    BY <1>4, <1>7 DEF Cola, OK, SOLICITAR_DESALOJO
  <2>5. Responden(h)'
    BY <1>4, <1>5, <2>2, <2>3, <2>4 DEF Responden
  <2> QED  BY <1>2, <1>3, <2>2, <2>5, SincroniaDeUno DEF EnDialogo
<1>8. CASE /\ ~(Operacion(h) = "MEM_ALLOC" /\ c = SOLICITAR_DESALOJO)
           /\ ~(Operacion(h) = "STDOUT" /\ hilo[h].fase = 1 /\ c = OK)
  <2>1. hilo' = [hilo EXCEPT ![h] = Terminado(h)]
    BY <1>8 DEF recibido
  <2>2. hilo'[h].pc = "libre"
    BY <1>1, <2>1, TerminadoEs
  <2>3. Len(r) = 0 /\ Sigue("lee")
    BY <1>4, <1>8 DEF Cola
  <2>4. Resto' = <<>>
    BY <1>5, <2>3, RestoTipo
  <2>5. Reposo'
    BY <1>5, <2>3, <2>4 DEF Reposo
  <2> QED  BY <1>2, <1>3, <2>2, <2>5, SincroniaDeUno
<1> QED  BY <1>6, <1>7, <1>8

\* A word is read.
LEMMA SincroniaLee ==
  ASSUME Tipos, Turnos, Sincronia, SinDesvio, NEW h \in Hilos, Leyendo(h),
         leerLargo(h) \/ leerCuerpo(h), deKM' # deKM
  PROVE  Sincronia'
<1> DEFINE r == Resto
<1>1. hilo[h] \in Hebra /\ hilo \in [Hilos -> Hebra]
  BY DEF Tipos
<1>2. EnDialogo(h) /\ \A g \in Hilos : g # h => hilo[g].pc = "libre"
  BY SoloUno DEF Leyendo
<1>3. deKM # <<>> /\ deKM' = Tail(deKM) /\ km' = km /\ aKM' = aKM
  BY DEF leerLargo, leerCuerpo, SoloHilo
<1>4. r \in Seq(Palabra) /\ r # <<>> /\ r[1] = Head(deKM) /\ Resto' = Tail(r)
  BY <1>3, RestoTipo DEF Resto
<1>5. Responden(h)
  BY <1>2, <1>4 DEF EnDialogo, Pedida, Desalojando, Desalojado
<1>6. aKM' = <<>> /\ (\A i \in 1..Len(r) : r[i].de = h) /\ \A pc : Sigue(pc)' = Sigue(pc)
  BY <1>3, <1>5 DEF Responden, Sigue
<1>7. (\A i \in 1..Len(Resto) : Resto[i].de = h)'
  BY <1>4, <1>6, LeeUna
<1>8. /\ Len(r) \in Nat \ {0} /\ Len(Tail(r)) = Len(r) - 1
      /\ r[1] \in Palabra /\ (Len(r) > 1 => Tail(r)[1] = r[2])
      /\ \A k \in {1, 2} : Texto(r, k) => Texto(Tail(r), k - 1)
  BY <1>4, LeeUna
<1>9. CASE leerLargo(h)
  <2>1. hilo' = [hilo EXCEPT ![h].pc = "cuerpo", ![h].falta = Palabras(Head(deKM).valor),
                             ![h].valor = NULO]
    BY <1>3, <1>9, LeeUna DEF leerLargo
  <2>2. /\ hilo'[h].pc = "cuerpo" /\ hilo'[h].fase = hilo[h].fase /\ hilo'[h].linea = hilo[h].linea
        /\ hilo'[h].falta = Palabras(Head(deKM).valor) /\ hilo'[h].valor = NULO
        /\ \A g \in Hilos : g # h => hilo'[g] = hilo[g]
    BY <1>1, <2>1 DEF Hebra
  <2>3. Operacion(h)' = Operacion(h)
    BY <2>2 DEF Operacion
  <2>4. CASE /\ hilo[h].fase = 1
             /\ Len(r) > 1 /\ r[1].valor = TamCodigo /\ Cola(h, r, 2, r[2].valor)
    <3>1. hilo'[h].falta = 1
      BY <1>4, <2>2, <2>4 DEF TamCodigo, Palabras
    <3>2. Tail(r)[1].valor = r[2].valor /\ Len(Tail(r)) > 0
      BY <1>8, <2>4
    <3>3. IF Operacion(h) = "STDOUT" /\ r[2].valor = OK THEN Texto(Tail(r), 1) ELSE Len(Tail(r)) = 1
      BY <1>8, <2>4 DEF Cola
    <3>4. Cola(h, Resto, 1, Resto[1].valor)'
      BY <1>3, <1>4, <1>6, <2>3, <2>4, <3>2, <3>3 DEF Cola
    <3>5. Responden(h)'
      BY <1>4, <1>6, <1>7, <2>2, <2>4, <3>1, <3>2, <3>4 DEF Responden
    <3> QED  BY <1>2, <2>2, <3>5, SincroniaDeUno DEF EnDialogo
  <2>5. CASE hilo[h].fase = 2 /\ Operacion(h) = "STDOUT" /\ Texto(r, 0) /\ Sigue("lee")
    <3>1. Palabras(r[1].valor) \in Nat
      BY <1>8, PalabrasNat DEF Palabra
    <3>2. Len(Tail(r)) = hilo'[h].falta
      BY <1>4, <1>8, <2>2, <2>5, <3>1 DEF Texto
    <3>3. Responden(h)'
      BY <1>4, <1>6, <1>7, <2>2, <2>3, <2>5, <3>2 DEF Responden
    <3> QED  BY <1>2, <2>2, <3>3, SincroniaDeUno DEF EnDialogo
  <2> QED  BY <1>5, <1>9, <2>4, <2>5 DEF Responden, leerLargo
<1>10. CASE leerCuerpo(h)
  <2>1. /\ hilo[h].falta > 0
        /\ hilo' = [hilo EXCEPT ![h].falta = @ - 1,
                                ![h].valor = IF @ = NULO THEN Head(deKM).valor ELSE @]
    BY <1>3, <1>10 DEF leerCuerpo
  <2>2. /\ hilo'[h].pc = "cuerpo" /\ hilo'[h].fase = hilo[h].fase /\ hilo'[h].linea = hilo[h].linea
        /\ hilo'[h].falta = hilo[h].falta - 1
        /\ hilo'[h].valor = IF hilo[h].valor = NULO THEN Head(deKM).valor ELSE hilo[h].valor
        /\ \A g \in Hilos : g # h => hilo'[g] = hilo[g]
    BY <1>1, <1>10, <2>1 DEF Hebra, leerCuerpo
  <2>3. Operacion(h)' = Operacion(h)
    BY <2>2 DEF Operacion
  <2>4. CASE /\ hilo[h].fase = 1 /\ hilo[h].falta = 1 /\ hilo[h].valor = NULO
             /\ Len(r) > 0 /\ Cola(h, r, 1, r[1].valor)
    <3>1. hilo'[h].falta = 0 /\ hilo'[h].valor = r[1].valor
      BY <1>4, <2>2, <2>4
    <3>2. IF Operacion(h) = "STDOUT" /\ r[1].valor = OK THEN Texto(Tail(r), 0) ELSE Len(Tail(r)) = 0
      BY <1>8, <2>4 DEF Cola
    <3>3. Cola(h, Resto, 0, hilo[h].valor)'
      BY <1>3, <1>4, <1>6, <2>3, <2>4, <3>1, <3>2 DEF Cola
    <3>4. Responden(h)'
      BY <1>4, <1>6, <1>7, <2>2, <2>4, <3>1, <3>3 DEF Responden
    <3> QED  BY <1>2, <2>2, <3>4, SincroniaDeUno DEF EnDialogo
  <2>5. CASE hilo[h].fase = 2 /\ Operacion(h) = "STDOUT" /\ Len(r) = hilo[h].falta /\ Sigue("lee")
    <3>1. Len(Tail(r)) = hilo'[h].falta
      BY <1>8, <2>2, <2>5
    <3>2. Responden(h)'
      BY <1>4, <1>6, <1>7, <2>2, <2>3, <2>5, <3>1 DEF Responden
    <3> QED  BY <1>2, <2>2, <3>2, SincroniaDeUno DEF EnDialogo
  <2> QED  BY <1>5, <1>10, <2>1, <2>4, <2>5 DEF Responden, leerCuerpo
<1> QED  BY <1>9, <1>10


\* The dialogue in step, steps of a thread.
LEMMA SincroniaHilo ==
  ASSUME Tipos, Turnos, Sincronia, NEW h \in Hilos, Hilo(h)
  PROVE  Sincronia'
<1> SUFFICES ASSUME SinDesvio' PROVE Sincronia'
  BY DEF Sincronia, SinDesvio
<1>1. SinDesvio /\ "desalojo" \notin desvios'
  BY DEF SinDesvio, Hilo, pedir, leerLargo, leerCuerpo, manejar_solicitud_desalojo,
     seguirEsperando, SoloHilo, Corrupta
<1>2. ~Fin /\ ~Cerrado
  BY <1>1 DEF Fin, Cerrado, SinDesvio, Corrupta
<1>3. hilo[h] \in Hebra /\ hilo \in [Hilos -> Hebra] /\ deKM \in Seq(Palabra)
  BY DEF Tipos
<1>4. CASE pedir(h)
  BY <1>1, <1>4, SincroniaPedir
<1>5. deKM # <<>> => Tail(deKM) # deKM
  BY <1>3, EmptySeq, HeadTailProperties
<1>6. CASE leerLargo(h)
  <2>1. Leyendo(h) /\ deKM' # deKM
    BY <1>2, <1>5, <1>6 DEF leerLargo, Leyendo
  <2> QED  BY <1>1, <1>6, <2>1, SincroniaLee
<1>7. CASE leerCuerpo(h)
  <2>1. CASE deKM' # deKM
    BY <1>1, <1>7, <2>1, SincroniaLee DEF leerCuerpo, Leyendo
  <2>2. CASE deKM' = deKM
    <3>1. /\ hilo[h].pc = "cuerpo" /\ hilo[h].falta = 0 /\ recibido(h, hilo[h].valor)
          /\ UNCHANGED <<aKM, deKM, km>>
      BY <1>2, <1>5, <1>7, <2>2 DEF leerCuerpo, SoloHilo
    <3> QED  BY <1>1, <3>1, SincroniaRecibido
  <2> QED  BY <2>1, <2>2
<1>8. CASE manejar_solicitud_desalojo(h)
  <2>1. hilo[h].pc = "desalojo"
    BY <1>8 DEF manejar_solicitud_desalojo
  <2>2. EnDialogo(h) /\ \A g \in Hilos : g # h => hilo[g].pc = "libre"
    BY <1>1, <2>1, SoloUno
  <2>3. Desalojando(h)
    BY <2>1, <2>2 DEF EnDialogo, Pedida, Responden, Desalojado
  <2>4. /\ hilo'[h].pc = "vuelve" /\ hilo'[h].fase = hilo[h].fase /\ hilo'[h].linea = hilo[h].linea
        /\ \A g \in Hilos : g # h => hilo'[g] = hilo[g]
    BY <1>3, <1>8 DEF manejar_solicitud_desalojo, Hebra
  <2>5. hilo[h].fase = 1
    BY <1>3, <2>1 DEF Turnos, Leyendo, Hebra
  <2>6. Operacion(h)' = "MEM_ALLOC"
    BY <2>3, <2>4 DEF Operacion, Desalojando
  <2>7. aKM' = <<[op |-> "DESALOJO_REALIZADO", de |-> h]>>
    BY <1>2, <1>8, <2>3 DEF manejar_solicitud_desalojo, Envia, Desalojando
  <2>8. Resto' = <<>> /\ Sigue("espera")' /\ km'.de = h
    BY <1>8, <2>3 DEF manejar_solicitud_desalojo, SoloHilo, Desalojando, Resto, Sigue
  <2>9. Desalojado(h)'
    BY <2>4, <2>5, <2>6, <2>7, <2>8 DEF Desalojado
  <2> QED  BY <2>2, <2>4, <2>9, SincroniaDeUno DEF EnDialogo
<1>9. CASE seguirEsperando(h)
  <2>1. hilo[h].pc = "vuelve"
    BY <1>9 DEF seguirEsperando
  <2>2. EnDialogo(h) /\ \A g \in Hilos : g # h => hilo[g].pc = "libre"
    BY <1>1, <2>1, SoloUno
  <2>3. /\ hilo'[h].pc = "largo" /\ hilo'[h].fase = hilo[h].fase /\ hilo'[h].linea = hilo[h].linea
        /\ \A g \in Hilos : g # h => hilo'[g] = hilo[g]
    BY <1>3, <1>9 DEF seguirEsperando, Hebra
  <2>4. Operacion(h)' = Operacion(h)
    BY <2>3 DEF Operacion
  <2>5. aKM' = aKM /\ Resto' = Resto /\ km' = km /\ \A pc : Sigue(pc)' = Sigue(pc)
    BY <1>9 DEF seguirEsperando, SoloHilo, Resto, Sigue
  <2>6. CASE Desalojado(h)
    <3>1. Desalojado(h)'
      BY <2>3, <2>4, <2>5, <2>6 DEF Desalojado
    <3> QED  BY <2>2, <2>3, <3>1, SincroniaDeUno DEF EnDialogo
  <2>7. CASE Responden(h)
    <3> DEFINE r == Resto
    <3>1. hilo[h].fase = 1 /\ Len(r) > 1 /\ r[1].valor = TamCodigo /\ Cola(h, r, 2, r[2].valor)
      BY <2>1, <2>7 DEF Responden
    <3>2. Cola(h, Resto, 2, Resto[2].valor)'
      BY <2>4, <2>5, <3>1 DEF Cola
    <3>3. Responden(h)'
      BY <2>3, <2>5, <2>7, <3>1, <3>2 DEF Responden
    <3> QED  BY <2>2, <2>3, <3>3, SincroniaDeUno DEF EnDialogo
  <2> QED  BY <2>1, <2>2, <2>6, <2>7 DEF EnDialogo, Pedida, Desalojando
<1> QED  BY <1>4, <1>6, <1>7, <1>8, <1>9 DEF Hilo

\* What a step of Kernel Memory keeps, it keeps for whoever is in a dialogue.
LEMMA SincroniaDeKM ==
  ASSUME Sincronia, SinDesvio, hilo' = hilo,
         \A h \in Hilos : EnDialogo(h) => EnDialogo(h)',
         Reposo => Reposo'
  PROVE  Sincronia'
BY DEF Sincronia, SinDesvio

\* The answer goes out, and the thread has all of it before it.
LEMMA RespondenAlResponder ==
  ASSUME Tipos, NEW h \in Hilos, hilo' = hilo, aKM' = <<>>, deKM' = deKM, Resto = <<>>,
         hilo[h].pc \in {"largo", "vuelve"}, hilo[h].fase = 1,
         Operacion(h) \in Operaciones, NEW envio \in Respuestas(Operacion(h), h),
         Responde(h, envio, "lee")
  PROVE  Responden(h)'
<1> DEFINE r == Junta(<<>>, envio)
<1>1. EnvioBueno(envio)
  BY RespuestasBuenas
<1>2. km'.pc = "escribe" /\ km'.tras = "lee" /\ km'.de = h /\ km'.envio = envio
  BY <1>1, RespondeTipo
<1>3. Resto' = r
  BY <1>2, RestoTipo DEF Resto
<1>4. /\ Len(r) > 1 /\ r[1].valor = TamCodigo /\ r[2].valor # SOLICITAR_DESALOJO
      /\ \A i \in 1..Len(r) : r[i].de = h
      /\ IF Operacion(h) = "STDOUT" /\ r[2].valor = OK THEN Texto(r, 2) ELSE Len(r) = 2
  BY JuntaDeRespuesta
<1> HIDE DEF r
<1>5. Operacion(h)' = Operacion(h) /\ Sigue("lee")'
  BY <1>2 DEF Operacion, Sigue
<1>6. Cola(h, Resto, 2, Resto[2].valor)'
  BY <1>3, <1>4, <1>5 DEF Cola
<1> QED  BY <1>3, <1>4, <1>6 DEF Responden


\* The one in the socket is the request of the thread in a dialogue.
LEMMA PedidoEsSuyo ==
  ASSUME Tipos, Turnos, NEW h \in Hilos, EnDialogo(h), aKM # <<>>
  PROVE  /\ Pedida(h) \/ Desalojado(h)
         /\ Tail(aKM) = <<>> /\ Head(aKM).de = h
         /\ Pedida(h) => Head(aKM).op = Operacion(h) /\ Operacion(h) \in Operaciones
         /\ Desalojado(h) => Head(aKM).op = "DESALOJO_REALIZADO" /\ Operacion(h) \in Operaciones
<1>1. Pedida(h) \/ Desalojado(h)
  BY DEF EnDialogo, Responden, Desalojando
<1>2. hilo[h].linea \in DOMAIN Pedidos[h]
  BY <1>1 DEF Turnos, Pedida, Desalojado
<1>3. Pedidos[h] \in Seq(Operaciones)
  BY DialogoKMAssumption
<1>4. Operacion(h) \in Operaciones
  BY <1>2, <1>3, LenProperties, ElementOfSeq DEF Operacion
<1>5. ASSUME NEW p, aKM = <<p>>
      PROVE  Tail(aKM) = <<>> /\ Head(aKM) = p
  BY <1>5
<1>6. CASE Pedida(h)
  <2>1. aKM = <<[op |-> Operacion(h), de |-> h]>>
    BY <1>6 DEF Pedida
  <2>2. Tail(aKM) = <<>> /\ Head(aKM).de = h /\ Head(aKM).op = Operacion(h) /\ ~Desalojado(h)
    <3>1. [op |-> Operacion(h), de |-> h].op # "DESALOJO_REALIZADO"
      BY <1>4 DEF Operaciones, Simples
    <3> QED  BY <1>5, <2>1, <3>1 DEF Desalojado
  <2> QED  BY <1>4, <1>6, <2>2
<1>7. CASE Desalojado(h)
  <2>1. aKM = <<[op |-> "DESALOJO_REALIZADO", de |-> h]>>
    BY <1>7 DEF Desalojado
  <2>2. Tail(aKM) = <<>> /\ Head(aKM).de = h /\ Head(aKM).op = "DESALOJO_REALIZADO"
    BY <1>5, <2>1
  <2>3. ~Pedida(h)
    BY <1>4, <1>5, <2>2 DEF Pedida, Operaciones, Simples
  <2> QED  BY <1>4, <1>7, <2>2, <2>3
<1> QED  BY <1>1, <1>6, <1>7

\* Kernel Memory takes the request of the thread in a dialogue.
LEMMA DialogoAtender ==
  ASSUME Tipos, Turnos, atender_kernel_scheduler, NEW h \in Hilos, EnDialogo(h)
  PROVE  EnDialogo(h)'
<1>1. km.pc = "lee" /\ aKM # <<>> /\ aKM' = Tail(aKM) /\ hilo' = hilo /\ deKM' = deKM
  BY DEF atender_kernel_scheduler, Recibe, SoloKM
<1>2. Pedida(h)
  BY <1>1, PedidoEsSuyo DEF Desalojado, Sigue
<1>3. aKM' = <<>> /\ Head(aKM).de = h /\ Head(aKM).op = Operacion(h) /\ Operacion(h) \in Operaciones
  BY <1>1, <1>2, PedidoEsSuyo
<1>4. PICK envio \in Respuestas(Operacion(h), h) : Responde(h, envio, "lee")
  BY <1>3 DEF atender_kernel_scheduler
<1>5. Responden(h)'
  BY <1>1, <1>2, <1>3, <1>4, RespondenAlResponder DEF Pedida
<1> QED  BY <1>5 DEF EnDialogo

\* It asks for an eviction in the middle of a MEM_ALLOC.
LEMMA DialogoSolicitar ==
  ASSUME Tipos, Turnos, solicitar_desalojo_por_compactacion, NEW h \in Hilos, EnDialogo(h)
  PROVE  EnDialogo(h)'
<1> DEFINE envio == Codigo(SOLICITAR_DESALOJO, h)
           r == Junta(<<>>, envio)
<1>1. km.pc = "lee" /\ aKM # <<>> /\ aKM' = Tail(aKM) /\ hilo' = hilo /\ deKM' = deKM
  BY DEF solicitar_desalojo_por_compactacion, Recibe, SoloKM
<1>2. Pedida(h)
  BY <1>1, PedidoEsSuyo DEF Desalojado, Sigue
<1>3. /\ aKM' = <<>> /\ Head(aKM).de = h /\ Operacion(h) = "MEM_ALLOC"
      /\ Responde(h, envio, "espera")
  BY <1>1, <1>2, PedidoEsSuyo DEF solicitar_desalojo_por_compactacion
<1>4. SOLICITAR_DESALOJO \in Nat /\ SOLICITAR_DESALOJO # MEMORIA_CORRUPTA
  BY DEF SOLICITAR_DESALOJO, MEMORIA_CORRUPTA
<1>5. EnvioBueno(envio)
  BY <1>4, CodigoBueno
<1>6. km'.pc = "escribe" /\ km'.tras = "espera" /\ km'.de = h /\ km'.envio = envio
  BY <1>3, <1>5, RespondeTipo
<1>7. Resto' = r
  BY <1>1, <1>2, <1>6, RestoTipo DEF Resto, Pedida
<1>8. /\ Len(r) = 2 /\ r[1].valor = TamCodigo /\ r[2].valor = SOLICITAR_DESALOJO
      /\ \A i \in 1..Len(r) : r[i].de = h
  BY <1>4, JuntaDeCodigo
<1> HIDE DEF r, envio
<1>9. Operacion(h)' = "MEM_ALLOC" /\ Sigue("espera")'
  BY <1>1, <1>3, <1>6 DEF Operacion, Sigue
<1>10. Cola(h, Resto, 2, Resto[2].valor)'
  BY <1>6, <1>7, <1>8, <1>9 DEF Cola
<1>11. Responden(h)'
  BY <1>1, <1>2, <1>3, <1>7, <1>8, <1>10 DEF Responden, Pedida
<1> QED  BY <1>11 DEF EnDialogo

\* It answers the MEM_ALLOC once the eviction is confirmed.
LEMMA DialogoCreacion ==
  ASSUME Tipos, Turnos, atender_creacion_segmento, NEW h \in Hilos, EnDialogo(h)
  PROVE  EnDialogo(h)'
<1>1. km.pc = "espera" /\ aKM # <<>> /\ aKM' = Tail(aKM) /\ hilo' = hilo /\ deKM' = deKM
  BY DEF atender_creacion_segmento, Recibe, SoloKM
<1>2. Desalojado(h)
  BY <1>1, PedidoEsSuyo DEF Pedida, Sigue
<1>3. /\ aKM' = <<>> /\ Head(aKM).op = "DESALOJO_REALIZADO" /\ Operacion(h) = "MEM_ALLOC"
      /\ km.de = h
  BY <1>1, <1>2, PedidoEsSuyo DEF Desalojado
<1>4. PICK envio \in Respuestas("MEM_ALLOC", h) : Responde(h, envio, "lee")
  BY <1>3 DEF atender_creacion_segmento
<1>5. Responden(h)'
  BY <1>1, <1>2, <1>3, <1>4, RespondenAlResponder DEF Desalojado, Operaciones
<1> QED  BY <1>5 DEF EnDialogo

\* To send a frame only moves a word from what is left to send to the socket.
LEMMA RestoAlEnviar ==
  ASSUME Tipos, Turnos, EnvioBueno(km.envio), enviar_mensaje, ~Corrupta
  PROVE  /\ Resto' = Resto /\ aKM' = aKM /\ hilo' = hilo /\ km'.de = km.de
         /\ \A pc \in {"lee", "espera"} : Sigue(pc) => Sigue(pc)'
<1>1. km.pc = "escribe" /\ aKM' = aKM /\ hilo' = hilo
  BY DEF enviar_mensaje, SoloKM
<1>2. CASE km.envio = <<>>
  <2>1. km' = [km EXCEPT !.pc = km.tras] /\ deKM' = deKM
    BY <1>2 DEF enviar_mensaje
  <2>2. km'.pc = km.tras /\ km'.envio = km.envio /\ km'.de = km.de
    BY <2>1 DEF Tipos
  <2>3. Resto' = Resto
    BY <2>1, <2>2 DEF Resto
  <2>4. \A pc \in {"lee", "espera"} : Sigue(pc) => Sigue(pc)'
    BY <1>1, <2>2 DEF Sigue
  <2> QED  BY <1>1, <2>2, <2>3, <2>4
<1>3. CASE km.envio # <<>>
  <2>1. km' = [km EXCEPT !.envio = Tail(@)] /\ deKM' = deKM \o Head(km.envio)
    BY <1>3 DEF enviar_mensaje, Corrupta
  <2>2. km'.pc = km.pc /\ km'.tras = km.tras /\ km'.envio = Tail(km.envio) /\ km'.de = km.de
    BY <2>1 DEF Tipos
  <2>3. deKM \in Seq(Palabra) /\ km.envio \in Seq(Seq(Palabra)) /\ Len(km.envio) <= 4
    BY DEF Tipos, EnvioBueno
  <2>4. Junta(deKM \o Head(km.envio), Tail(km.envio)) = Junta(deKM, km.envio)
    BY <1>3, <2>3, JuntaEnvio
  <2>5. Resto' = Resto
    BY <2>1, <2>2, <2>4 DEF Resto
  <2>6. \A pc \in {"lee", "espera"} : Sigue(pc) => Sigue(pc)'
    BY <2>2 DEF Sigue
  <2> QED  BY <1>1, <2>2, <2>5, <2>6
<1> QED  BY <1>2, <1>3

\* It sends one frame of its answer.
LEMMA DialogoEnviar ==
  ASSUME Tipos, Turnos, EnvioBueno(km.envio), enviar_mensaje, ~Corrupta, NEW h \in Hilos,
         EnDialogo(h)
  PROVE  EnDialogo(h)'
<1>1. /\ Resto' = Resto /\ aKM' = aKM /\ hilo' = hilo /\ km'.de = km.de
      /\ (Sigue("lee") => Sigue("lee")') /\ (Sigue("espera") => Sigue("espera")')
  BY RestoAlEnviar
<1>2. Operacion(h)' = Operacion(h)
  BY <1>1 DEF Operacion
<1>3. CASE Pedida(h)
  BY <1>1, <1>2, <1>3 DEF Pedida, EnDialogo
<1>4. CASE Desalojando(h)
  BY <1>1, <1>2, <1>4 DEF Desalojando, EnDialogo
<1>5. CASE Desalojado(h)
  BY <1>1, <1>2, <1>5 DEF Desalojado, EnDialogo
<1>6. CASE Responden(h)
  <2> DEFINE r == Resto
  <2>1. ASSUME NEW k \in Nat, NEW c, Cola(h, r, k, c)
        PROVE  Cola(h, r, k, c)'
    BY <1>1, <1>2, <2>1 DEF Cola
  <2>2. Responden(h)'
    BY <1>1, <1>2, <1>6, <2>1 DEF Responden
  <2> QED  BY <2>2 DEF EnDialogo
<1> QED  BY <1>3, <1>4, <1>5, <1>6 DEF EnDialogo

\* The dialogue in step, steps of the handler of Kernel Memory.
LEMMA SincroniaManejador ==
  ASSUME Tipos, Avisos, Turnos, Sincronia, Manejador
  PROVE  Sincronia'
<1> SUFFICES ASSUME SinDesvio' PROVE Sincronia'
  BY DEF Sincronia, SinDesvio
<1>0. SinDesvio /\ hilo' = hilo
  BY DEF SinDesvio, Manejador, atender_kernel_scheduler, solicitar_desalojo_por_compactacion,
     atender_creacion_segmento, enviar_mensaje, terminar, SoloKM, Corrupta
<1>1. EnvioBueno(km.envio)
  BY EnvioDeKM
<1>2. CASE atender_kernel_scheduler
  <2>1. ~Reposo
    BY <1>2 DEF atender_kernel_scheduler, Recibe, Reposo
  <2> QED  BY <1>0, <1>2, <2>1, DialogoAtender, SincroniaDeKM
<1>3. CASE solicitar_desalojo_por_compactacion
  <2>1. ~Reposo
    BY <1>3 DEF solicitar_desalojo_por_compactacion, Recibe, Reposo
  <2> QED  BY <1>0, <1>3, <2>1, DialogoSolicitar, SincroniaDeKM
<1>4. CASE atender_creacion_segmento
  <2>1. ~Reposo
    BY <1>4 DEF atender_creacion_segmento, Recibe, Reposo
  <2> QED  BY <1>0, <1>4, <2>1, DialogoCreacion, SincroniaDeKM
<1>5. CASE enviar_mensaje
  <2>1. ~Corrupta
    BY <1>0 DEF SinDesvio
  <2>2. Reposo => Reposo'
    BY <1>1, <1>5, <2>1, RestoAlEnviar DEF Reposo
  <2> QED  BY <1>0, <1>1, <1>5, <2>1, <2>2, DialogoEnviar, SincroniaDeKM
<1>6. CASE terminar
  BY <1>0, <1>6 DEF terminar, SinDesvio, Corrupta
<1> QED  BY <1>2, <1>3, <1>4, <1>5, <1>6 DEF Manejador

\* The dialogue in step, steps of the monitor, the notifier and the loss of a stick.
LEMMA SincroniaResto ==
  ASSUME Tipos, Sincronia, hilo_monitor_km \/ perderStick \/ Notificador
  PROVE  Sincronia'
<1>1. CASE hilo_monitor_km
  BY <1>1 DEF hilo_monitor_km, SoloHilo, Sincronia, EnDialogo, Pedida, Responden, Desalojando,
     Desalojado, Reposo, Resto, Cola, Sigue, Operacion, Corrupta
<1>2. CASE perderStick \/ Notificador
  <2>1. Corrupta'
    BY <1>2 DEF perderStick, Notificador, notificar_memoria_corrupta_a_ks, cerrar, Corrupta
  <2> QED  BY <2>1 DEF Sincronia
<1> QED  BY <1>1, <1>2

-----------------------------------------------------------------------------
(* Theorems.                                                                *)

\* Every state of the dialogue has the inductive invariant: the notice is not taken for a
\* frame, whoever reads holds mutex_km, and what is left to read is the rest of its answer.
THEOREM DialogoInductivo == Spec => []IInv
<1>1. Init => IInv
  BY InicioTipos DEF IInv
<1>2. IInv /\ [Next]_vars => IInv'
  <2> SUFFICES ASSUME IInv, [Next]_vars PROVE IInv'
    OBVIOUS
  <2>0. Tipos /\ Avisos /\ Turnos /\ Sincronia /\ EnvioBueno(km.envio)
    BY EnvioDeKM DEF IInv
  <2>1. ASSUME NEW h \in Hilos, Hilo(h)
        PROVE  IInv'
    BY <2>0, <2>1, TiposHilo, AvisosHilo, TurnosHilo, SincroniaHilo DEF IInv
  <2>2. CASE Manejador
    BY <2>0, <2>2, TiposManejador, AvisosManejador, TurnosManejador, SincroniaManejador DEF IInv
  <2>3. CASE hilo_monitor_km \/ perderStick \/ Notificador
    BY <2>0, <2>3, TiposResto, AvisosResto, TurnosResto, SincroniaResto DEF IInv
  <2>4. CASE UNCHANGED vars
    BY <2>0, <2>4 DEF vars, IInv, Tipos, Avisos, Turnos, Sincronia, EnDialogo, Pedida, Responden,
       Desalojando, Desalojado, Reposo, Resto, Cola, Sigue, Operacion, Corrupta, Corre, Leyendo,
       EnDesalojo
  <2> QED  BY <2>1, <2>2, <2>3, <2>4 DEF Next
<1> QED  BY <1>1, <1>2, PTL DEF Spec

\* Unless somebody makes a request during an eviction, a thread reads the answer to what it
\* asked for: recibir_mensaje never finds a part of the answer to another (funciones_ks.c).
THEOREM RespuestaPropiaSiempre == Spec => []RespuestaPropia
<1>1. IInv => RespuestaPropia
  <2> SUFFICES ASSUME IInv, "desalojo" \notin desvios, ~Corrupta,
                      NEW h \in Hilos, Leyendo(h), deKM # <<>>
               PROVE  Head(deKM).de = h
    BY DEF RespuestaPropia
  <2>1. Tipos /\ Sincronia
    BY DEF IInv
  <2>2. EnDialogo(h)
    BY <2>1 DEF Sincronia, Leyendo
  <2>3. Resto # <<>> /\ Resto[1] = Head(deKM) /\ 1 \in 1..Len(Resto)
    BY <2>1, RestoTipo, EmptySeq
  <2>4. Responden(h)
    BY <2>2, <2>3 DEF EnDialogo, Pedida, Desalojando, Desalojado
  <2> QED  BY <2>3, <2>4 DEF Responden
<1> QED  BY <1>1, DialogoInductivo, PTL

\* hilo_monitor_km ends the scheduler only if a stick was lost, or if the text of a STDOUT
\* had as many bytes as the code of the notice, or that code in one of its words.
THEOREM BSODSoloPorCorrupcionSiempre == Spec => []BSODSoloPorCorrupcion
<1>1. IInv => BSODSoloPorCorrupcion
  BY DEF IInv, Avisos, Dudoso, BSODSoloPorCorrupcion
<1> QED  BY <1>1, DialogoInductivo, PTL

\* The memory of the processes is where the confusion comes from: if no text that they print
\* has 29 bytes or a word 29, the scheduler ends only when a stick is lost.  The code does
\* not keep a program from printing one.
SinTextoDeAviso == ~HayTextoAviso => (~Corre => Corrupta)
\* It holds in every state of the specification.
THEOREM SoloElTextoEsAviso == Spec => []SinTextoDeAviso
<1>1. IInv => SinTextoDeAviso
  BY DEF IInv, Avisos, SinTextoDeAviso
<1> QED  BY <1>1, DialogoInductivo, PTL

\* Two threads of the scheduler never read from the socket at once, whatever goes wrong:
\* mutex_km is released and taken again around the eviction in a MEM_ALLOC.
LectorUnico == \A g, h \in Hilos : Leyendo(g) /\ Leyendo(h) => g = h
\* It holds in every state of the specification.
THEOREM LectorUnicoSiempre == Spec => []LectorUnico
<1>1. IInv => LectorUnico
  BY DEF IInv, Turnos, LectorUnico
<1> QED  BY <1>1, DialogoInductivo, PTL

=============================================================================
