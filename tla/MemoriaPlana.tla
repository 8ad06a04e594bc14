---------------------------- MODULE MemoriaPlana ----------------------------
(***************************************************************************)
(* What a program is promised of its memory: its segments are its own, and *)
(* a MOV_IN, MOV_OUT, COPY_MEM, STDIN or STDOUT reads or writes all of its *)
(* bytes at once.                                                          *)
(***************************************************************************)
EXTENDS Integers

CONSTANTS
  Procesos, Ids,
  Largo,      \* Largo[p][id]: bytes of each segment, 0 when there is none
  Valores,    \* what a program or a device may write
  Dato,       \* Dato[v][i]: byte i of value v
  Inicial,    \* the byte of a memory nobody has written
  Nadie

VARIABLES
  contenido,  \* contenido[p][id][i]: the bytes of each segment
  leido,      \* what each process got with its last read
  ultimo      \* the last access of each process, and how many it has made
vars == <<contenido, leido, ultimo>>

\* A read of n bytes from an address, a segment and a place in it; a write of the first n
\* bytes of a value; a copy to another address.
Lectura(dir, n) == [op |-> "lee", dir |-> dir, n |-> n, valor |-> Nadie, hacia |-> dir]
Escritura(dir, n, v) == [op |-> "escribe", dir |-> dir, n |-> n, valor |-> v, hacia |-> dir]
Copia(dir, hacia, n) == [op |-> "copia", dir |-> dir, n |-> n, valor |-> Nadie, hacia |-> hacia]
Otro(u, instr) == [numero |-> u.numero + 1, instr |-> instr]

Init ==
  /\ contenido = [p \in Procesos |-> [id \in Ids |-> [i \in 0..(Largo[p][id] - 1) |-> Inicial]]]
  /\ leido = [p \in Procesos |-> <<>>]
  /\ ultimo = [p \in Procesos |-> [numero |-> 0, instr |-> Nadie]]

Cabe(p, dir, n) == dir[2] + n <= Largo[p][dir[1]]
\* The segment with n bytes from d replaced by those of f, and its n bytes from d.
Pisado(segmento, d, n, f) ==
  [i \in DOMAIN segmento |-> IF d <= i /\ i < d + n THEN f[i - d] ELSE segmento[i]]
Tramo(segmento, d, n) == [i \in 0..(n - 1) |-> segmento[d + i]]

Hace(p, instr) == ultimo' = [ultimo EXCEPT ![p] = Otro(@, instr)]

Leer(p, dir, n) ==
  /\ Hace(p, Lectura(dir, n))
  /\ Cabe(p, dir, n)
  /\ leido' = [leido EXCEPT ![p] = Tramo(contenido[p][dir[1]], dir[2], n)]
  /\ UNCHANGED contenido

Escribir(p, dir, n, v) ==
  /\ Hace(p, Escritura(dir, n, v))
  /\ Cabe(p, dir, n)
  /\ contenido' = [contenido EXCEPT ![p][dir[1]] = Pisado(@, dir[2], n, Dato[v])]
  /\ UNCHANGED leido

Copiar(p, dir, hacia, n) ==
  /\ Hace(p, Copia(dir, hacia, n))
  /\ Cabe(p, dir, n) /\ Cabe(p, hacia, n)
  /\ contenido' = [contenido EXCEPT ![p][hacia[1]] =
                     Pisado(@, hacia[2], n, Tramo(contenido[p][dir[1]], dir[2], n))]
  /\ UNCHANGED leido

Next ==
  \E p \in Procesos, id \in Ids :
    \E d \in 0..Largo[p][id], n \in 0..Largo[p][id] :
      \/ Leer(p, <<id, d>>, n)
      \/ \E v \in Valores : Escribir(p, <<id, d>>, n, v)
      \/ \E jd \in Ids : \E e \in 0..Largo[p][jd] : Copiar(p, <<id, d>>, <<jd, e>>, n)

Spec == Init /\ [][Next]_vars
=============================================================================
