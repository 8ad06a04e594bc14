---------------------------- MODULE MCDialogoKM ----------------------------
(* The CPU of one process that may compact, and the thread of another one.  *)
EXTENDS DialogoKM, TLC

CONSTANTS h1, h2
PedidosDialogo ==
  h1 :> <<"MEM_ALLOC", "STDIN">> @@ h2 :> <<"STDOUT", "MEM_FREE", "EXIT">>
TextosDialogo ==
  {[bytes |-> 0, palabras |-> <<>>], [bytes |-> 29, palabras |-> [i \in 1..8 |-> 0]]}
    \cup {[bytes |-> 5, palabras |-> p] : p \in {<<0, 0>>, <<29, 0>>}}
=============================================================================
