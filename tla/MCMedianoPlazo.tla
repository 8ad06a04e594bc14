--------------------------- MODULE MCMedianoPlazo ---------------------------
(* Values of the constants of MedianoPlazo for model checking.             *)
EXTENDS MedianoPlazo

MismaPrioridad == [p \in Procesos |-> 0]
UnoDeCadaTipo == [d \in Tipos |-> 1]

\* Programs in the way of those of pruebas/*.prc.
ProgramasIO ==
  <<  <<"MEM_ALLOC", "STDIN", "SLEEP", "EXIT">>,
      <<"MEM_ALLOC", "STDOUT", "EXIT">>  >>
ProgramasMediano ==
  <<  <<"MEM_ALLOC", "SLEEP", "MEM_FREE", "MUTEX_LOCK", "MUTEX_UNLOCK", "EXIT">>,
      <<"MUTEX_LOCK", "SLEEP", "MUTEX_UNLOCK", "MEM_ALLOC", "MEM_FREE", "EXIT">>  >>
UnByteCadaUno == [p \in Procesos |-> 1]
=============================================================================
