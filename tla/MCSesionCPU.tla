---------------------------- MODULE MCSesionCPU ----------------------------
(* Values of the constants of SesionCPU for model checking.                *)
EXTENDS SesionCPU

\* Two programs that share a mutex.
ProgramasSesion ==
  <<  <<"MUTEX_LOCK", "MEM_ALLOC", "MEM_ALLOC", "MUTEX_UNLOCK", "EXIT">>,
      <<"MUTEX_LOCK", "MUTEX_UNLOCK", "SEG_FAULT">>  >>
\* Two programs that follow each other on one CPU.
ProgramasSticks ==
  <<  <<"INIT_PROC", "MEM_ALLOC", "SLEEP", "MEM", "MEM_FREE", "EXIT">>,
      <<"MUTEX_CREATE", "NOOP", "EXIT">>  >>

\* Bound: the states that follow a hand-over of the mutex to a process that is still to be
\* blocked, or a move of segments under a process in EXEC, are not explored.
HastaElDesvio == desvios \cap {"bloqueo", "reubicado"} = {}
=============================================================================
