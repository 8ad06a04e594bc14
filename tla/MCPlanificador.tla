--------------------------- MODULE MCPlanificador ---------------------------
(* Values of the constants of Planificador for model checking.             *)
EXTENDS Planificador

\* PID 0 is created with priority 0; the others get theirs from INIT_PROC.
MismaPrioridad == [p \in Procesos |-> 0]
PrioridadPorPid == [p \in Procesos |-> p]
InvertidaTrasInicial == [p \in Procesos |-> IF p = 0 THEN 0 ELSE 3 - p]

UnaColaFIFO == [k \in Colas |-> "FIFO"]

\* PID 0 creates the other processes and makes one call more; the rest, one each.
LlamadasPorProceso == [p \in Procesos |-> IF p = 0 THEN Cardinality(Procesos) ELSE 1]
CuatroCadaUno == [p \in Procesos |-> IF p = 0 THEN 5 ELSE 4]
TomaYSuelta == [p \in Procesos |-> IF p = 0 THEN 5 ELSE 2]

Simetria == Permutations(CPUs)
=============================================================================
