---------------------------- MODULE MCKernelMemory ----------------------------
(* Values of the constants of KernelMemory for model checking.             *)
EXTENDS KernelMemory, TLC

UnoYDos == [k \in Sticks |-> IF k = 1 THEN 1 ELSE 2]
Simetria == Permutations(Procesos) \cup Permutations(Ids)
=============================================================================
