------------------------------ MODULE MCKernel ------------------------------
(* Small instances of Kernel for TLC. *)
EXTENDS Kernel, TLC

\* The processes are interchangeable: nothing compares or orders them.
Simetria == Permutations(Procesos)

\* ESTIMACION_INICIAL is 0: a burst leaves less than nothing, or more than that.
MenosOMas == {-1, 1}
=============================================================================
