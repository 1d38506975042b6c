----------------------------- MODULE MCMemoria -----------------------------
(* Small instances of Memoria for TLC. *)
EXTENDS Memoria, TLC

\* Processes and pages are interchangeable: which process has table 0 and
\* which page is the victim is left open.
Simetria == Permutations(Procesos) \union Permutations(Paginas)
=============================================================================
