---------------------------- MODULE MCReemplazo ----------------------------
(* Small instances of Reemplazo for TLC. *)
EXTENDS Reemplazo

\* With three frames all pages are of one second, and so in any order.
Segundos == [m \in CantidadesDeMarcos |-> IF m = 2 THEN 1 ELSE 0]
Suspensiones == [m \in CantidadesDeMarcos |-> 1]
=============================================================================
