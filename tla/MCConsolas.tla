----------------------------- MODULE MCConsolas -----------------------------
(* Small instances of Consolas for TLC. *)
EXTENDS Consolas

\* NO_OP 0, I/O 5, EXIT; and NO_OP, EXIT.
DosProgramas == << << <<NO_OP, 0>>, <<IO, 5>>, <<SALIR>> >>,
                   << <<NO_OP>>, <<SALIR>> >> >>
=============================================================================
