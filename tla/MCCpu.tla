-------------------------------- MODULE MCCpu --------------------------------
(* Small instances of Cpu for TLC. *)
EXTENDS Cpu, TLC

CONSTANTS p1, p2, p3

\* An I/O between two bursts, a burst of its own length, an EXIT at once.
Programas == (p1 :> <<"CPU", "CPU", "I/O", "CPU", "EXIT">>)
          @@ (p2 :> <<"I/O", "CPU", "CPU", "EXIT">>)
          @@ (p3 :> <<"EXIT">>)

Tres == {p1, p2, p3}
=============================================================================
