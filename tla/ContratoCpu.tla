---------------------------- MODULE ContratoCpu ----------------------------
(***************************************************************************)
(* What the kernel relies on the CPU for: it sends a PCB only when it has  *)
(* none outstanding, and the CPU gives each one back exactly once, for one *)
(* of three reasons; an EXIT is the last return of its process.            *)
(***************************************************************************)
CONSTANTS Procesos, Nadie

VARIABLES enCpu,      \* the process sent and not given back
          terminados  \* processes given back with EXIT

Init == enCpu = Nadie /\ terminados = {}

Despachar(p) == /\ enCpu = Nadie /\ p \notin terminados
                /\ enCpu' = p
                /\ UNCHANGED terminados

\* BLOQUEO_IO or INTERRUPCION
Devolver == /\ enCpu # Nadie
            /\ enCpu' = Nadie
            /\ UNCHANGED terminados

Terminar == /\ enCpu # Nadie
            /\ terminados' = terminados \union {enCpu}
            /\ enCpu' = Nadie

Next == (\E p \in Procesos : Despachar(p)) \/ Devolver \/ Terminar

vars == <<enCpu, terminados>>

\* The CPU gives back what it is sent.
Spec == Init /\ [][Next]_vars /\ WF_vars(Devolver \/ Terminar)
=============================================================================
