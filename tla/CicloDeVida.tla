---------------------------- MODULE CicloDeVida ----------------------------
(***************************************************************************)
(* What the kernel promises about the life of a process, with none of its  *)
(* threads, queues or semaphores: every process is in one state, changes   *)
(* it only along the arcs of the seven-state diagram, is alone on the CPU, *)
(* and is admitted to memory only while the degree of multiprogramming     *)
(* leaves room.  Kernel.tla implements it (Kernel!CicloDeVida).            *)
(***************************************************************************)
EXTENDS FiniteSets, Naturals

CONSTANTS Procesos,                \* the processes the consoles send
          GradoMultiprogramacion   \* GRADO_MULTIPROGRAMACION of the config

VARIABLE estado

Estados == {"FUERA", "NEW", "READY", "EXEC", "BLOCKED",
            "SUSP_BLOCKED", "SUSP_READY", "EXIT"}

\* The processes that occupy a place of the degree of multiprogramming.
EnMemoria == {p \in Procesos : estado[p] \in {"READY", "EXEC", "BLOCKED"}}

HayLugar == Cardinality(EnMemoria) < GradoMultiprogramacion

Pasar(p, desde, hasta) == /\ estado[p] = desde
                          /\ estado' = [estado EXCEPT ![p] = hasta]

Init == estado = [p \in Procesos |-> "FUERA"]

Crear(p)       == Pasar(p, "FUERA", "NEW")
Admitir(p)     == HayLugar /\ Pasar(p, "NEW", "READY")
Desuspender(p) == HayLugar /\ Pasar(p, "SUSP_READY", "READY")
Despachar(p)   == /\ \A q \in Procesos : estado[q] # "EXEC"
                  /\ Pasar(p, "READY", "EXEC")
Desalojar(p)   == Pasar(p, "EXEC", "READY")
Bloquear(p)    == Pasar(p, "EXEC", "BLOCKED")
Desbloquear(p) == Pasar(p, "BLOCKED", "READY")
Suspender(p)   == Pasar(p, "BLOCKED", "SUSP_BLOCKED")
TerminarIO(p)  == Pasar(p, "SUSP_BLOCKED", "SUSP_READY")
Terminar(p)    == Pasar(p, "EXEC", "EXIT")

Next == \E p \in Procesos :
          \/ Crear(p)     \/ Admitir(p)     \/ Despachar(p)
          \/ Desalojar(p) \/ Bloquear(p)    \/ Desbloquear(p)
          \/ Suspender(p) \/ TerminarIO(p)  \/ Desuspender(p)
          \/ Terminar(p)

Spec == Init /\ [][Next]_estado
=============================================================================
