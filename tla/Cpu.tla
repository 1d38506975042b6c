--------------------------------- MODULE Cpu ---------------------------------
(***************************************************************************)
(* The CPU process (cpu/src/cpu.c): its two threads and the two sockets    *)
(* they read.                                                              *)
(*                                                                         *)
(*   pcDisp  recibir_operacion_dispatch  (the instruction cycle, main)     *)
(*   pcInt   recibir_operacion_interrupt (sets the flag of an INTERRUPCION)*)
(*                                                                         *)
(* They share cpu->interrupcion, a plain bool that nothing protects, and   *)
(* the semaphore sem_interrupt.  The flag is read twice per instruction,   *)
(* by check_interrupt and by the condition that ends the loop, and written *)
(* between the two by the other thread.                                    *)
(*                                                                         *)
(* An instruction is CPU (NO_OP, READ, WRITE, COPY), I/O or EXIT; what the *)
(* first kind does to memory is not of this module.  The kernel is its     *)
(* side of ContratoCpu: one PCB outstanding at most.                       *)
(***************************************************************************)
EXTENDS Integers, Sequences

CONSTANTS Procesos, Nadie,
          Programa,           \* the instructions of each process
          MaxInterrupciones   \* bound: INTERRUPCION messages sent in all

Instrucciones == {"CPU", "I/O", "EXIT"}

\* Every script of consola/scripts ends in its one EXIT.
ASSUME ConstantesOK ==
  /\ Nadie \notin Procesos
  /\ MaxInterrupciones \in Nat
  /\ Programa \in [Procesos -> Seq(Instrucciones)]
  /\ \A p \in Procesos : \A i \in DOMAIN Programa[p] :
       Programa[p][i] = "EXIT" <=> i = Len(Programa[p])
  /\ \A p \in Procesos : Programa[p] # <<>>

VARIABLES
  enCpu,        \* kernel: the process it sent and has not been given back
  contador,     \* kernel: program_counter of each PCB, as last received
  terminados,   \* kernel: processes given back with EXIT
  pedidas,      \* INTERRUPCION messages sent so far
  dispatch,     \* PCBs on the dispatch socket, kernel to CPU
  devueltos,    \* PCBs on the dispatch socket, CPU to kernel
  irq,          \* messages on the interrupt socket
  pcDisp, pcInt,
  pcb,          \* global pcb: process and program_counter
  pos,          \* variable of the for
  interrupcion, \* cpu->interrupcion
  sem,          \* value of sem_interrupt
  ejecutadas    \* history: instructions of each process executed so far

kernel  == <<enCpu, contador, terminados, pedidas>>
sockets == <<dispatch, devueltos, irq>>
ciclo   == <<pcDisp, pcb, pos>>
vars    == <<kernel, sockets, ciclo, pcInt, interrupcion, sem, ejecutadas>>

PCB == [proc : Procesos, pc : Nat]

\* Memory before the first PCB: global pcb is NULL.
SinPCB == [proc |-> Nadie, pc |-> 0]

Devuelto == [op : {"BLOQUEO_IO", "FINALIZACION_PROCESO", "INTERRUPCION"},
             proc : Procesos, pc : Nat]

\* instruccion_con_parametros[0]: the code counts from 0.
Instruccion == Programa[pcb.proc][pos + 1]

\* checkInstruccionInterrupcion
EsIOoEXIT == Instruccion \in {"I/O", "EXIT"}

Init ==
  /\ enCpu = Nadie /\ contador = [p \in Procesos |-> 0]
  /\ terminados = {} /\ pedidas = 0
  /\ dispatch = <<>> /\ devueltos = <<>> /\ irq = 0
  /\ pcDisp = "recibir" /\ pcInt = "recibir"
  /\ pcb = SinPCB /\ pos = 0
  /\ interrupcion = FALSE /\ sem = 0
  /\ ejecutadas = [p \in Procesos |-> 0]

-----------------------------------------------------------------------------
(* The kernel.                                                             *)

\* enviar_pcb; sem_planificacion keeps it to one outstanding PCB.
Despachar(p) ==
  /\ enCpu = Nadie /\ p \notin terminados
  /\ enCpu' = p
  /\ dispatch' = Append(dispatch, [proc |-> p, pc |-> contador[p]])
  /\ UNCHANGED <<contador, terminados, pedidas, devueltos, irq, ciclo, pcInt,
                 interrupcion, sem, ejecutadas>>

\* The listener: recibir_pcb or recibir_pcb_bloqueado.
RecibirDevuelto ==
  /\ devueltos # <<>>
  /\ devueltos' = Tail(devueltos)
  /\ enCpu' = Nadie
  /\ LET d == Head(devueltos) IN
     /\ contador' = [contador EXCEPT ![d.proc] = d.pc]
     /\ terminados' = IF d.op = "FINALIZACION_PROCESO"
                        THEN terminados \union {d.proc} ELSE terminados
  /\ UNCHANGED <<pedidas, dispatch, irq, ciclo, pcInt, interrupcion, sem, ejecutadas>>

\* solicitar_interrupcion, by a thread that has seen ejecutando set: a PCB has
\* been sent, and may be back by the time the message leaves.
Interrumpir ==
  /\ pedidas < MaxInterrupciones
  /\ enCpu # Nadie \/ \E p \in Procesos : ejecutadas[p] > 0
  /\ pedidas' = pedidas + 1
  /\ irq' = irq + 1
  /\ UNCHANGED <<enCpu, contador, terminados, dispatch, devueltos, ciclo, pcInt,
                 interrupcion, sem, ejecutadas>>

-----------------------------------------------------------------------------
(* The dispatch thread.                                                    *)

\* recibir_pcb, and the test that enters the for.
RecibirPCB ==
  /\ pcDisp = "recibir" /\ dispatch # <<>>
  /\ dispatch' = Tail(dispatch)
  /\ pcb' = Head(dispatch) /\ pos' = Head(dispatch).pc
  /\ pcDisp' = IF pos' < Len(Programa[pcb'.proc]) THEN "ejecutar" ELSE "recibir"
  /\ UNCHANGED <<kernel, devueltos, irq, pcInt, interrupcion, sem, ejecutadas>>

\* Variant: the counter is incremented after the PCB is sent.
EjecutarSinIncrementar ==
  /\ pcDisp = "ejecutar" /\ pcDisp' = "check"
  /\ pcb' = [pcb EXCEPT !.pc = @ + 1]
  /\ ejecutadas' = [ejecutadas EXCEPT ![pcb.proc] = @ + 1]
  /\ devueltos' = CASE Instruccion = "I/O" ->
                         Append(devueltos, [op |-> "BLOQUEO_IO", proc |-> pcb.proc, pc |-> pcb.pc])
                    [] Instruccion = "EXIT" ->
                         Append(devueltos, [op |-> "FINALIZACION_PROCESO", proc |-> pcb.proc,
                                            pc |-> pcb.pc])
                    [] OTHER -> devueltos
  /\ UNCHANGED <<kernel, dispatch, irq, pos, pcInt, interrupcion, sem>>

\* The PCB with its counter already incremented.
Enviar(op) == Append(devueltos, [op |-> op, proc |-> pcb'.proc, pc |-> pcb'.pc])

\* Variant: an EXIT leaves to check_interrupt what it should send itself.
EjecutarSinExit ==
  /\ pcDisp = "ejecutar" /\ pcDisp' = "check"
  /\ pcb' = [pcb EXCEPT !.pc = @ + 1]
  /\ ejecutadas' = [ejecutadas EXCEPT ![pcb.proc] = @ + 1]
  /\ devueltos' = CASE Instruccion = "I/O" -> Enviar("BLOQUEO_IO")
                    [] Instruccion = "EXIT" /\ ~interrupcion -> Enviar("FINALIZACION_PROCESO")
                    [] OTHER -> devueltos
  /\ UNCHANGED <<kernel, dispatch, irq, pos, pcInt, interrupcion, sem>>

\* decode, fetch_operands and execute: the counter first, then the
\* instruction; I/O and EXIT send the PCB back themselves.
Ejecutar ==
  /\ pcDisp = "ejecutar" /\ pcDisp' = "check"
  /\ pcb' = [pcb EXCEPT !.pc = @ + 1]
  /\ ejecutadas' = [ejecutadas EXCEPT ![pcb.proc] = @ + 1]
  /\ devueltos' = CASE Instruccion = "I/O"  -> Enviar("BLOQUEO_IO")
                    [] Instruccion = "EXIT" -> Enviar("FINALIZACION_PROCESO")
                    [] OTHER                -> devueltos
  /\ UNCHANGED <<kernel, dispatch, irq, pos, pcInt, interrupcion, sem>>

\* Variant: an interruption sends the PCB whatever the instruction was.
CheckInterruptSiempre ==
  /\ pcDisp = "check" /\ pcDisp' = "decidir"
  /\ devueltos' = IF interrupcion
                    THEN Append(devueltos, [op |-> "INTERRUPCION", proc |-> pcb.proc, pc |-> pcb.pc])
                    ELSE devueltos
  /\ UNCHANGED <<kernel, dispatch, irq, pcb, pos, pcInt, interrupcion, sem, ejecutadas>>

\* check_interrupt: the first reading of the flag.
CheckInterrupt ==
  /\ pcDisp = "check" /\ pcDisp' = "decidir"
  /\ devueltos' = IF interrupcion /\ ~EsIOoEXIT
                    THEN Append(devueltos, [op |-> "INTERRUPCION", proc |-> pcb.proc, pc |-> pcb.pc])
                    ELSE devueltos
  /\ UNCHANGED <<kernel, dispatch, irq, pcb, pos, pcInt, interrupcion, sem, ejecutadas>>

\* Variant: only I/O and EXIT leave the loop.
DecidirSinFlag ==
  /\ pcDisp = "decidir"
  /\ IF EsIOoEXIT
       THEN pcDisp' = "limpiar" /\ UNCHANGED pos
       ELSE pos' = pos + 1 /\ pcDisp' = "ejecutar"
  /\ UNCHANGED <<kernel, sockets, pcb, pcInt, interrupcion, sem, ejecutadas>>

\* cpu.c:147: the second reading; otherwise the next turn of the for.
Decidir ==
  /\ pcDisp = "decidir"
  /\ IF interrupcion \/ EsIOoEXIT
       THEN pcDisp' = "limpiar" /\ UNCHANGED pos
       ELSE /\ pos' = pos + 1
            /\ pcDisp' = IF pos' < Len(Programa[pcb.proc]) THEN "ejecutar" ELSE "recibir"
  /\ UNCHANGED <<kernel, sockets, pcb, pcInt, interrupcion, sem, ejecutadas>>

Limpiar ==
  /\ pcDisp = "limpiar" /\ pcDisp' = "post"
  /\ interrupcion' = FALSE
  /\ UNCHANGED <<kernel, sockets, pcb, pos, pcInt, sem, ejecutadas>>

\* Variant: the interrupt thread is not woken.
PostNada ==
  /\ pcDisp = "post" /\ pcDisp' = "recibir"
  /\ UNCHANGED <<kernel, sockets, pcb, pos, pcInt, interrupcion, sem, ejecutadas>>

\* sem_post(&sem_interrupt), whether or not the interrupt thread waits for it;
\* reiniciar_tlb and the break.
PostInterrupt ==
  /\ pcDisp = "post" /\ pcDisp' = "recibir"
  /\ sem' = sem + 1
  /\ UNCHANGED <<kernel, sockets, pcb, pos, pcInt, interrupcion, ejecutadas>>

-----------------------------------------------------------------------------
(* The interrupt thread.                                                   *)

RecibirInterrupcion ==
  /\ pcInt = "recibir" /\ irq > 0
  /\ irq' = irq - 1
  /\ interrupcion' = TRUE
  /\ pcInt' = "esperar"
  /\ UNCHANGED <<kernel, dispatch, devueltos, ciclo, sem, ejecutadas>>

\* Variant: sem_trywait with its result ignored, the counter taken for granted.
EsperarInterruptSinMirar ==
  /\ pcInt = "esperar" /\ pcInt' = "recibir"
  /\ sem' = sem - 1
  /\ UNCHANGED <<kernel, sockets, ciclo, interrupcion, ejecutadas>>

EsperarInterrupt ==
  /\ pcInt = "esperar" /\ sem > 0
  /\ sem' = sem - 1
  /\ pcInt' = "recibir"
  /\ UNCHANGED <<kernel, sockets, ciclo, interrupcion, ejecutadas>>

-----------------------------------------------------------------------------
Ciclo == RecibirPCB \/ Ejecutar \/ CheckInterrupt \/ Decidir \/ Limpiar \/ PostInterrupt

Interrupt == RecibirInterrupcion \/ EsperarInterrupt

Next == \/ \E p \in Procesos : Despachar(p)
        \/ RecibirDevuelto \/ Interrumpir \/ Ciclo \/ Interrupt

Spec == Init /\ [][Next]_vars

\* Both threads run, and so does the listener of the kernel.  Nothing is asked
\* of the kernel's scheduler or of the interruptions it sends.
SpecJusta == /\ Spec
             /\ WF_vars(Ciclo) /\ WF_vars(Interrupt) /\ WF_vars(RecibirDevuelto)
-----------------------------------------------------------------------------
(* Properties.                                                             *)

\* Every variable of the two threads, the sockets and the kernel has its type.
TypeOK ==
  /\ enCpu \in Procesos \union {Nadie}
  /\ contador \in [Procesos -> Nat] /\ ejecutadas \in [Procesos -> Nat]
  /\ terminados \subseteq Procesos /\ pedidas \in 0..MaxInterrupciones
  /\ dispatch \in Seq(PCB) /\ devueltos \in Seq(Devuelto)
  /\ irq \in Nat /\ sem \in Nat /\ interrupcion \in BOOLEAN
  /\ pcDisp \in {"recibir", "ejecutar", "check", "decidir", "limpiar", "post"}
  /\ pcInt \in {"recibir", "esperar"}
  /\ pcb \in PCB \union {SinPCB} /\ pos \in Nat

\* The dispatch thread still has instructions of pcb to execute.
EnMano == \/ pcDisp = "ejecutar"
          \/ pcDisp = "check" /\ ~EsIOoEXIT
          \/ pcDisp = "decidir" /\ ~EsIOoEXIT /\ ~interrupcion

\* A PCB is in one place: on the way to the CPU, in its hands or on the way
\* back, and it is the one the kernel waits for.  So a process is never given
\* back twice (by its I/O or EXIT and by check_interrupt as well), and never
\* executes once the kernel has it again.
UnaSolaCopia ==
  /\ Len(dispatch) + Len(devueltos) + (IF EnMano THEN 1 ELSE 0) <= 1
  /\ dispatch # <<>>  => Head(dispatch).proc = enCpu
  /\ devueltos # <<>> => Head(devueltos).proc = enCpu
  /\ EnMano           => pcb.proc = enCpu

\* program_counter is right wherever the PCB is: across I/O, interruptions and
\* the kernel's own copy, the next instruction fetched is the first that has
\* not been executed; none is skipped and none repeated.
EnOrden ==
  /\ \A p \in Procesos \ {enCpu} : contador[p] = ejecutadas[p]
  /\ \A i \in DOMAIN dispatch  : dispatch[i].pc  = ejecutadas[dispatch[i].proc]
  /\ \A i \in DOMAIN devueltos : devueltos[i].pc = ejecutadas[devueltos[i].proc]
  /\ pcDisp = "ejecutar" => pos = pcb.pc /\ pos = ejecutadas[pcb.proc]
  /\ pcDisp \in {"check", "decidir"} => pcb.pc = pos + 1 /\ pcb.pc = ejecutadas[pcb.proc]

\* Between PCBs the kernel is not left waiting: what it sent is still on a
\* socket.  It is what the operation promises ("se envia una interrupcion a cpu
\* para que se corte la ejecucion y devuelva el pcb actualizado") and what the
\* log of cpu.c:148 says has been done when the loop is left.  It fails when the
\* flag is set between check_interrupt and the condition of the if.
SinPerdidos ==
  pcDisp = "recibir" /\ enCpu # Nadie => dispatch # <<>> \/ devueltos # <<>>

\* The interrupt thread, blocked on sem_interrupt while a process executes, is
\* released: each process leaves the loop by its I/O, its EXIT or the flag.
InterruptDespierta == pcInt = "esperar" /\ pcDisp = "ejecutar" ~> pcInt = "recibir"

Contrato == INSTANCE ContratoCpu

\* Whatever the interruptions, what is given back is what was sent, and nothing
\* comes after the EXIT of a process: the safety half of the contract.
ImplementaContratoSeguro == Contrato!Init /\ [][Contrato!Next]_(Contrato!vars)

\* The flag has been set after check_interrupt read it, with the PCB not sent.
Carrera == /\ pcDisp = "decidir" /\ interrupcion /\ ~EsIOoEXIT
           /\ enCpu = pcb.proc /\ dispatch = <<>> /\ devueltos = <<>>

\* The other half: the kernel gets back every PCB it sends, until one is lost
\* between the two readings of the flag (cpu.c:143-147, see SinPerdidos): no
\* other interleaving, and no interruption that comes late, while idle or
\* twice, keeps one.  Without interruptions (FIFO) none is kept.
DevuelveOPierde == (enCpu # Nadie ~> enCpu = Nadie) \/ <>Carrera
=============================================================================
