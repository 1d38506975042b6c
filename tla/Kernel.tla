------------------------------- MODULE Kernel -------------------------------
(***************************************************************************)
(* The kernel process (kernel/src/kernel.c): its six kinds of threads,     *)
(* the four queues and six semaphores they share, and the two connections  *)
(* they talk over.                                                         *)
(*                                                                         *)
(*   "stp"   planificar_fifo / planificar_srt   (short-term scheduler)     *)
(*   "ltp"   pasar_de_new_a_ready               (long-term scheduler)      *)
(*   "io"    planificacion_io                   (the one I/O device)       *)
(*   "des"   desuspendidor                                                 *)
(*   "disp"  comunicacion_con_cpu               (listener of the CPU)      *)
(*   one esperar_y_suspender per blocking, numbered by contador_bloqueo    *)
(*                                                                         *)
(* A step is what a thread does between two points where another thread    *)
(* can see or disturb it: one semaphore operation, one critical section,   *)
(* one message, one unprotected read or write of shared data.  List and    *)
(* queue operations are atomic here, the two the code leaves outside its   *)
(* mutexes (kernel.c:147 and kernel.c:341) included.                       *)
(***************************************************************************)
EXTENDS Integers, Sequences, FiniteSets

CONSTANTS Procesos,                \* processes the consoles will send
          Nadie,                   \* "no process", not a member of Procesos
          GradoMultiprogramacion,  \* GRADO_MULTIPROGRAMACION
          Algoritmo,               \* ALGORITMO_PLANIFICACION: "FIFO" or "SRT"
          Expiran,                 \* may a blocking outlast TIEMPO_MAXIMO_BLOQUEADO?
          MaxBloqueos,             \* bound: I/O instructions executed in all
          EstimacionInicial,       \* ESTIMACION_INICIAL, in abstract units
          Estimaciones             \* bound: what a burst may leave of an estimate

ASSUME ConstantesOK ==
  /\ Nadie \notin Procesos
  /\ IsFiniteSet(Procesos)
  /\ GradoMultiprogramacion \in Nat \ {0}
  /\ Algoritmo \in {"FIFO", "SRT"}
  /\ Expiran \in BOOLEAN
  /\ MaxBloqueos \in Nat
  /\ EstimacionInicial \in Int
  /\ Estimaciones \subseteq Int /\ Estimaciones # {}

SinTabla == -1          \* pcb->tablas_paginas before memory answers

Hilos     == {"stp", "ltp", "io", "des", "disp"}
APasar    == {"ltp", "io", "des", "disp"}   \* the callers of pasar_a_ready
Semaforos == {"planificacion", "multiprogramacion",
              "new", "ready", "bloqueados", "susp_ready"}

VARIABLES
  por_llegar,   \* processes whose console has not sent them yet
  terminados,   \* processes answered with RESPUESTA_EXITO
  new, ready, susp_ready,   \* queues of processes
  blocked,      \* list of the ids of the blockings (t_pcb_bloqueado_con_id)
  sem,          \* the value of every semaphore
  pc,           \* where each thread is
  en,           \* the process each thread holds a pointer to
  viejo,        \* has the CPU since returned a newer struct of that process?
  tabla,        \* tablas_paginas of the live struct of each process
  restante,     \* estimacion_rafaga_restante of each process
  ejecutando,   \* the flag of the same name
  bloqueos,     \* every blocking so far and the thread that times it
  atendido,     \* the blocking the I/O device is serving, 0 if none
  respuestas,   \* answers of memory not yet read from conexion_con_memoria
  tablas,       \* memory's first-level tables: tablas[n+1] owns number n
  despacho,     \* PCBs sent to the CPU; the head is the one it runs
  devueltos,    \* PCBs the CPU has returned and the listener has not read
  irq,          \* INTERRUPCION messages the CPU has not consumed
  caido         \* has the kernel dereferenced a NULL list element?

colas   == <<new, ready, susp_ready, blocked>>
hilos   == <<pc, en, viejo>>
pcbs    == <<tabla, restante>>
memoria == <<respuestas, tablas>>
cpu     == <<despacho, devueltos, irq>>
mundo   == <<por_llegar, terminados>>

vars == <<mundo, colas, sem, hilos, pcbs, ejecutando, bloqueos, atendido,
          memoria, cpu, caido>>

-----------------------------------------------------------------------------
(* The records that travel and the threads' program counters.              *)

Tablas == Nat \union {SinTabla}

\* What goes to the CPU: the struct is serialised, tablas_paginas with it.
PCB == [proc : Procesos, tabla : Tablas]

\* What comes back (a new struct is allocated for it).
Devuelto == [op : {"BLOQUEO_IO", "INTERRUPCION", "EXIT"},
             proc : Procesos, tabla : Tablas]

\* Memory confirms a suspension with the integer 0; a table number is an
\* integer too, and nothing in an answer says which of the two it is.
Confirmacion == 0

\* A blocking and its esperar_y_suspender thread.  salida is the branch the
\* I/O thread took at its end; i and n are the variables of the scan, and primero
\* (history) the first blocking listed when it began, 0 if there was none.
Bloqueo == [proc : Procesos, suspendido : BOOLEAN,
            salida : {"pendiente", "ready", "susp_ready"},
            pc : {"durmiendo", "buscando", "notificar", "confirmar", "fin"},
            i : Nat, n : Nat, primero : Nat]

\* Inside pasar_a_ready, whichever thread called it.
Pasando == {"encolar", "pedir_tabla", "recibir_tabla", "interrumpir", "post"}

Lugares == [stp  |-> {"planificacion", "ready", "extraer", "enviar", "marcar"},
            ltp  |-> {"new", "multiprogramacion", "mirar"} \union Pasando,
            io   |-> {"bloqueados", "usleep", "decidir", "interrumpir2"} \union Pasando,
            des  |-> {"susp_ready", "multiprogramacion", "extraer", "interrumpir2"}
                       \union Pasando,
            disp |-> {"escuchar", "liberar"} \union Pasando]

Inicio == [stp |-> "planificacion", ltp |-> "new", io |-> "bloqueados",
           des |-> "susp_ready", disp |-> "escuchar"]

ProcesoDe(b) == bloqueos[b].proc

-----------------------------------------------------------------------------
(* Helpers.                                                                *)

Wait(s) == sem[s] > 0 /\ sem' = [sem EXCEPT ![s] = @ - 1]
Post(s) == sem' = [sem EXCEPT ![s] = @ + 1]

Ir(t, desde, hasta) == pc[t] = desde /\ pc' = [pc EXCEPT ![t] = hasta]

Tomar(t, p)  == en' = [en EXCEPT ![t] = p]
Soltar(t)    == en' = [en EXCEPT ![t] = Nadie] /\ viejo' = [viejo EXCEPT ![t] = FALSE]

SinIndice(s, i) == [j \in 1..(Len(s) - 1) |-> IF j < i THEN s[j] ELSE s[j + 1]]

\* strcmp(planificador, "SRT") == 0 && ejecutando: send INTERRUPCION.
SolicitarInterrupcion ==
  irq' = IF Algoritmo = "SRT" /\ ejecutando THEN irq + 1 ELSE irq

-----------------------------------------------------------------------------
Init ==
  /\ por_llegar = Procesos /\ terminados = {}
  /\ new = <<>> /\ ready = <<>> /\ susp_ready = <<>> /\ blocked = <<>>
  /\ sem = [s \in Semaforos |-> CASE s = "planificacion" -> 1
                                  [] s = "multiprogramacion" -> GradoMultiprogramacion
                                  [] OTHER -> 0]
  /\ pc = Inicio
  /\ en = [t \in Hilos |-> Nadie]
  /\ viejo = [t \in Hilos |-> FALSE]
  /\ tabla = [p \in Procesos |-> SinTabla]
  /\ restante = [p \in Procesos |-> EstimacionInicial]
  /\ ejecutando = FALSE
  /\ bloqueos = <<>> /\ atendido = 0
  /\ respuestas = <<>> /\ tablas = <<>>
  /\ despacho = <<>> /\ devueltos = <<>> /\ irq = 0
  /\ caido = FALSE

\* atender_consola: the process enters new, and only then is counted.
AtenderConsola(p) ==
  /\ p \in por_llegar
  /\ por_llegar' = por_llegar \ {p}
  /\ new' = Append(new, p)
  /\ Post("new")
  /\ UNCHANGED <<terminados, ready, susp_ready, blocked, hilos, pcbs,
                 ejecutando, bloqueos, atendido, memoria, cpu, caido>>

-----------------------------------------------------------------------------
(* Short-term scheduler.                                                   *)

\* Variant: the scheduler does not wait for the CPU to be free.
EsperarCpuSinWait ==
  /\ Ir("stp", "planificacion", "ready") /\ UNCHANGED sem
  /\ UNCHANGED <<mundo, colas, en, viejo, pcbs, ejecutando, bloqueos, atendido,
                 memoria, cpu, caido>>

\* sem_wait(&sem_planificacion): nobody else is on the CPU.
EsperarCpu ==
  /\ Ir("stp", "planificacion", "ready") /\ Wait("planificacion")
  /\ UNCHANGED <<mundo, colas, en, viejo, pcbs, ejecutando, bloqueos, atendido,
                 memoria, cpu, caido>>

\* sem_wait(&elementos_en_cola_ready)
EsperarReady ==
  /\ Ir("stp", "ready", "extraer") /\ Wait("ready")
  /\ UNCHANGED <<mundo, colas, en, viejo, pcbs, ejecutando, bloqueos, atendido,
                 memoria, cpu, caido>>

\* FIFO pops the head.  SRT sorts first when there is more than one: the head
\* is then a process with the least remaining estimate; the order of the rest
\* is sorted anew before it is looked at again, so it is left as it was.
Elegibles ==
  IF Algoritmo = "FIFO"
    THEN {i \in DOMAIN ready : i = 1}
    ELSE {i \in DOMAIN ready :
            \A j \in DOMAIN ready : restante[ready[i]] <= restante[ready[j]]}

Extraer ==
  /\ Ir("stp", "extraer", "enviar")
  /\ \E i \in Elegibles : /\ Tomar("stp", ready[i])
                          /\ ready' = SinIndice(ready, i)
  /\ UNCHANGED <<mundo, new, susp_ready, blocked, sem, viejo, pcbs, ejecutando,
                 bloqueos, atendido, memoria, cpu, caido>>

\* enviar_pcb; SRT sets ejecutando only afterwards (kernel.c:493).
Enviar ==
  /\ Ir("stp", "enviar", IF Algoritmo = "SRT" THEN "marcar" ELSE "planificacion")
  /\ despacho' = Append(despacho, [proc |-> en["stp"], tabla |-> tabla[en["stp"]]])
  /\ Soltar("stp")
  /\ UNCHANGED <<mundo, colas, sem, pcbs, ejecutando, bloqueos, atendido,
                 memoria, devueltos, irq, caido>>

Marcar ==
  /\ Ir("stp", "marcar", "planificacion")
  /\ ejecutando' = TRUE
  /\ UNCHANGED <<mundo, colas, sem, en, viejo, pcbs, bloqueos, atendido,
                 memoria, cpu, caido>>

-----------------------------------------------------------------------------
(* pasar_a_ready(en[t]) as executed by thread t.                           *)

\* Where pasar_a_ready goes after the table number, and after the push.
TrasTabla == IF Algoritmo = "SRT" THEN "interrumpir" ELSE "post"

TrasEncolar(t) == IF tabla[en[t]] = SinTabla THEN "pedir_tabla" ELSE TrasTabla

\* list_push under mutex_ready_list, then the test of tablas_paginas.  Only
\* this thread writes the struct it holds, so testing here is testing there.
Encolar(t) ==
  /\ Ir(t, "encolar", TrasEncolar(t))
  /\ ready' = Append(ready, en[t])
  /\ UNCHANGED <<mundo, new, susp_ready, blocked, sem, en, viejo, pcbs,
                 ejecutando, bloqueos, atendido, memoria, cpu, caido>>

\* solicitar_numero_de_tabla, and memory's answer: memory serves the
\* connection in order, so its answers are in the order of the requests; how
\* late they come is how late they are read.
PedirTabla(t) ==
  /\ Ir(t, "pedir_tabla", "recibir_tabla")
  /\ tablas' = Append(tablas, en[t])
  /\ respuestas' = Append(respuestas, Len(tablas))
  /\ UNCHANGED <<mundo, colas, sem, en, viejo, pcbs, ejecutando, bloqueos,
                 atendido, cpu, caido>>

\* recibir_entero on the shared connection: the first answer there is,
\* whoever asked for it.  It is stored in the struct this thread holds, which
\* is no longer the live one if the process has been to the CPU meanwhile.
RecibirTabla(t) ==
  /\ Ir(t, "recibir_tabla", TrasTabla)
  /\ respuestas # <<>>
  /\ respuestas' = Tail(respuestas)
  /\ tabla' = IF viejo[t] THEN tabla
                          ELSE [tabla EXCEPT ![en[t]] = Head(respuestas)]
  /\ UNCHANGED <<mundo, colas, sem, en, viejo, restante, ejecutando, bloqueos,
                 atendido, tablas, cpu, caido>>

Interrumpir(t) ==
  /\ Ir(t, "interrumpir", "post")
  /\ SolicitarInterrupcion
  /\ UNCHANGED <<mundo, colas, sem, en, viejo, pcbs, ejecutando, bloqueos,
                 atendido, memoria, despacho, devueltos, caido>>

\* sem_post(&elementos_en_cola_ready), the return, and where the caller goes:
\* the I/O and unsuspending threads ask for an interruption of their own.
TrasPasar(t) == CASE t = "disp" -> "liberar"
                  [] t \in {"io", "des"} /\ Algoritmo = "SRT" -> "interrumpir2"
                  [] OTHER -> Inicio[t]

PostReady(t) ==
  /\ Ir(t, "post", TrasPasar(t))
  /\ Post("ready")
  /\ Soltar(t)
  /\ UNCHANGED <<mundo, colas, pcbs, ejecutando, bloqueos, atendido, memoria,
                 cpu, caido>>

\* kernel.c:349 and kernel.c:432
InterrumpirOtraVez(t) ==
  /\ Ir(t, "interrumpir2", Inicio[t])
  /\ SolicitarInterrupcion
  /\ UNCHANGED <<mundo, colas, sem, en, viejo, pcbs, ejecutando, bloqueos,
                 atendido, memoria, despacho, devueltos, caido>>

PasarAReady(t) == \/ Encolar(t)     \/ PedirTabla(t) \/ RecibirTabla(t)
                  \/ Interrumpir(t) \/ PostReady(t)

-----------------------------------------------------------------------------
(* Long-term scheduler: pasar_de_new_a_ready.                              *)

EsperarNew ==
  /\ Ir("ltp", "new", "multiprogramacion") /\ Wait("new")
  /\ UNCHANGED <<mundo, colas, en, viejo, pcbs, ejecutando, bloqueos, atendido,
                 memoria, cpu, caido>>

\* Variant: the sem_wait on the degree is missing.
EsperarGradoSinWait ==
  /\ Ir("ltp", "multiprogramacion", "mirar") /\ UNCHANGED sem
  /\ UNCHANGED <<mundo, colas, en, viejo, pcbs, ejecutando, bloqueos, atendido,
                 memoria, cpu, caido>>

EsperarGrado ==
  /\ Ir("ltp", "multiprogramacion", "mirar") /\ Wait("multiprogramacion")
  /\ UNCHANGED <<mundo, colas, en, viejo, pcbs, ejecutando, bloqueos, atendido,
                 memoria, cpu, caido>>

\* No suspended process is waiting: the oldest new one goes in.  Only this
\* thread pops new, so its head is the same here and after the test.
AdmitirNuevo ==
  /\ Ir("ltp", "mirar", "encolar")
  /\ susp_ready = <<>>
  /\ Tomar("ltp", Head(new))
  /\ new' = Tail(new)
  /\ UNCHANGED <<mundo, ready, susp_ready, blocked, sem, viejo, pcbs, ejecutando,
                 bloqueos, atendido, memoria, cpu, caido>>

\* A suspended process goes first: both semaphores are given back.
CederLugar ==
  /\ Ir("ltp", "mirar", "new")
  /\ susp_ready # <<>>
  /\ sem' = [sem EXCEPT !["multiprogramacion"] = @ + 1, !["new"] = @ + 1]
  /\ UNCHANGED <<mundo, colas, en, viejo, pcbs, ejecutando, bloqueos, atendido,
                 memoria, cpu, caido>>

-----------------------------------------------------------------------------
(* The I/O device: planificacion_io.                                       *)

\* sem_wait, then list_get(blocked, 0): only this thread removes from blocked.
IniciarIO ==
  /\ Ir("io", "bloqueados", "usleep") /\ Wait("bloqueados")
  /\ atendido' = Head(blocked)
  /\ UNCHANGED <<mundo, colas, en, viejo, pcbs, ejecutando, bloqueos, memoria,
                 cpu, caido>>

\* Variant: list_get where list_pop is meant; the blocking stays listed.
TerminarIOSinPop ==
  /\ Ir("io", "usleep", "decidir")
  /\ UNCHANGED blocked
  /\ UNCHANGED <<mundo, new, ready, susp_ready, sem, en, viejo, pcbs, ejecutando,
                 bloqueos, atendido, memoria, cpu, caido>>

\* the usleep is over: list_pop(blocked)
TerminarIO ==
  /\ Ir("io", "usleep", "decidir")
  /\ blocked' = Tail(blocked)
  /\ UNCHANGED <<mundo, new, ready, susp_ready, sem, en, viejo, pcbs, ejecutando,
                 bloqueos, atendido, memoria, cpu, caido>>

\* suspendido == 0: to ready, by pasar_a_ready
SalirAReady ==
  /\ Ir("io", "decidir", "encolar")
  /\ ~bloqueos[atendido].suspendido
  /\ bloqueos' = [bloqueos EXCEPT ![atendido].salida = "ready"]
  /\ Tomar("io", ProcesoDe(atendido))
  /\ atendido' = 0
  /\ UNCHANGED <<mundo, colas, sem, viejo, pcbs, ejecutando, memoria, cpu, caido>>

\* Variant: the process is queued and nobody is told.
SalirASuspReadySinPost ==
  /\ Ir("io", "decidir", "bloqueados")
  /\ bloqueos[atendido].suspendido
  /\ bloqueos' = [bloqueos EXCEPT ![atendido].salida = "susp_ready"]
  /\ susp_ready' = Append(susp_ready, ProcesoDe(atendido))
  /\ atendido' = 0
  /\ UNCHANGED <<mundo, new, ready, blocked, sem, en, viejo, pcbs, ejecutando,
                 memoria, cpu, caido>>

\* otherwise to susp_ready; the post follows the push.
SalirASuspReady ==
  /\ Ir("io", "decidir", "bloqueados")
  /\ bloqueos[atendido].suspendido
  /\ bloqueos' = [bloqueos EXCEPT ![atendido].salida = "susp_ready"]
  /\ susp_ready' = Append(susp_ready, ProcesoDe(atendido))
  /\ atendido' = 0
  /\ Post("susp_ready")
  /\ UNCHANGED <<mundo, new, ready, blocked, en, viejo, pcbs, ejecutando, memoria,
                 cpu, caido>>

-----------------------------------------------------------------------------
(* desuspendidor.                                                          *)

EsperarSuspReady ==
  /\ Ir("des", "susp_ready", "multiprogramacion") /\ Wait("susp_ready")
  /\ UNCHANGED <<mundo, colas, en, viejo, pcbs, ejecutando, bloqueos, atendido,
                 memoria, cpu, caido>>

EsperarLugar ==
  /\ Ir("des", "multiprogramacion", "extraer") /\ Wait("multiprogramacion")
  /\ UNCHANGED <<mundo, colas, en, viejo, pcbs, ejecutando, bloqueos, atendido,
                 memoria, cpu, caido>>

Desuspender ==
  /\ Ir("des", "extraer", "encolar")
  /\ Tomar("des", Head(susp_ready))
  /\ susp_ready' = Tail(susp_ready)
  /\ UNCHANGED <<mundo, new, ready, blocked, sem, viejo, pcbs, ejecutando,
                 bloqueos, atendido, memoria, cpu, caido>>

-----------------------------------------------------------------------------
(* esperar_y_suspender, one thread per blocking b.                         *)

PasoSuspensor(b, desde, hasta) ==
  /\ bloqueos[b].pc = desde
  /\ bloqueos' = [bloqueos EXCEPT ![b].pc = hasta]

\* The blocking the device is serving or will serve next, 0 if there is none.
Primero == IF blocked = <<>> THEN 0 ELSE blocked[1]

\* usleep(tiempo_max_bloqueo*1000) is over: esta_en_lista_bloqueados reads
\* the size of the list, once and outside the mutex.
Vencer(b) ==
  /\ Expiran
  /\ bloqueos[b].pc = "durmiendo"
  /\ bloqueos' = [bloqueos EXCEPT ![b].pc = "buscando", ![b].i = 1,
                                  ![b].n = Len(blocked), ![b].primero = Primero]
  /\ UNCHANGED <<mundo, colas, sem, hilos, pcbs, ejecutando, atendido, memoria,
                 cpu, caido>>

\* Variant: the process alone identifies the blocking.
MismoProceso(b, c) == ProcesoDe(c) = ProcesoDe(b)

\* Is the i-th element the blocking b: same process and same id_block?
MismoBloqueo(b, c) == ProcesoDe(c) = ProcesoDe(b) /\ c = b

\* One turn of the loop: list_get(blocked, i) under the mutex.  list_get
\* returns NULL past the end of the list, and the code dereferences it.
Buscar(b) ==
  /\ bloqueos[b].pc = "buscando"
  /\ LET i == bloqueos[b].i IN
     IF i > bloqueos[b].n
       THEN bloqueos' = [bloqueos EXCEPT ![b].pc = "fin"] /\ UNCHANGED caido
     ELSE IF i > Len(blocked)
       THEN caido' = TRUE /\ UNCHANGED bloqueos
     ELSE /\ bloqueos' = IF MismoBloqueo(b, blocked[i])
                           THEN [bloqueos EXCEPT ![b].pc = "notificar"]
                           ELSE [bloqueos EXCEPT ![b].i = i + 1]
          /\ UNCHANGED caido
  /\ UNCHANGED <<mundo, colas, sem, hilos, pcbs, ejecutando, atendido, memoria, cpu>>

\* Variant: memory is told of the suspension and its answer not waited for.
NotificarSinPedir(b) ==
  /\ bloqueos[b].pc = "notificar"
  /\ bloqueos' = [bloqueos EXCEPT ![b].pc = "fin", ![b].suspendido = TRUE]
  /\ respuestas' = Append(respuestas, Confirmacion)
  /\ Post("multiprogramacion")
  /\ UNCHANGED <<mundo, colas, hilos, pcbs, ejecutando, atendido, tablas, cpu, caido>>

\* notificar_suspencion_proceso, and memory's confirmation.
NotificarSuspension(b) ==
  /\ PasoSuspensor(b, "notificar", "confirmar")
  /\ respuestas' = Append(respuestas, Confirmacion)
  /\ UNCHANGED <<mundo, colas, sem, hilos, pcbs, ejecutando, atendido, tablas,
                 cpu, caido>>

\* Variant: the place is freed whatever memory answers.
ConfirmarSiempre(b) ==
  /\ bloqueos[b].pc = "confirmar"
  /\ respuestas # <<>>
  /\ respuestas' = Tail(respuestas)
  /\ bloqueos' = [bloqueos EXCEPT ![b].pc = "fin",
                                  ![b].suspendido = (Head(respuestas) = Confirmacion)]
  /\ Post("multiprogramacion")
  /\ UNCHANGED <<mundo, colas, hilos, pcbs, ejecutando, atendido, tablas, cpu, caido>>

\* recibir_entero: a 0, whoever it was for, suspends and frees a place.
Confirmar(b) ==
  /\ bloqueos[b].pc = "confirmar"
  /\ respuestas # <<>>
  /\ respuestas' = Tail(respuestas)
  /\ IF Head(respuestas) = Confirmacion
       THEN /\ bloqueos' = [bloqueos EXCEPT ![b].pc = "fin", ![b].suspendido = TRUE]
            /\ Post("multiprogramacion")
       ELSE /\ bloqueos' = [bloqueos EXCEPT ![b].pc = "fin"]
            /\ UNCHANGED sem
  /\ UNCHANGED <<mundo, colas, hilos, pcbs, ejecutando, atendido, tablas, cpu, caido>>

Suspensor(b) == \/ Vencer(b) \/ Buscar(b) \/ NotificarSuspension(b) \/ Confirmar(b)

-----------------------------------------------------------------------------
(* The listener: comunicacion_con_cpu.                                     *)

\* Common to the three messages: ejecutando = false and a new struct with what
\* the CPU sent; a pointer another thread has to the old one goes stale.
Recibir(op) ==
  /\ devueltos # <<>> /\ Head(devueltos).op = op
  /\ devueltos' = Tail(devueltos)
  /\ ejecutando' = FALSE
  /\ tabla' = [tabla EXCEPT ![Head(devueltos).proc] = Head(devueltos).tabla]
  /\ viejo' = [t \in Hilos |-> viejo[t] \/ en[t] = Head(devueltos).proc]

\* A blocking whose timer has just been created.
BloqueoNuevo(p) == [proc |-> p, suspendido |-> FALSE, salida |-> "pendiente",
                    pc |-> "durmiendo", i |-> 0, n |-> 0, primero |-> 0]

\* Variant: the id is taken once contador_bloqueo has been incremented.
RecibirBloqueoIdSiguiente ==
  /\ Ir("disp", "escuchar", "liberar") /\ Recibir("BLOQUEO_IO")
  /\ LET p == Head(devueltos).proc IN
     /\ bloqueos' = Append(bloqueos, BloqueoNuevo(p))
     /\ \E e \in Estimaciones : restante' = [restante EXCEPT ![p] = e]
  /\ blocked' = Append(blocked, Len(bloqueos) + 2)
  /\ Post("bloqueados")
  /\ UNCHANGED <<mundo, new, ready, susp_ready, en, atendido, memoria, despacho,
                 irq, caido>>

\* The estimate of the next burst is computed anew, from the time run and the
\* estimate of this one: it may be longer than either (Consolas has the formula).
RecibirBloqueo ==
  /\ Ir("disp", "escuchar", "liberar") /\ Recibir("BLOQUEO_IO")
  /\ LET p == Head(devueltos).proc IN
     /\ bloqueos' = Append(bloqueos, BloqueoNuevo(p))
     /\ \E e \in Estimaciones : restante' = [restante EXCEPT ![p] = e]
  /\ blocked' = Append(blocked, Len(bloqueos) + 1)
  /\ Post("bloqueados")
  /\ UNCHANGED <<mundo, new, ready, susp_ready, en, atendido, memoria, despacho,
                 irq, caido>>

\* The time run, which may be none, is taken off what was left: nothing keeps it
\* above 0.  pasar_a_ready follows.
RecibirInterrumpido ==
  /\ Ir("disp", "escuchar", "encolar") /\ Recibir("INTERRUPCION")
  /\ LET p == Head(devueltos).proc IN
     /\ \E e \in Estimaciones \union {restante[p]} :
          e <= restante[p] /\ restante' = [restante EXCEPT ![p] = e]
     /\ Tomar("disp", p)
  /\ UNCHANGED <<mundo, colas, sem, bloqueos, atendido, memoria, despacho, irq, caido>>

\* FINALIZACION_PROCESO has no answer; the place is freed, the console is told.
RecibirExit ==
  /\ Ir("disp", "escuchar", "liberar") /\ Recibir("EXIT")
  /\ terminados' = terminados \union {Head(devueltos).proc}
  /\ Post("multiprogramacion")
  /\ UNCHANGED <<por_llegar, colas, en, restante, bloqueos, atendido, memoria,
                 despacho, irq, caido>>

\* sem_post(&sem_planificacion), the last step of the three branches.
LiberarCpu ==
  /\ Ir("disp", "liberar", "escuchar") /\ Post("planificacion")
  /\ UNCHANGED <<mundo, colas, en, viejo, pcbs, ejecutando, bloqueos, atendido,
                 memoria, cpu, caido>>

-----------------------------------------------------------------------------
(* The CPU process as the kernel sees it: it returns each PCB once, when   *)
(* its program asks for I/O, ends, or an interruption has come.  With the  *)
(* PCB it returns, the CPU forgets the interruptions it has taken notice   *)
(* of (cpu.c:147-151).                                                     *)

Devolver(op) ==
  /\ despacho # <<>>
  /\ despacho' = Tail(despacho)
  /\ devueltos' = Append(devueltos, [op |-> op, proc |-> Head(despacho).proc,
                                     tabla |-> Head(despacho).tabla])
  /\ UNCHANGED <<mundo, colas, sem, hilos, pcbs, ejecutando, bloqueos, atendido,
                 memoria, caido>>

CpuBloqueo == /\ Devolver("BLOQUEO_IO")
              /\ Len(bloqueos) < MaxBloqueos
              /\ irq' \in 0..irq

CpuExit == Devolver("EXIT") /\ irq' \in 0..irq

CpuInterrumpe == irq > 0 /\ Devolver("INTERRUPCION") /\ irq' \in 0..(irq - 1)

-----------------------------------------------------------------------------
\* Nothing is left to do (or the kernel has crashed): the threads wait.
Reposo == (terminados = Procesos \/ caido) /\ UNCHANGED vars

Planificador == EsperarCpu \/ EsperarReady \/ Extraer \/ Enviar \/ Marcar
LargoPlazo   == EsperarNew \/ EsperarGrado \/ AdmitirNuevo \/ CederLugar
                  \/ PasarAReady("ltp")
Dispositivo  == IniciarIO \/ TerminarIO \/ SalirAReady \/ SalirASuspReady
                  \/ PasarAReady("io") \/ InterrumpirOtraVez("io")
Desuspendidor == EsperarSuspReady \/ EsperarLugar \/ Desuspender
                  \/ PasarAReady("des") \/ InterrumpirOtraVez("des")
Escucha      == RecibirBloqueo \/ RecibirInterrumpido \/ RecibirExit
                  \/ LiberarCpu \/ PasarAReady("disp")
Cpu          == CpuBloqueo \/ CpuExit \/ CpuInterrumpe

Paso == \/ \E p \in Procesos : AtenderConsola(p)
        \/ Planificador \/ LargoPlazo \/ Dispositivo \/ Desuspendidor \/ Escucha
        \/ \E b \in DOMAIN bloqueos : Suspensor(b)
        \/ Cpu

Next == (~caido /\ Paso) \/ Reposo

Spec == Init /\ [][Next]_vars

\* Fairness.  Every thread is scheduled again and again, and so is the CPU
\* (WF).  Every dispatch executes at least one instruction before it looks at
\* the interruption (cpu.c:143-147), and a program is finite: a process that
\* is dispatched for ever reaches its I/O or its EXIT (SF on CpuAvanza).  A
\* sem_wait on multiprogramacion is not passed over for ever by the posts of
\* others (SF on the two threads that wait there).
CpuAvanza(p) == /\ despacho # <<>> /\ Head(despacho).proc = p
                /\ CpuBloqueo \/ CpuExit

Equidad ==
  /\ WF_vars(~caido /\ Planificador)  /\ WF_vars(~caido /\ LargoPlazo)
  /\ WF_vars(~caido /\ Dispositivo)   /\ WF_vars(~caido /\ Desuspendidor)
  /\ WF_vars(~caido /\ Escucha)       /\ WF_vars(~caido /\ Cpu)
  /\ \A b \in 1..MaxBloqueos :
       WF_vars(~caido /\ b \in DOMAIN bloqueos /\ Suspensor(b))
  /\ \A p \in Procesos : SF_vars(~caido /\ CpuAvanza(p))
  /\ SF_vars(~caido /\ EsperarGrado) /\ SF_vars(~caido /\ EsperarLugar)

SpecJusta == Spec /\ Equidad

-----------------------------------------------------------------------------
(* Correctness.                                                            *)

Ind(b) == IF b THEN 1 ELSE 0

\* Threads that have pushed their process to ready and not yet posted it.
Empujando(t) == Ind(pc[t] \in Pasando \ {"encolar"})

Empujan == Empujando("ltp") + Empujando("io") + Empujando("des") + Empujando("disp")

\* Threads that have taken a semaphore and not yet popped its queue.
Extrayendo     == Ind(pc["stp"] = "extraer")
Admitiendo     == Ind(pc["ltp"] \in {"multiprogramacion", "mirar"})
Sirviendo      == Ind(pc["io"] = "usleep")
Desuspendiendo == Ind(pc["des"] \in {"multiprogramacion", "extraer"})

Veces(p, s) == Cardinality({i \in DOMAIN s : s[i] = p})

VecesEn(p, s) == Cardinality({i \in DOMAIN s : s[i].proc = p})

\* The blockings the I/O device has already let go to ready when the late
\* confirmation of memory marks them as suspended (kernel.c:386-388).
Tardias == {b \in DOMAIN bloqueos : bloqueos[b].suspendido /\ bloqueos[b].salida = "ready"}

\* Every thread is at a place of its own code.
Sitios == DOMAIN pc = Hilos /\ \A t \in Hilos : pc[t] \in Lugares[t]

\* The type of every variable.
TypeOK ==
  /\ por_llegar \subseteq Procesos /\ terminados \subseteq Procesos
  /\ new \in Seq(Procesos) /\ ready \in Seq(Procesos)
  /\ susp_ready \in Seq(Procesos)
  /\ bloqueos \in Seq(Bloqueo)
  /\ blocked \in Seq(DOMAIN bloqueos)
  /\ atendido \in DOMAIN bloqueos \union {0}
  /\ sem \in [Semaforos -> Nat]
  /\ Sitios
  /\ en \in [Hilos -> Procesos \union {Nadie}]
  /\ viejo \in [Hilos -> BOOLEAN]
  /\ tabla \in [Procesos -> Tablas]
  /\ restante \in [Procesos -> Int]
  /\ ejecutando \in BOOLEAN /\ caido \in BOOLEAN
  /\ respuestas \in Seq(Nat) /\ tablas \in Seq(Procesos)
  /\ despacho \in Seq(PCB) /\ devueltos \in Seq(Devuelto) /\ irq \in Nat

\* The scheduler has taken sem_planificacion; the listener has yet to post it.
Planificando == Ind(pc["stp"] \in {"ready", "extraer", "enviar"})
Atendiendo   == Ind(pc["disp"] # "escuchar")

\* A thread has a process in its hands wherever its code uses one.
Punteros ==
  /\ pc["stp"] = "enviar" => en["stp"] \in Procesos
  /\ \A t \in APasar : pc[t] \in Pasando => en[t] \in Procesos
  /\ pc["io"] \in {"usleep", "decidir"} => atendido # 0

\* sem_planificacion, posted by the listener, taken by the scheduler: its one
\* token is either free, in the scheduler's hands, with the PCB on its way to
\* or from the CPU, or with the listener.  So the CPU never has two processes
\* and enviar_pcb never interleaves with another (kernel.c:229, 273, 302).
ExclusionCpu == sem["planificacion"] + Planificando + Len(despacho)
                  + Len(devueltos) + Atendiendo = 1

\* Every counting semaphore agrees with the length of its queue, up to the
\* threads between the two; in particular no thread pops an empty queue.
SemNew        == Len(new) = sem["new"] + Admitiendo
SemReady      == Len(ready) = sem["ready"] + Extrayendo + Empujan
SemBloqueados == Len(blocked) = sem["bloqueados"] + Sirviendo
SemSuspReady  == Len(susp_ready) = sem["susp_ready"] + Desuspendiendo

SemaforosExactos == SemNew /\ SemReady /\ SemBloqueados /\ SemSuspReady

\* conexion_con_memoria is shared by four threads and the suspenders without
\* a mutex; still there is exactly one answer per reader waiting for one, so
\* no recibir_entero waits for ever (whose answer it reads is another matter).
RespuestasExactas ==
  Len(respuestas) = Cardinality({t \in APasar : pc[t] = "recibir_tabla"})
                    + Cardinality({b \in DOMAIN bloqueos : bloqueos[b].pc = "confirmar"})

\* No process is lost or duplicated by any thread: each is in one place.
Conservacion ==
  \A p \in Procesos :
    Ind(p \in por_llegar) + Ind(p \in terminados)
      + Veces(p, new) + Veces(p, ready) + Veces(p, susp_ready)
      + Cardinality({i \in DOMAIN blocked : ProcesoDe(blocked[i]) = p})
      + Ind(pc["io"] = "decidir" /\ atendido # 0 /\ p = ProcesoDe(atendido))
      + VecesEn(p, despacho) + VecesEn(p, devueltos)
      + Ind(pc["stp"] = "enviar" /\ en["stp"] = p)
      + Cardinality({t \in APasar : pc[t] = "encolar" /\ en[t] = p}) = 1

-----------------------------------------------------------------------------
(* The life cycle of a process, read off the state of the threads.         *)

Ocurre(p, s) == \E i \in DOMAIN s : s[i] = p

ConCpu(p) == \/ \E i \in DOMAIN despacho : despacho[i].proc = p
             \/ \E i \in DOMAIN devueltos : devueltos[i].proc = p
             \/ pc["disp"] = "encolar" /\ en["disp"] = p

\* The blockings whose process has not left the I/O device.
EnIO(p) == {b \in DOMAIN bloqueos :
              ProcesoDe(b) = p /\ bloqueos[b].salida = "pendiente"}

Estado(p) ==
  CASE p \in por_llegar -> "FUERA"
    [] p \in terminados -> "EXIT"
    [] Ocurre(p, new) \/ (pc["ltp"] = "encolar" /\ en["ltp"] = p) -> "NEW"
    [] Ocurre(p, susp_ready) \/ (pc["des"] = "encolar" /\ en["des"] = p) -> "SUSP_READY"
    [] ConCpu(p) -> "EXEC"
    [] EnIO(p) # {} -> IF \E b \in EnIO(p) : bloqueos[b].suspendido
                         THEN "SUSP_BLOCKED" ELSE "BLOCKED"
    [] pc["io"] = "encolar" /\ en["io"] = p -> "BLOCKED"
    [] OTHER -> "READY"

\* The kernel implements CicloDeVida as long as no suspension has come late:
\* legal arcs only, one process in EXEC, and nobody admitted or desuspended
\* beyond the degree of multiprogramming.
EstadoDeTodos == [p \in Procesos |-> Estado(p)]
CV == INSTANCE CicloDeVida WITH estado <- EstadoDeTodos
ImplementaCicloDeVida ==
  CV!Init /\ [][Tardias = {} => [CV!Next]_EstadoDeTodos]_vars

\* From then on the arcs and the exclusive EXEC remain, with no promise on the
\* degree (see GradoExacto).
CVSinGrado == INSTANCE CicloDeVida WITH estado <- EstadoDeTodos,
                GradoMultiprogramacion <- Cardinality(Procesos)
ImplementaArcos == CVSinGrado!Spec

\* The degree is kept exactly, but for one place per late suspension: every
\* place is in the semaphore, in a process in memory, or with a thread about
\* to give it to one.
GradoExacto ==
  sem["multiprogramacion"] + Cardinality(CV!EnMemoria)
    + Ind(pc["ltp"] \in {"mirar", "encolar"}) + Ind(pc["des"] \in {"extraer", "encolar"})
  = GradoMultiprogramacion + Cardinality(Tardias)

\* tablas_paginas is the number memory gave to this process: "se recibe el
\* numero de tabla asociado al proceso" (kernel.h:76).
TablaPropia ==
  \A p \in Procesos : tabla[p] # SinTabla =>
    tabla[p] + 1 \in DOMAIN tablas /\ tablas[tabla[p] + 1] = p

\* Was the blocking b in the list when its timer fired?  The ids in the list are
\* consecutive.
Estaba(b) == bloqueos[b].primero \in 1..b

\* Between the expiry of a timer and memory's answer the list changes under it
\* (kernel.c:377-419).  Whatever it meets meanwhile, a timer that fires when its
\* blocking is over notifies and suspends nothing, though its process be blocked
\* again; and one that fires in time passes over its own blocking, and so fails to
\* suspend it, only if the device takes one off the list during the scan.
BusquedaExacta ==
  \A b \in DOMAIN bloqueos :
    /\ bloqueos[b].pc \in {"notificar", "confirmar"} \/ bloqueos[b].suspendido => Estaba(b)
    /\ bloqueos[b].pc = "buscando" /\ Ocurre(b, blocked) =>
         \/ \E j \in DOMAIN blocked : blocked[j] = b /\ j >= bloqueos[b].i
         \/ Primero # bloqueos[b].primero

\* Every process a console sends is answered with RESPUESTA_EXITO: "al
\* finalizar el proceso kernel envia la respuesta a la consola" (kernel.h:69),
\* unless the kernel crashes first (Buscar).
TodosTerminan ==
  \A p \in Procesos : p \notin por_llegar ~> (p \in terminados \/ caido)
=============================================================================
