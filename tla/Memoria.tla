------------------------------- MODULE Memoria -------------------------------
(***************************************************************************)
(* The memory process (memoria/src/memoria.c) and the translation of       *)
(* addresses in the CPU (the three accesses and the TLB of cpu/src/cpu.c). *)
(*                                                                         *)
(*   pcCpu  one access of the CPU: TLB, then memory's thread atender_cpu   *)
(*   pcK    memory's thread atender_kernel, serving the kernel's requests  *)
(*                                                                         *)
(* The two threads share the page tables, the bitmap of frames, the        *)
(* globals numero_de_tabla_primer_nivel and id_a_suspender and the         *)
(* semaphore swap; nothing else protects them.                             *)
(*                                                                         *)
(* Contents are abstracted to what matters of them: in which places the    *)
(* last written content of a page is.  vigente[p, x] are the frames that   *)
(* hold it, enSwap[p] the pages whose copy in the swap file is current.    *)
(* A process is named by its table number, which is also its id.           *)
(***************************************************************************)
EXTENDS Integers, Sequences, FiniteSets

CONSTANTS Procesos, Nadie,
          Paginas,            \* the pages of each process
          GradoMultiprogramacion,
          CantidadMarcos, MarcosPorProceso,
          EntradasTlb,
          AlgoritmoReemplazo, \* "CLOCK" or anything else, which is CLOCK-M
          MaxSuspensiones     \* bound: SUSPENCION_PROCESO requests in all

Marcos == 0..(CantidadMarcos - 1)

SinMarco == -1

ASSUME ConstantesOK ==
  /\ Nadie \notin Procesos /\ Procesos # {}
  /\ Nadie \notin Paginas /\ Paginas # {}
  /\ GradoMultiprogramacion \in Nat \ {0}
  /\ MarcosPorProceso \in Nat \ {0}
  /\ CantidadMarcos \in Nat   \* enough for the processes that are in memory
  /\ CantidadMarcos >= GradoMultiprogramacion * MarcosPorProceso
  /\ EntradasTlb \in Nat \ {0}
  /\ MaxSuspensiones \in Nat

VARIABLES
  estado,         \* kernel: where it has each process
  suspensiones,   \* kernel: requests to suspend sent so far
  adelantado,     \* history: has an I/O ended between a request to suspend
                  \* its process and the confirmation of memory?
  peticiones,     \* requests of the kernel on its socket to memory
  presencia, modificada, \* for each process, the pages with that bit
  marco,          \* t_pagina.marco of each page, kept when it is evicted
  ocupados,       \* bitmap marcos_memoria: the frames in use
  vigente, enSwap,       \* where the last written content of a page is
  numero_de_tabla,       \* global numero_de_tabla_primer_nivel
  id_a_suspender, semSwap,
  pcK, porSwapear,       \* pages atender_kernel has still to write
  pcCpu, acceso, victima,
  tlb,            \* entries [pagina, marco]
  caido           \* memory has touched an address that is not its own

pedidos == <<suspensiones, adelantado>>
kernel  == <<estado, pedidos, peticiones>>
bits    == <<presencia, modificada>>
datos   == <<vigente, enSwap>>
hiloK   == <<id_a_suspender, pcK, porSwapear>>
hiloCpu == <<pcCpu, acceso, victima, tlb>>
vars    == <<kernel, bits, marco, ocupados, datos, numero_de_tabla, hiloK,
             semSwap, hiloCpu, caido>>

Operaciones == {"INICIO_PROCESO", "SUSPENCION_PROCESO", "FINALIZACION_PROCESO"}

SinAcceso == [pagina |-> Nadie, escribe |-> FALSE, marco |-> SinMarco]

Ejecuta(p) == estado[p] = "exec"

\* The frames that the pages of p have or had.
MarcosDe(p) == {marco[<<p, x>>] : x \in Paginas} \ {SinMarco}

Init ==
  /\ estado = [p \in Procesos |-> "nuevo"]
  /\ suspensiones = 0 /\ adelantado = FALSE
  /\ peticiones = <<>>
  /\ presencia = [p \in Procesos |-> {}]
  /\ modificada = [p \in Procesos |-> {}]
  /\ marco = [px \in Procesos \X Paginas |-> SinMarco]
  /\ ocupados = {}
  /\ vigente = [px \in Procesos \X Paginas |-> {}]
  /\ enSwap = [p \in Procesos |-> Paginas]   \* ftruncate: a file of zeros
  /\ numero_de_tabla \in Procesos            \* the process whose table is 0
  /\ id_a_suspender = Nadie /\ semSwap = 0
  /\ pcK = "recibir" /\ porSwapear = {}
  /\ pcCpu = "libre" /\ acceso = SinAcceso /\ victima = Nadie
  /\ tlb = {}
  /\ caido = FALSE

-----------------------------------------------------------------------------
(* What happens to the contents.                                           *)

\* Page x of p is written through frame m: m is current if it was.
Escribir(p, x, m) ==
  /\ vigente' = [px \in Procesos \X Paginas |->
       IF px = <<p, x>> THEN vigente[px] \intersect {m} ELSE vigente[px] \ {m}]
  /\ enSwap' = [enSwap EXCEPT ![p] = @ \ {x}]

\* escribir_en_archivo: frame m goes to the place of page x in the swap file of p.
EnSwapTras(p, x, m) ==
  [enSwap EXCEPT ![p] = IF m \in vigente[<<p, x>>] THEN @ \union {x} ELSE @ \ {x}]

\* escribir_marco_completo: the swap copy of page x of p fills frame m.
VigenteTras(p, x, m, swap) ==
  [px \in Procesos \X Paginas |->
     IF px = <<p, x>> /\ x \in swap[p] THEN vigente[px] \union {m}
                                       ELSE vigente[px] \ {m}]

-----------------------------------------------------------------------------
(* The kernel: the life of its processes, as far as memory sees it.        *)

Pedir(op, p) == peticiones' = Append(peticiones, [op |-> op, proc |-> p])

\* Memory and CPU go on as they were.
SinTocarMemoria ==
  UNCHANGED <<bits, marco, ocupados, datos, numero_de_tabla, hiloK, semSwap, caido>>

EnMemoria == {p \in Procesos : estado[p] \notin {"nuevo", "suspendido", "exit"}}

\* A place of multiprogramacion, then INICIO_PROCESO or, for a suspended
\* process, nothing: its table number is known and memory is not told.
Admitir(p) ==
  /\ Cardinality(EnMemoria) < GradoMultiprogramacion
  /\ \/ /\ estado[p] = "nuevo"
        /\ estado' = [estado EXCEPT ![p] = "iniciando"]
        /\ Pedir("INICIO_PROCESO", p)
     \/ /\ estado[p] = "suspendido"
        /\ estado' = [estado EXCEPT ![p] = "ready"]
        /\ UNCHANGED peticiones
  /\ UNCHANGED <<pedidos, hiloCpu>> /\ SinTocarMemoria

Despachar(p) ==
  /\ estado[p] = "ready" /\ \A q \in Procesos : ~Ejecuta(q)
  /\ estado' = [estado EXCEPT ![p] = "exec"]
  /\ UNCHANGED <<pedidos, peticiones, hiloCpu>> /\ SinTocarMemoria

\* The timer of esperar_y_suspender fires on a process that is blocked.
Suspender(p) ==
  /\ estado[p] = "blocked" /\ suspensiones < MaxSuspensiones
  /\ suspensiones' = suspensiones + 1
  /\ estado' = [estado EXCEPT ![p] = "suspendiendo"]
  /\ Pedir("SUSPENCION_PROCESO", p)
  /\ UNCHANGED <<adelantado, hiloCpu>> /\ SinTocarMemoria

\* Its I/O ends; the confirmation of memory may still be on its way.
Despertar(p) ==
  /\ estado[p] \in {"blocked", "suspendiendo"}
  /\ estado' = [estado EXCEPT ![p] = "ready"]
  /\ adelantado' = (adelantado \/ estado[p] = "suspendiendo")
  /\ UNCHANGED <<suspensiones, peticiones, hiloCpu>> /\ SinTocarMemoria

\* Variant: the TLB survives the process.
DevolverSinReiniciar(p, a) ==
  /\ Ejecuta(p) /\ pcCpu = "libre"
  /\ estado' = [estado EXCEPT ![p] = a]
  /\ IF a = "exit" THEN Pedir("FINALIZACION_PROCESO", p) ELSE UNCHANGED peticiones
  /\ UNCHANGED <<pedidos, hiloCpu>> /\ SinTocarMemoria

\* The CPU gives the process back (I/O, INTERRUPCION, EXIT) and calls
\* reiniciar_tlb; after an EXIT the kernel sends FINALIZACION_PROCESO.
Devolver(p, a) ==
  /\ Ejecuta(p) /\ pcCpu = "libre"
  /\ estado' = [estado EXCEPT ![p] = a]
  /\ IF a = "exit" THEN Pedir("FINALIZACION_PROCESO", p) ELSE UNCHANGED peticiones
  /\ tlb' = {}
  /\ UNCHANGED <<pedidos, pcCpu, acceso, victima>> /\ SinTocarMemoria

-----------------------------------------------------------------------------
(* An access of the CPU: ejecutar_instruccion_read and _write, and the     *)
(* requests that atender_cpu serves for them.                              *)

SinTocarKernel == UNCHANGED <<kernel, hiloK>>

EnTlb(x) == {e \in tlb : e.pagina = x}

\* obtener_TLB; on a miss primer_acceso_memoria, which leaves the table number
\* in the global.
IniciarAcceso(p, x, escribe) ==
  /\ Ejecuta(p) /\ pcCpu = "libre"
  /\ \/ /\ \E e \in EnTlb(x) :
             acceso' = [pagina |-> x, escribe |-> escribe, marco |-> e.marco]
        /\ pcCpu' = "tercero"
        /\ UNCHANGED numero_de_tabla
     \/ /\ EnTlb(x) = {}
        /\ acceso' = [pagina |-> x, escribe |-> escribe, marco |-> SinMarco]
        /\ numero_de_tabla' = p
        /\ pcCpu' = "segundo"
  /\ SinTocarKernel
  /\ UNCHANGED <<bits, marco, ocupados, datos, semSwap, victima, tlb, caido>>

Siguiente == [segundo |-> "buscar", tercero |-> "acceder",
              esperar_segundo |-> "buscar", esperar_tercero |-> "acceder"]

Espera == [segundo |-> "esperar_segundo", tercero |-> "esperar_tercero"]

\* The second and the third access begin with the same question.
MirarSwap ==
  /\ pcCpu \in {"segundo", "tercero"}
  /\ pcCpu' = IF numero_de_tabla = id_a_suspender THEN Espera[pcCpu]
                                                  ELSE Siguiente[pcCpu]
  /\ SinTocarKernel
  /\ UNCHANGED <<bits, marco, ocupados, datos, numero_de_tabla, semSwap,
                 acceso, victima, tlb, caido>>

\* sem_wait(&swap)
EsperarSwap ==
  /\ pcCpu \in {"esperar_segundo", "esperar_tercero"}
  /\ semSwap > 0 /\ semSwap' = semSwap - 1
  /\ pcCpu' = Siguiente[pcCpu]
  /\ SinTocarKernel
  /\ UNCHANGED <<bits, marco, ocupados, datos, numero_de_tabla, acceso,
                 victima, tlb, caido>>

\* Variant: the TLB is full with one entry more than it has.
ResponderUnoMas(m) ==
  /\ acceso' = [acceso EXCEPT !.marco = m]
  /\ pcCpu' = "tercero"
  /\ LET nueva == [pagina |-> acceso.pagina, marco |-> m] IN
     IF Cardinality(tlb) > EntradasTlb
     THEN \E e \in tlb : tlb' = (tlb \ {e}) \union {nueva}
     ELSE tlb' = tlb \union {nueva}

\* The answer to the second access: guardar_en_TLB, with the entry that the
\* algorithm (FIFO or LRU by the second) takes out of a full TLB left open.
Responder(m) ==
  /\ acceso' = [acceso EXCEPT !.marco = m]
  /\ pcCpu' = "tercero"
  /\ LET nueva == [pagina |-> acceso.pagina, marco |-> m] IN
     IF Cardinality(tlb) > EntradasTlb - 1
     THEN \E e \in tlb : tlb' = (tlb \ {e}) \union {nueva}
     ELSE tlb' = tlb \union {nueva}

BuscarPresente ==
  /\ pcCpu = "buscar" /\ acceso.pagina \in presencia[numero_de_tabla]
  /\ Responder(marco[<<numero_de_tabla, acceso.pagina>>])
  /\ SinTocarKernel
  /\ UNCHANGED <<bits, marco, ocupados, datos, numero_de_tabla, semSwap,
                 victima, caido>>

\* Variant: a process may have as many frames as it can get.
QuedanMarcosLibres == ocupados # Marcos

\* page_fault: cantidad_marcos_ocupados_proceso() < marcos_por_proceso
QuedanMarcos == Cardinality(presencia[numero_de_tabla]) < MarcosPorProceso

\* asignar_marco: the first frame that the bitmap has free.  modificada is
\* left as it was.
AsignarMarco ==
  /\ pcCpu = "buscar"
  /\ acceso.pagina \notin presencia[numero_de_tabla] /\ QuedanMarcos
  /\ LET p == numero_de_tabla
         x == acceso.pagina
     IN \E m \in Marcos \ ocupados :
          /\ \A n \in Marcos \ ocupados : m <= n
          /\ ocupados' = ocupados \union {m}
          /\ marco' = [marco EXCEPT ![<<p, x>>] = m]
          /\ presencia' = [presencia EXCEPT ![p] = @ \union {x}]
          /\ vigente' = VigenteTras(p, x, m, enSwap)
          /\ Responder(m)
  /\ SinTocarKernel
  /\ UNCHANGED <<modificada, enSwap, numero_de_tabla, semSwap, victima, caido>>

\* proximo_marco_libre finds none and returns -1: the page is copied to an
\* address before espacio_de_usuario.
AsignarSinMarco ==
  /\ pcCpu = "buscar"
  /\ acceso.pagina \notin presencia[numero_de_tabla] /\ QuedanMarcos
  /\ ocupados = Marcos
  /\ caido' = TRUE
  /\ SinTocarKernel
  /\ UNCHANGED <<bits, marco, ocupados, datos, numero_de_tabla, semSwap, hiloCpu>>

\* reemplazar_pagina: the algorithm settles on one of the pages present.
ElegirVictima ==
  /\ pcCpu = "buscar"
  /\ acceso.pagina \notin presencia[numero_de_tabla] /\ ~QuedanMarcos
  /\ victima' \in presencia[numero_de_tabla]
  /\ pcCpu' = "reemplazar"
  /\ SinTocarKernel
  /\ UNCHANGED <<bits, marco, ocupados, datos, numero_de_tabla, semSwap,
                 acceso, tlb, caido>>

\* Variant: CLOCK-M loads over a modified page as over any other.
SwapTrasReemplazoSinEscribir(p) == enSwap

\* Both algorithms write a modified victim to the swap file first.
SwapTrasReemplazo(p) ==
  IF victima \in modificada[p] THEN EnSwapTras(p, victima, marco[<<p, victima>>])
                               ELSE enSwap

\* ... and load the page in the victim's frame.  CLOCK clears its modificada,
\* CLOCK-M does so only in its second pass, when the victim was modified; the
\* victim's own stays as it is.
CargarPagina ==
  /\ pcCpu = "reemplazar"
  /\ LET p == numero_de_tabla
         x == acceso.pagina
         m == marco[<<p, victima>>]
         swap == SwapTrasReemplazo(p)
     IN /\ enSwap' = swap
        /\ vigente' = VigenteTras(p, x, m, swap)
        /\ marco' = [marco EXCEPT ![<<p, x>>] = m]
        /\ presencia' = [presencia EXCEPT ![p] = (@ \ {victima}) \union {x}]
        /\ modificada' =
             IF AlgoritmoReemplazo = "CLOCK" \/ victima \in modificada[p]
             THEN [modificada EXCEPT ![p] = @ \ {x}] ELSE modificada
        /\ Responder(m)
  /\ victima' = Nadie
  /\ SinTocarKernel
  /\ UNCHANGED <<ocupados, numero_de_tabla, semSwap, caido>>

\* LECTURA_MEMORIA_USUARIO
Leer ==
  /\ pcCpu = "acceder" /\ ~acceso.escribe
  /\ pcCpu' = "libre" /\ acceso' = SinAcceso
  /\ SinTocarKernel
  /\ UNCHANGED <<bits, marco, ocupados, datos, numero_de_tabla, semSwap,
                 victima, tlb, caido>>

\* Variant: the write does not mark the page.
EscribirMarcoSinBit(p) ==
  /\ Ejecuta(p) /\ pcCpu = "acceder" /\ acceso.escribe
  /\ numero_de_tabla' = p
  /\ Escribir(p, acceso.pagina, acceso.marco)
  /\ pcCpu' = "libre" /\ acceso' = SinAcceso
  /\ SinTocarKernel
  /\ UNCHANGED <<bits, marco, ocupados, semSwap, victima, tlb, caido>>

\* ESCRITURA_MEMORIA_USUARIO, which brings the id of the process; then
\* cambiar_bit_modificado on a page of its table that is present in the frame.
EscribirMarco(p) ==
  /\ Ejecuta(p) /\ pcCpu = "acceder" /\ acceso.escribe
  /\ numero_de_tabla' = p
  /\ \E x \in presencia[p] :
       /\ marco[<<p, x>>] = acceso.marco
       /\ modificada' = [modificada EXCEPT ![p] = @ \union {x}]
  /\ Escribir(p, acceso.pagina, acceso.marco)
  /\ pcCpu' = "libre" /\ acceso' = SinAcceso
  /\ SinTocarKernel
  /\ UNCHANGED <<presencia, marco, ocupados, semSwap, victima, tlb, caido>>

\* encontrar_pagina_por_marco finds none: NULL is dereferenced.
EscribirSinPagina(p) ==
  /\ Ejecuta(p) /\ pcCpu = "acceder" /\ acceso.escribe
  /\ \A x \in presencia[p] : marco[<<p, x>>] # acceso.marco
  /\ caido' = TRUE
  /\ SinTocarKernel
  /\ UNCHANGED <<bits, marco, ocupados, datos, numero_de_tabla, semSwap, hiloCpu>>

-----------------------------------------------------------------------------
(* atender_kernel.                                                         *)

Llega(op) ==
  /\ pcK = "recibir" /\ peticiones # <<>> /\ Head(peticiones).op = op
  /\ peticiones' = Tail(peticiones)

SinTocarCpu == UNCHANGED <<hiloCpu, numero_de_tabla, caido>>

\* The tables are created with every page absent, as Init has them.
IniciarProceso ==
  /\ Llega("INICIO_PROCESO")
  /\ estado' = [estado EXCEPT ![Head(peticiones).proc] = "ready"]
  /\ SinTocarCpu
  /\ UNCHANGED <<pedidos, bits, marco, ocupados, datos, hiloK, semSwap>>

\* Variant: a process that ends keeps its frames.
FinalizarSinLiberar ==
  /\ Llega("FINALIZACION_PROCESO")
  /\ SinTocarCpu
  /\ UNCHANGED <<estado, pedidos, bits, marco, ocupados, datos, hiloK, semSwap>>

\* liberar_marcos_proceso: the frame of every page, present or not (to clean
\* the bit -1 of the bitmap has no effect).  The tables are left.
FinalizarProceso ==
  /\ Llega("FINALIZACION_PROCESO")
  /\ ocupados' = ocupados \ MarcosDe(Head(peticiones).proc)
  /\ SinTocarCpu
  /\ UNCHANGED <<estado, pedidos, bits, marco, datos, hiloK, semSwap>>

\* get_paginas_modificadas
IniciarSuspension ==
  /\ Llega("SUSPENCION_PROCESO")
  /\ LET p == Head(peticiones).proc IN
     /\ id_a_suspender' = p
     /\ porSwapear' = modificada[p] \intersect presencia[p]
  /\ pcK' = "swapear"
  /\ SinTocarCpu
  /\ UNCHANGED <<estado, pedidos, bits, marco, ocupados, datos, semSwap>>

\* Variant: the page leaves memory without its copy in the swap file.
SwapearSinEscribir ==
  /\ pcK = "swapear"
  /\ \E x \in porSwapear :
       /\ porSwapear' = porSwapear \ {x}
       /\ modificada' = [modificada EXCEPT ![id_a_suspender] = @ \ {x}]
       /\ presencia' = [presencia EXCEPT ![id_a_suspender] = @ \ {x}]
  /\ SinTocarCpu
  /\ UNCHANGED <<kernel, marco, ocupados, datos, id_a_suspender, pcK, semSwap>>

\* One page to the swap file; each takes the disk's time.
SwapearPagina ==
  /\ pcK = "swapear"
  /\ \E x \in porSwapear :
       /\ porSwapear' = porSwapear \ {x}
       /\ enSwap' = EnSwapTras(id_a_suspender, x, marco[<<id_a_suspender, x>>])
       /\ modificada' = [modificada EXCEPT ![id_a_suspender] = @ \ {x}]
       /\ presencia' = [presencia EXCEPT ![id_a_suspender] = @ \ {x}]
  /\ SinTocarCpu
  /\ UNCHANGED <<kernel, marco, ocupados, vigente, id_a_suspender, pcK, semSwap>>

\* Variant: what was not modified stays present.
DescartarNada ==
  /\ pcK = "swapear" /\ porSwapear = {}
  /\ pcK' = "liberar"
  /\ SinTocarCpu
  /\ UNCHANGED <<kernel, bits, marco, ocupados, datos, id_a_suspender,
                 porSwapear, semSwap>>

\* encontrar_paginas_en_memoria takes the table of the global, which names the
\* last process the CPU translated for, not the one to suspend.
DescartarPresentes ==
  /\ pcK = "swapear" /\ porSwapear = {}
  /\ presencia' = [presencia EXCEPT ![numero_de_tabla] = {}]
  /\ pcK' = "liberar"
  /\ SinTocarCpu
  /\ UNCHANGED <<kernel, modificada, marco, ocupados, datos, id_a_suspender,
                 porSwapear, semSwap>>

\* Variant: only the frames of the pages still present are freed.
LiberarPresentes ==
  /\ pcK = "liberar"
  /\ ocupados' = ocupados \
       {marco[<<id_a_suspender, x>>] : x \in presencia[id_a_suspender]}
  /\ pcK' = "avisar"
  /\ SinTocarCpu
  /\ UNCHANGED <<kernel, bits, marco, datos, id_a_suspender, porSwapear, semSwap>>

LiberarMarcos ==
  /\ pcK = "liberar"
  /\ ocupados' = ocupados \ MarcosDe(id_a_suspender)
  /\ pcK' = "avisar"
  /\ SinTocarCpu
  /\ UNCHANGED <<kernel, bits, marco, datos, id_a_suspender, porSwapear, semSwap>>

\* sem_post(&swap) if the CPU is, or was last, with that process.
AvisarCpu ==
  /\ pcK = "avisar"
  /\ semSwap' = IF numero_de_tabla = id_a_suspender THEN semSwap + 1 ELSE semSwap
  /\ pcK' = "confirmar"
  /\ SinTocarCpu
  /\ UNCHANGED <<kernel, bits, marco, ocupados, datos, id_a_suspender, porSwapear>>

\* Variant: the id of the last process suspended stays.
ConfirmarSinLimpiar ==
  /\ pcK = "confirmar"
  /\ estado' = IF estado[id_a_suspender] = "suspendiendo"
               THEN [estado EXCEPT ![id_a_suspender] = "suspendido"] ELSE estado
  /\ pcK' = "recibir"
  /\ SinTocarCpu
  /\ UNCHANGED <<pedidos, peticiones, bits, marco, ocupados, datos,
                 id_a_suspender, porSwapear, semSwap>>

\* id_a_suspender = -1 and the confirmation, with which the kernel marks the
\* process suspended.
ConfirmarSuspension ==
  /\ pcK = "confirmar"
  /\ estado' = IF estado[id_a_suspender] = "suspendiendo"
               THEN [estado EXCEPT ![id_a_suspender] = "suspendido"] ELSE estado
  /\ id_a_suspender' = Nadie
  /\ pcK' = "recibir"
  /\ SinTocarCpu
  /\ UNCHANGED <<pedidos, peticiones, bits, marco, ocupados, datos,
                 porSwapear, semSwap>>

-----------------------------------------------------------------------------
\* Everything has ended, or memory has crashed.
Reposo == /\ caido \/ (peticiones = <<>> /\ \A p \in Procesos : estado[p] = "exit")
          /\ UNCHANGED vars

Planificar == \E p \in Procesos :
                \/ Admitir(p) \/ Despachar(p) \/ Suspender(p) \/ Despertar(p)
                \/ \E a \in {"ready", "blocked", "exit"} : Devolver(p, a)

AtenderCpu == \/ \E p \in Procesos :
                   \/ \E x \in Paginas, e \in BOOLEAN : IniciarAcceso(p, x, e)
                   \/ EscribirMarco(p) \/ EscribirSinPagina(p)
              \/ MirarSwap \/ EsperarSwap \/ BuscarPresente \/ AsignarMarco
              \/ AsignarSinMarco \/ ElegirVictima \/ CargarPagina \/ Leer

AtenderKernel == \/ IniciarProceso \/ FinalizarProceso \/ IniciarSuspension
                 \/ SwapearPagina \/ DescartarPresentes \/ LiberarMarcos
                 \/ AvisarCpu \/ ConfirmarSuspension

Next == (~caido /\ (Planificar \/ AtenderCpu \/ AtenderKernel)) \/ Reposo

Spec == Init /\ [][Next]_vars

-----------------------------------------------------------------------------
(* Correctness.                                                            *)

Estados == {"nuevo", "iniciando", "ready", "exec", "blocked", "suspendiendo",
            "suspendido", "exit"}

\* The type of every variable.
TypeOK ==
  /\ estado \in [Procesos -> Estados]
  /\ suspensiones \in 0..MaxSuspensiones /\ adelantado \in BOOLEAN
  /\ peticiones \in Seq([op : Operaciones, proc : Procesos])
  /\ presencia \in [Procesos -> SUBSET Paginas]
  /\ modificada \in [Procesos -> SUBSET Paginas]
  /\ marco \in [Procesos \X Paginas -> Marcos \union {SinMarco}]
  /\ ocupados \subseteq Marcos
  /\ vigente \in [Procesos \X Paginas -> SUBSET Marcos]
  /\ enSwap \in [Procesos -> SUBSET Paginas]
  /\ numero_de_tabla \in Procesos
  /\ id_a_suspender \in Procesos \union {Nadie}
  /\ semSwap \in Nat
  /\ pcK \in {"recibir", "swapear", "liberar", "avisar", "confirmar"}
  /\ porSwapear \subseteq Paginas
  /\ pcCpu \in {"libre", "segundo", "esperar_segundo", "buscar", "reemplazar",
                "tercero", "esperar_tercero", "acceder"}
  /\ acceso \in [pagina : Paginas \union {Nadie}, escribe : BOOLEAN,
                 marco : Marcos \union {SinMarco}]
  /\ victima \in Paginas \union {Nadie}
  /\ tlb \subseteq [pagina : Paginas, marco : Marcos] /\ Cardinality(tlb) <= EntradasTlb
  /\ caido \in BOOLEAN

\* The properties below are promised while no process has come back before
\* memory confirmed its suspension (adelantado).

\* The frame the CPU is about to read or write, from the TLB or from memory,
\* holds the last written content of the page it means (cpu.c:236-274).
AccesoPropio ==
  \A p \in Procesos : ~adelantado /\ Ejecuta(p) /\ pcCpu = "acceder" =>
    acceso.marco \in vigente[<<p, acceso.pagina>>]

\* A process that has not ended: memory answers for its pages.
Vivo(p) == estado[p] # "exit"

\* What was written is never lost: a page that is present is current in its
\* frame, and one that is not is current in the swap file (memoria.c:261-523).
CopiaVigente ==
  \A p \in Procesos, x \in Paginas : ~adelantado /\ Vivo(p) =>
    IF x \in presencia[p] THEN marco[<<p, x>>] \in vigente[<<p, x>>]
                          ELSE x \in enSwap[p]

\* The bit that decides whether a victim is written is never false for a page
\* whose only current copy is in its frame (memoria.c:325, 404, 441, 235).
ModificadaBasta ==
  \A p \in Procesos : ~adelantado /\ Vivo(p) =>
    presencia[p] \ enSwap[p] \subseteq modificada[p]

\* Processes whose frames memory has still to take back.
Retenidos == {p \in Procesos :
               \/ Vivo(p)
               \/ \E i \in DOMAIN peticiones :
                    peticiones[i] = [op |-> "FINALIZACION_PROCESO", proc |-> p]}

\* A suspension that has not yet freed the frames of its process.
PorLiberar == IF pcK \in {"swapear", "liberar"} THEN MarcosDe(id_a_suspender) ELSE {}

Presentes == {px \in Procesos \X Paginas : px[2] \in presencia[px[1]]}

\* No two pages share a frame, and the bitmap has exactly the frames in use: a
\* frame is neither given twice nor lost (memoria.c:140-153, 622-636).
MarcosExactos ==
  LET enUso == {px \in Presentes : px[1] \in Retenidos} IN
  ~adelantado =>
  /\ \A px, py \in enUso : marco[px] = marco[py] => px = py
  /\ {marco[px] : px \in enUso} \subseteq ocupados
  /\ ocupados \subseteq {marco[px] : px \in enUso} \union PorLiberar

\* A process has at most its frames, so with GRADO_MULTIPROGRAMACION processes
\* there is always a free one, and no write finds its page gone: memory
\* touches no address that is not its own (memoria.c:288-295, 152, 666).
CuotaRespetada ==
  /\ \A p \in Procesos : Cardinality(presencia[p]) <= MarcosPorProceso
  /\ ~adelantado => ~caido

\* kernel.h:73, of SUSPENCION_PROCESO: memory frees the space of the process
\* and sends its user memory to swap; a suspended process has no page present.
SuspendidoFuera ==
  \A p \in Procesos : ~adelantado /\ estado[p] = "suspendido" => presencia[p] = {}

\* The CPU's thread comes to wait on swap (memoria.c:734, 748) only in an
\* execution where a process runs before its suspension is confirmed.  It must:
\* the one sem_post there is per suspension comes before id_a_suspender is
\* cleared, so a wait that begins between the two is never ended.
SinEsperas == pcCpu \in {"esperar_segundo", "esperar_tercero"} => adelantado
=============================================================================
