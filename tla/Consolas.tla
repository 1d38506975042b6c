------------------------------ MODULE Consolas ------------------------------
(***************************************************************************)
(* From a console to its answer: the sockets of the consoles, the accept   *)
(* loop and the threads atender_consola of the kernel, which share two     *)
(* globals (conexion_consola and numero_proceso), and the way of a process *)
(* through the four programs, with what each writes on a socket and the    *)
(* next reads.                                                             *)
(*                                                                         *)
(* A console, and its socket in the kernel, is a number.  Suspensions and  *)
(* where the interruptions come from are in Kernel and Cpu; here an        *)
(* interruption comes after any instruction.  A thread takes a process     *)
(* from one queue to the next in one step, but for the first table number, *)
(* which is asked for once the process is in ready.  The scheduler is SRT. *)
(***************************************************************************)
EXTENDS Mensajes, FiniteSets

CONSTANTS Programas,        \* of each console: its instructions, as read from the script
          EstimacionInicial, Grado,   \* ESTIMACION_INICIAL, GRADO_MULTIPROGRAMACION
          Duraciones,       \* bound: how long a burst may last
          Repeticiones,     \* bound: what atoi makes of what follows a string in memory
          MaxInterrupciones, MaxCaidas   \* bounds

Consola == DOMAIN Programas

ASSUME ConstantesOK ==
  /\ Programas \in Seq(Seq(Seq(Nat)))
  /\ EstimacionInicial \in Nat /\ Grado \in Nat \ {0} /\ Duraciones \subseteq Nat
  /\ Repeticiones \subseteq Nat /\ Repeticiones # {}
  /\ MaxInterrupciones \in Nat /\ MaxCaidas \in Nat

VARIABLES
  consola,            \* where the main of each console is
  entrada, respuesta, \* of each socket: cells the kernel, and the console, have to read
  cerrados,           \* sockets closed by the console, by the kernel; of the first,
                      \* those that have been sent to since
  pendientes,         \* connections to accept
  pcMain, conexion_consola, numero_proceso,
  hilos,              \* the threads atender_consola, one per connection accepted
  caido,              \* the kernel has crashed
  new, elementos_en_cola_new, multiprogramacion, ready, blocked,
  sem_planificacion,
  elementos_en_cola_ready,
  pasa,               \* each thread of PasanAReady: where in pasar_a_ready it is, the process
                      \* it asks a table for, and where in ready that is (0 once dispatched)
  dispatch, devuelto, \* the message on the dispatch socket, each way
  cpu,                \* the PCB in the CPU
  tablas, archivos,   \* memory: number of tables, size of each swap file
  respuestas,         \* the table numbers the kernel has not read yet
  interrupciones, caidas,
  cruzada,            \* history: a connection was accepted before the thread of an
                      \* earlier one had read conexion_consola for the last time
  solapada,           \* history: two threads were between taking an id and queueing
  enviado,            \* history: the PCB sent last, until it is back
  finalizados,        \* history: of the PCBs that came back with EXIT, what was executed
  apurado,            \* history: a process was dispatched before its table number came
  perdido             \* history: the CPU left its loop without sending the PCB back

conexiones == <<consola, entrada, respuesta, cerrados, pendientes>>
globales   == <<pcMain, conexion_consola, numero_proceso>>
colas      == <<new, elementos_en_cola_new, multiprogramacion, ready, blocked,
                elementos_en_cola_ready, pasa>>
despacho   == <<sem_planificacion, dispatch, devuelto, cpu, enviado, interrupciones>>
memoria    == <<tablas, archivos, respuestas>>
historia   == <<caidas, cruzada, solapada, finalizados, apurado, perdido>>
vars == <<conexiones, globales, hilos, caido, colas, despacho, memoria, historia>>

Nadie == 0
SinTabla == -1

\* The threads that call pasar_a_ready: pasar_de_new_a_ready, planificacion_io and
\* comunicacion_con_cpu.
PasanAReady == {"ltp", "io", "disp"}

\* A thread that is not in pasar_a_ready.
Fuera == [pc |-> "fuera", id |-> 0, tamanio_proceso |-> 0, lugar |-> 0]

\* malloc'ed by recibir_proceso and filled bit by bit.
PcbVacio ==
  [id |-> -1, socket |-> Nadie, tamanio_proceso |-> -1, program_counter |-> 0,
   estimacion_rafaga |-> EstimacionInicial, tablas_paginas |-> SinTabla,
   inicio_rafaga |-> 0, restante |-> EstimacionInicial, tiempo_ejecucion |-> 0,
   instrucciones |-> <<>>]

Hilo(lugar) == [pc |-> lugar, socket |-> Nadie, size |-> 0, aux |-> 0,
                proceso |-> PcbVacio]

\* The second argument of the console; another for each, to tell whose a process is.
Tamanio(c) == 500 + c

Init ==
  /\ consola = [c \in Consola |-> "nueva"]
  /\ entrada = [c \in Consola |-> <<>>] /\ respuesta = [c \in Consola |-> <<>>]
  /\ cerrados = [consola |-> {}, kernel |-> {}, reset |-> {}]
  /\ pendientes = <<>>
  /\ pcMain = "accept" /\ conexion_consola = Nadie /\ numero_proceso = 0
  /\ hilos = [k \in Consola |-> Hilo("sin_crear")]
  /\ caido = FALSE
  /\ new = <<>> /\ elementos_en_cola_new = 0 /\ multiprogramacion = Grado
  /\ ready = <<>> /\ blocked = <<>> /\ sem_planificacion = 1
  /\ elementos_en_cola_ready = 0 /\ pasa = [t \in PasanAReady |-> Fuera]
  /\ dispatch = <<>> /\ devuelto = <<>> /\ cpu = <<>>
  /\ tablas = 0 /\ archivos = [i \in {} |-> 0] /\ respuestas = <<>>
  /\ interrupciones = 0 /\ caidas = 0
  /\ cruzada = FALSE /\ solapada = FALSE
  /\ enviado = PcbVacio /\ finalizados = {} /\ apurado = FALSE /\ perdido = FALSE

-----------------------------------------------------------------------------
(* The console.                                                            *)

SinTocarKernel ==
  UNCHANGED <<globales, hilos, caido, colas, despacho, memoria, cruzada, solapada,
              finalizados, apurado, perdido>>

Ir(c, lugar) == consola' = [consola EXCEPT ![c] = lugar]

\* crear_conexion
Conectar(c) ==
  /\ consola[c] = "nueva" /\ ~caido /\ Ir(c, "conectada")
  /\ pendientes' = Append(pendientes, c)
  /\ SinTocarKernel /\ UNCHANGED <<entrada, respuesta, cerrados, caidas>>

\* enviar_a_kernel
Enviar(c) ==
  /\ consola[c] = "conectada" /\ Ir(c, "esperando")
  /\ entrada' = [entrada EXCEPT ![c] = @ \o PaqueteDeConsola(Tamanio(c), Programas[c])]
  /\ SinTocarKernel /\ UNCHANGED <<respuesta, cerrados, pendientes, caidas>>

\* liberar_conexion, or the end of the program.
CerrarConsola(c) == cerrados' = [cerrados EXCEPT !.consola = @ \union {c}]

\* The console is killed, or does not find its script.
Caer(c) ==
  /\ consola[c] \in {"conectada", "esperando"} /\ caidas < MaxCaidas
  /\ Ir(c, "caida") /\ CerrarConsola(c)
  /\ caidas' = caidas + 1
  /\ SinTocarKernel /\ UNCHANGED <<entrada, respuesta, pendientes>>

\* recibir_respuesta and terminar_programa
RecibirRespuesta(c) ==
  /\ consola[c] = "esperando" /\ respuesta[c] # <<>>
  /\ Ir(c, IF Head(respuesta[c]) > 0 THEN "exito" ELSE "fallo")
  /\ respuesta' = [respuesta EXCEPT ![c] = Tail(@)]
  /\ CerrarConsola(c)
  /\ SinTocarKernel /\ UNCHANGED <<entrada, pendientes, caidas>>

\* ... on a connection that is closed.
PerderConexion(c) ==
  /\ consola[c] = "esperando" /\ respuesta[c] = <<>>
  /\ caido \/ c \in cerrados.kernel
  /\ Ir(c, "fallo") /\ CerrarConsola(c)
  /\ SinTocarKernel /\ UNCHANGED <<entrada, respuesta, pendientes, caidas>>

-----------------------------------------------------------------------------
(* main of the kernel.                                                     *)

\* The thread has not read conexion_consola for the last time.
MiraElGlobal(k) ==
  hilos[k].pc \in {"conexion_1", "operacion", "conexion_2", "tamanio", "size",
                   "buffer", "conexion_3"}

\* esperar_cliente
Aceptar ==
  /\ ~caido /\ pcMain = "accept" /\ pendientes # <<>>
  /\ conexion_consola' = Head(pendientes) /\ pendientes' = Tail(pendientes)
  /\ pcMain' = "pthread_create"
  /\ cruzada' = (cruzada \/ \E k \in Consola : MiraElGlobal(k))
  /\ UNCHANGED <<consola, entrada, respuesta, cerrados, numero_proceso, hilos, caido,
                 colas, despacho, memoria, caidas, solapada, finalizados, apurado,
                 perdido>>

CrearHilo ==
  /\ ~caido /\ pcMain = "pthread_create" /\ pcMain' = "accept"
  /\ \E k \in Consola :
       /\ hilos[k].pc = "sin_crear" /\ \A j \in 1..(k - 1) : hilos[j].pc # "sin_crear"
       /\ hilos' = [hilos EXCEPT ![k] = Hilo("conexion_1")]
  /\ UNCHANGED <<conexiones, conexion_consola, numero_proceso, caido, colas, despacho,
                 memoria, historia>>

-----------------------------------------------------------------------------
(* atender_consola.                                                        *)

En(k, lugar) == ~caido /\ hilos[k].pc = lugar

Pasar(k, hilo) == hilos' = [hilos EXCEPT ![k] = hilo]

SinTocarCola ==
  UNCHANGED <<pcMain, conexion_consola, colas, despacho, memoria, caidas, cruzada,
              finalizados, apurado, perdido>>

\* What the standard leaves undefined: the kernel crashes, or the thread goes
\* on with the outcome given.
Indefinido(k, hilo) ==
  \/ caido' = TRUE /\ UNCHANGED hilos
  \/ Pasar(k, hilo) /\ UNCHANGED caido

\* The argument of recibir_operacion, of recibir_proceso.
LeerConexion(k) ==
  /\ \E p \in {<<"conexion_1", "operacion">>, <<"conexion_2", "tamanio">>} :
       En(k, p[1]) /\ Pasar(k, [hilos[k] EXCEPT !.pc = p[2], !.socket = conexion_consola])
  /\ SinTocarCola /\ UNCHANGED <<conexiones, numero_proceso, caido, solapada>>

\* recv of n cells with MSG_WAITALL: it waits for them ...
Recibir(k, n) ==
  LET s == hilos[k].socket IN
  /\ Len(entrada[s]) >= n
  /\ entrada' = [entrada EXCEPT ![s] = SubSeq(@, n + 1, Len(@))]
  /\ UNCHANGED <<consola, respuesta, cerrados, pendientes>>

Recibido(k) == entrada[hilos[k].socket]

\* ... or for the end of the connection.
Cerrada(k, n) ==
  LET s == hilos[k].socket IN
  Len(entrada[s]) < n /\ s \in cerrados.consola \union cerrados.kernel

\* close, in recibir_operacion and recibir_tamanio_proceso
Cerrar(k) ==
  /\ cerrados' = [cerrados EXCEPT !.kernel = @ \union {hilos[k].socket}]
  /\ UNCHANGED <<consola, entrada, respuesta, pendientes>>

\* An operation nobody knows ends with the id of a process that was never
\* assigned.
RecibirOperacion(k) ==
  /\ En(k, "operacion")
  /\ \/ /\ Recibir(k, 1)
        /\ IF Head(Recibido(k)) = LISTA_DE_INSTRUCCIONES
           THEN Pasar(k, [hilos[k] EXCEPT !.pc = "conexion_2"]) /\ UNCHANGED caido
           ELSE Indefinido(k, Hilo("fin"))
     \/ /\ Cerrada(k, 1) /\ Cerrar(k)
        /\ Pasar(k, Hilo("fin")) /\ UNCHANGED caido
  /\ SinTocarCola /\ UNCHANGED <<numero_proceso, solapada>>

\* recibir_tamanio_proceso
RecibirTamanio(k) ==
  /\ En(k, "tamanio")
  /\ \/ /\ Recibir(k, 1)
        /\ Pasar(k, [hilos[k] EXCEPT !.pc = "size",
                                     !.proceso.tamanio_proceso = Head(Recibido(k))])
     \/ /\ Cerrada(k, 1) /\ Cerrar(k)
        /\ Pasar(k, [hilos[k] EXCEPT !.pc = "size", !.proceso.tamanio_proceso = -1])
  /\ SinTocarCola /\ UNCHANGED <<numero_proceso, caido, solapada>>

\* The first recv of recibir_buffer.
RecibirSize(k) ==
  /\ En(k, "size") /\ Recibir(k, 1)
  /\ Pasar(k, [hilos[k] EXCEPT !.pc = "buffer", !.size = Head(Recibido(k))])
  /\ SinTocarCola /\ UNCHANGED <<numero_proceso, caido, solapada>>

\* Neither recv of recibir_buffer asks whether something came: the size, or the
\* buffer, is what malloc gave.
PerderBuffer(k) ==
  /\ \/ En(k, "size") /\ Cerrada(k, 1)
     \/ En(k, "buffer") /\ Cerrada(k, hilos[k].size)
  /\ Indefinido(k, [hilos[k] EXCEPT !.pc = "conexion_3", !.size = 0])
  /\ SinTocarCola /\ UNCHANGED <<conexiones, numero_proceso, solapada>>

NO_OP == 10
IO    == 11
SALIR == 12

\* parsear_instrucciones: as many NO_OP as its parameter says, one if that is 0.
\* Where there is none it reads beyond the string: resto is what atoi makes of
\* what is there, for each instruction.
Parsear(instrucciones, resto) ==
  LET Parametro(j) == IF Len(instrucciones[j]) = 1 THEN resto[j] ELSE instrucciones[j][2]
      Veces(j) == IF Parametro(j) = 0 THEN 1 ELSE Parametro(j)
      Una(j) == IF instrucciones[j] # <<>> /\ instrucciones[j][1] = NO_OP
                THEN [i \in 1..Veces(j) |-> <<NO_OP>>] ELSE <<instrucciones[j]>>
  IN FlattenSeq([j \in DOMAIN instrucciones |-> Una(j)])

\* What may come of that.
Parseos(instrucciones) ==
  {Parsear(instrucciones, resto) : resto \in [DOMAIN instrucciones -> Repeticiones]}

\* The rest of recibir_proceso and parsear_instrucciones.  What another thread
\* has read from is no sequence of instructions.
RecibirBuffer(k) ==
  /\ En(k, "buffer") /\ Recibir(k, hilos[k].size)
  /\ LET stream == SubSeq(Recibido(k), 1, hilos[k].size)
         sigue == [hilos[k] EXCEPT !.pc = "conexion_3", !.size = 0]
     IN IF EsStream(stream)
        THEN /\ \E ins \in Parseos(Instrucciones(stream)) :
                  Pasar(k, [sigue EXCEPT !.proceso.instrucciones = ins])
             /\ UNCHANGED caido
        ELSE Indefinido(k, sigue)
  /\ SinTocarCola /\ UNCHANGED <<numero_proceso, solapada>>

\* proceso->socket = conexion_consola
LeerSocket(k) ==
  /\ En(k, "conexion_3")
  /\ Pasar(k, [hilos[k] EXCEPT !.pc = "id", !.socket = Nadie,
                               !.proceso.socket = conexion_consola])
  /\ SinTocarCola /\ UNCHANGED <<conexiones, numero_proceso, caido, solapada>>

EntreIdYCola(k) == hilos[k].pc \in {"leer_numero", "guardar_numero", "encolar"}

\* proceso->id = numero_proceso
AsignarId(k) ==
  /\ En(k, "id")
  /\ Pasar(k, [hilos[k] EXCEPT !.pc = "leer_numero", !.proceso.id = numero_proceso])
  /\ solapada' = (solapada \/ \E j \in Consola : EntreIdYCola(j))
  /\ SinTocarCola /\ UNCHANGED <<conexiones, numero_proceso, caido>>

\* numero_proceso++, which reads and writes.
LeerNumero(k) ==
  /\ En(k, "leer_numero")
  /\ Pasar(k, [hilos[k] EXCEPT !.pc = "guardar_numero", !.aux = numero_proceso])
  /\ SinTocarCola /\ UNCHANGED <<conexiones, numero_proceso, caido, solapada>>

\* With no size the log is destroyed, which others go on using.
GuardarNumero(k) ==
  /\ En(k, "guardar_numero")
  /\ numero_proceso' = hilos[k].aux + 1
  /\ IF hilos[k].proceso.tamanio_proceso = -1 THEN Indefinido(k, Hilo("fin"))
     ELSE Pasar(k, [hilos[k] EXCEPT !.pc = "encolar", !.aux = 0]) /\ UNCHANGED caido
  /\ SinTocarCola /\ UNCHANGED <<conexiones, solapada>>

SinTocarDespacho ==
  UNCHANGED <<conexiones, globales, caido, multiprogramacion, ready, blocked,
              elementos_en_cola_ready, pasa, despacho, memoria, historia>>

\* Variant: at the head of the queue.
EncolarPrimero(k) ==
  /\ En(k, "encolar") /\ Pasar(k, Hilo("post"))
  /\ new' = <<hilos[k].proceso>> \o new
  /\ SinTocarDespacho /\ UNCHANGED elementos_en_cola_new

\* queue_push
EncolarNuevo(k) ==
  /\ En(k, "encolar") /\ Pasar(k, Hilo("post"))
  /\ new' = Append(new, hilos[k].proceso)
  /\ SinTocarDespacho /\ UNCHANGED elementos_en_cola_new

\* Variant: the semaphore is not posted.
PostNewSinPost(k) ==
  En(k, "post") /\ Pasar(k, Hilo("fin"))
    /\ SinTocarDespacho /\ UNCHANGED <<new, elementos_en_cola_new>>

\* sem_post
PostNew(k) ==
  /\ En(k, "post") /\ Pasar(k, Hilo("fin"))
  /\ elementos_en_cola_new' = elementos_en_cola_new + 1
  /\ SinTocarDespacho /\ UNCHANGED new

AtenderConsola(k) ==
  \/ LeerConexion(k) \/ RecibirOperacion(k) \/ RecibirTamanio(k) \/ RecibirSize(k)
  \/ PerderBuffer(k) \/ RecibirBuffer(k) \/ LeerSocket(k) \/ AsignarId(k) \/ LeerNumero(k)
  \/ GuardarNumero(k) \/ EncolarNuevo(k) \/ PostNew(k)

-----------------------------------------------------------------------------
(* From new to ready, to the CPU and back.                                 *)

SinTocarConsolas == UNCHANGED <<conexiones, globales, hilos, caido, caidas, cruzada,
                                solapada, perdido>>

\* pasar_a_ready(p), called by t: list_push, and sem_post if p has its table.  A
\* sem_post only lets others go on, so it comes with the step it follows.
PasarAReady(t, p) ==
  /\ pasa[t].pc = "fuera" /\ ready' = Append(ready, p)
  /\ \/ /\ p.tablas_paginas # SinTabla
        /\ elementos_en_cola_ready' = elementos_en_cola_ready + 1 /\ UNCHANGED pasa
     \/ /\ p.tablas_paginas = SinTabla
        /\ pasa' = [pasa EXCEPT ![t] =
                       [pc |-> "pedir_tabla", id |-> p.id,
                        tamanio_proceso |-> p.tamanio_proceso, lugar |-> Len(ready) + 1]]
        /\ UNCHANGED elementos_en_cola_ready

\* pasar_de_new_a_ready
Admitir ==
  /\ ~caido /\ elementos_en_cola_new > 0 /\ multiprogramacion > 0
  /\ elementos_en_cola_new' = elementos_en_cola_new - 1
  /\ multiprogramacion' = multiprogramacion - 1
  /\ new' = Tail(new)
  /\ PasarAReady("ltp", Head(new))
  /\ SinTocarConsolas /\ UNCHANGED <<blocked, despacho, memoria, finalizados, apurado>>

\* solicitar_numero_de_tabla; INICIO_PROCESO in memory: crear_tabla_paginas and
\* crear_archivo_swap.  Memory answers in the order of the requests.
PedirTabla(t) ==
  /\ ~caido /\ pasa[t].pc = "pedir_tabla"
  /\ LET m == PedidoDeInicio(pasa[t]) IN
     /\ m[1] = OpMemoria.INICIO_PROCESO
     /\ archivos' = [i \in DOMAIN archivos \union {IdDeInicio(m)} |->
                       IF i = IdDeInicio(m) THEN TamanioDeInicio(m) ELSE archivos[i]]
  /\ tablas' = tablas + 1 /\ respuestas' = Append(respuestas, tablas)
  /\ pasa' = [pasa EXCEPT ![t].pc = "recibir_tabla"]
  /\ SinTocarConsolas
  /\ UNCHANGED <<new, elementos_en_cola_new, multiprogramacion, ready, blocked,
                 elementos_en_cola_ready, despacho, finalizados, apurado>>

\* recibir_entero: the first number there is, whoever asked for it, is written
\* in the struct that was queued; it counts only if that has not been
\* dispatched.  Then sem_post, and comunicacion_con_cpu's of sem_planificacion.
RecibirTabla(t) ==
  /\ ~caido /\ pasa[t].pc = "recibir_tabla" /\ respuestas # <<>>
  /\ respuestas' = Tail(respuestas)
  /\ ready' = IF pasa[t].lugar = 0 THEN ready
              ELSE [ready EXCEPT ![pasa[t].lugar].tablas_paginas = Head(respuestas)]
  /\ pasa' = [pasa EXCEPT ![t] = Fuera]
  /\ elementos_en_cola_ready' = elementos_en_cola_ready + 1
  /\ sem_planificacion' = IF t = "disp" THEN sem_planificacion + 1 ELSE sem_planificacion
  /\ SinTocarConsolas
  /\ UNCHANGED <<new, elementos_en_cola_new, multiprogramacion, blocked, dispatch,
                 devuelto, cpu, enviado, interrupciones, tablas, archivos, finalizados,
                 apurado>>

\* time(NULL) when a burst begins; what counts is how long ago that is when it ends.
Ahora == 100

\* Where in ready a struct is that was at i, when the k-th is taken off.
SinEl(k, i) == IF i = k THEN 0 ELSE IF i > k THEN i - 1 ELSE i

\* planificar_srt, with menor_tiempo_restante
Despachar ==
  /\ ~caido /\ sem_planificacion > 0 /\ elementos_en_cola_ready > 0
  /\ \E k \in DOMAIN ready :
       /\ \A j \in DOMAIN ready : ready[k].restante <= ready[j].restante
       /\ ready' = RemoveAt(ready, k)
       /\ pasa' = [t \in PasanAReady |-> [pasa[t] EXCEPT !.lugar = SinEl(k, @)]]
       /\ enviado' = [ready[k] EXCEPT !.inicio_rafaga = Ahora]
       /\ apurado' = (apurado \/ ready[k].tablas_paginas = SinTabla)
  /\ sem_planificacion' = sem_planificacion - 1
  /\ elementos_en_cola_ready' = elementos_en_cola_ready - 1
  /\ dispatch' = PcbDelKernel(enviado')
  /\ SinTocarConsolas
  /\ UNCHANGED <<new, elementos_en_cola_new, multiprogramacion, blocked, devuelto, cpu,
                 interrupciones, memoria, finalizados>>

SoloCpu == UNCHANGED <<conexiones, globales, hilos, caido, colas, sem_planificacion,
                       enviado, memoria, caidas, cruzada, solapada, finalizados, apurado>>

\* recibir_pcb of the CPU
CpuRecibir ==
  /\ dispatch # <<>> /\ dispatch[1] = OpCpu.PCB
  /\ cpu' = <<PcbEnCpu(Tail(dispatch))>> /\ dispatch' = <<>>
  /\ SoloCpu /\ UNCHANGED <<devuelto, interrupciones, perdido>>

\* What decode makes of an instruction: of an empty one, nothing to execute.
Op(t) == IF t = <<>> THEN Nulo ELSE t[1]

\* The instruction that the program counter of p points at.
Actual(p) == p.instrucciones[p.program_counter + 1]

\* There is one, and it can be executed: the time of an I/O is not looked for
\* where its text has none (atoi(NULL) is the end of the CPU).
PorEjecutar(p) ==
  /\ p.program_counter < Len(p.instrucciones)
  /\ Op(Actual(p)) = IO => Len(Actual(p)) > 1

\* fetch, decode and execute, which first increments the program counter.
Ejecutado == [cpu[1] EXCEPT !.program_counter = @ + 1]

\* An instruction with nothing to say to the kernel, and no interruption.
CpuSigue ==
  /\ cpu # <<>> /\ PorEjecutar(cpu[1]) /\ Op(Actual(cpu[1])) \notin {IO, SALIR}
  /\ cpu' = <<Ejecutado>>
  /\ SoloCpu /\ UNCHANGED <<dispatch, devuelto, interrupciones, perdido>>

\* I/O and EXIT, which send the PCB back.
CpuDevuelve ==
  /\ cpu # <<>> /\ PorEjecutar(cpu[1])
  /\ LET t == Actual(cpu[1]) IN
     \/ Op(t) = IO /\ devuelto' = PcbBloqueadoDeLaCpu(t[2], Ejecutado)
     \/ Op(t) = SALIR /\ devuelto' = PcbDeLaCpu(OpCpu.FINALIZACION_PROCESO, Ejecutado)
  /\ cpu' = <<>>
  /\ SoloCpu /\ UNCHANGED <<dispatch, interrupciones, perdido>>

HayInterrupcion ==
  /\ cpu # <<>> /\ PorEjecutar(cpu[1]) /\ Op(Actual(cpu[1])) \notin {IO, SALIR}
  /\ interrupciones < MaxInterrupciones /\ interrupciones' = interrupciones + 1
  /\ cpu' = <<>>
  /\ SoloCpu /\ UNCHANGED dispatch

\* The flag is seen by check_interrupt, which sends the PCB back ...
CpuInterrumpe ==
  HayInterrupcion
    /\ devuelto' = PcbDeLaCpu(OpCpu.INTERRUPCION, Ejecutado) /\ UNCHANGED perdido

\* ... or set after it and seen by the if: the loop is left, with nothing sent.
CpuPierde == HayInterrupcion /\ perdido' = TRUE /\ UNCHANGED devuelto

\* The instructions end without EXIT: the loop does too, and nothing is sent.
\* Nor is anything by a CPU that has crashed.
CpuAbandonar ==
  /\ cpu # <<>> /\ ~PorEjecutar(cpu[1])
  /\ cpu' = <<>>
  /\ SoloCpu /\ UNCHANGED <<dispatch, devuelto, interrupciones, perdido>>

-----------------------------------------------------------------------------
(* comunicacion_con_cpu and planificacion_io.                              *)

\* recibir_operacion, by a thread that is not in pasar_a_ready.
Devuelve(op) ==
  /\ ~caido /\ pasa["disp"].pc = "fuera"
  /\ devuelto # <<>> /\ devuelto[1] = op
  /\ devuelto' = <<>> /\ enviado' = PcbVacio
  /\ UNCHANGED <<dispatch, cpu, interrupciones, apurado>>

\* sem_post(&sem_planificacion)
PostPlanificacion == sem_planificacion' = sem_planificacion + 1

\* difftime(time(NULL), inicio_rafaga) * 1000, for a burst that ended t after now.
TiempoReal(p, t) == Ahora + t - p.inicio_rafaga

\* Variant: the time of the burst is not cleared.
RafagaNuevaSinCero(p, t) ==
  LET tiempo == p.tiempo_ejecucion + TiempoReal(p, t)
      estimacion == (tiempo + p.estimacion_rafaga) \div 2
  IN [p EXCEPT !.estimacion_rafaga = estimacion, !.restante = estimacion,
               !.tiempo_ejecucion = tiempo]

\* The estimate of the next burst, with ALFA = 0.5.
RafagaNueva(p, t) ==
  LET estimacion == (p.tiempo_ejecucion + TiempoReal(p, t) + p.estimacion_rafaga) \div 2
  IN [p EXCEPT !.estimacion_rafaga = estimacion, !.restante = estimacion,
               !.tiempo_ejecucion = 0]

\* ... and of what is left of one that was interrupted.
RafagaCortada(p, t) ==
  [p EXCEPT !.tiempo_ejecucion = @ + TiempoReal(p, t), !.restante = @ - TiempoReal(p, t)]

RecibirBloqueado ==
  /\ Devuelve(BLOQUEO_IO)
  /\ \E t \in Duraciones :
       blocked' = Append(blocked,
                         RafagaNueva(PcbBloqueadoEnKernel(Tail(devuelto)).proceso, t))
  /\ PostPlanificacion
  /\ SinTocarConsolas
  /\ UNCHANGED <<new, elementos_en_cola_new, multiprogramacion, ready,
                 elementos_en_cola_ready, pasa, memoria, finalizados>>

\* The post comes after pasar_a_ready.
RecibirInterrumpido ==
  /\ Devuelve(INTERRUPCION)
  /\ \E t \in Duraciones :
       PasarAReady("disp", RafagaCortada(PcbEnKernel(Tail(devuelto)), t))
  /\ IF pasa'["disp"].pc = "fuera" THEN PostPlanificacion ELSE UNCHANGED sem_planificacion
  /\ SinTocarConsolas
  /\ UNCHANGED <<new, elementos_en_cola_new, multiprogramacion, blocked, memoria,
                 finalizados>>

\* Variant: the answer goes to the last connection.
ResponderAlUltimo(s) ==
  respuesta' = [respuesta EXCEPT ![conexion_consola] = Append(@, RESPUESTA_EXITO)]
    /\ UNCHANGED <<cerrados, caido>>

\* enviar_respuesta_exitosa.  On a socket of its own that is closed the kernel
\* sends nothing; what a console that has gone is sent is lost, and lets the
\* kernel know: the next send may be the end of it (SIGPIPE).
Responder(s) ==
  \/ s \in cerrados.kernel /\ UNCHANGED <<respuesta, cerrados, caido>>
  \/ /\ s \in cerrados.consola \ cerrados.kernel
     /\ cerrados' = [cerrados EXCEPT !.reset = @ \union {s}] /\ UNCHANGED <<respuesta, caido>>
  \/ /\ s \in cerrados.reset \ cerrados.kernel
     /\ caido' = TRUE /\ UNCHANGED <<respuesta, cerrados>>
  \/ /\ s \notin cerrados.consola \union cerrados.kernel
     /\ respuesta' = [respuesta EXCEPT ![s] = Append(@, RESPUESTA_EXITO)]
     /\ UNCHANGED <<cerrados, caido>>

Ejecucion(p) ==
  [tamanio_proceso |-> p.tamanio_proceso, instrucciones |-> p.instrucciones,
   program_counter |-> p.program_counter]

\* enviar_finalizacion_a_memoria, which removes the swap file of that name.
RecibirFinalizado ==
  /\ Devuelve(EXIT)
  /\ LET p == PcbEnKernel(Tail(devuelto))
         m == PedidoDeFinalizacion(p.id) IN
     /\ m[1] = OpMemoria.FINALIZACION_PROCESO
     /\ archivos' = [i \in DOMAIN archivos \ {IdDeFinalizacion(m)} |-> archivos[i]]
     /\ Responder(p.socket)
     /\ finalizados' = finalizados \union {Ejecucion(p)}
  /\ multiprogramacion' = multiprogramacion + 1 /\ PostPlanificacion
  /\ UNCHANGED <<consola, entrada, pendientes, globales, hilos, new,
                 elementos_en_cola_new, ready, blocked, elementos_en_cola_ready, pasa,
                 tablas, respuestas, caidas, cruzada, solapada, perdido>>

\* planificacion_io
TerminarIO ==
  /\ ~caido /\ blocked # <<>>
  /\ PasarAReady("io", Head(blocked)) /\ blocked' = Tail(blocked)
  /\ SinTocarConsolas
  /\ UNCHANGED <<new, elementos_en_cola_new, multiprogramacion, despacho, memoria,
                 finalizados, apurado>>

-----------------------------------------------------------------------------
Consolas == \E c \in Consola : \/ Conectar(c) \/ Enviar(c) \/ Caer(c)
                               \/ RecibirRespuesta(c) \/ PerderConexion(c)

Main == Aceptar \/ CrearHilo

Listener == RecibirBloqueado \/ RecibirInterrumpido \/ RecibirFinalizado

Cpu == \/ CpuRecibir \/ CpuSigue \/ CpuDevuelve \/ CpuInterrumpe \/ CpuPierde
       \/ CpuAbandonar

Tabla(t) == PedirTabla(t) \/ RecibirTabla(t)

Kernel == \/ Main \/ \E k \in Consola : AtenderConsola(k)
          \/ Admitir \/ Despachar \/ Listener \/ TerminarIO
          \/ \E t \in PasanAReady : Tabla(t)

Next == Consolas \/ Kernel \/ Cpu

Spec == Init /\ [][Next]_vars

\* Something is done while the kernel, the CPU or a console that waits can do
\* something.  That is less than fairness to each thread, and enough: no thread
\* can run for ever.  That a console connects, or sends, is not promised.
Equidad ==
  WF_vars(\/ Kernel \/ Cpu
          \/ \E c \in Consola : RecibirRespuesta(c) \/ PerderConexion(c))

SpecJusta == Spec /\ Equidad

-----------------------------------------------------------------------------
(* Correctness.                                                            *)

EsPcb(p) ==
  /\ p.id \in Nat /\ p.socket \in Consola /\ p.tamanio_proceso \in Nat
  /\ p.program_counter \in 0..Len(p.instrucciones)
  /\ p.estimacion_rafaga \in Nat /\ p.restante \in Int /\ p.tiempo_ejecucion \in Nat
  /\ p.tablas_paginas \in Nat \union {SinTabla} /\ p.inicio_rafaga \in Nat

\* The type of every variable; of a message, that it is cells.
TypeOK ==
  /\ consola \in [Consola -> {"nueva", "conectada", "esperando", "exito", "fallo", "caida"}]
  /\ entrada \in [Consola -> Seq(Nat)] /\ respuesta \in [Consola -> Seq({RESPUESTA_EXITO})]
  /\ cerrados \in [{"consola", "kernel", "reset"} -> SUBSET Consola]
  /\ pendientes \in Seq(Consola)
  /\ pcMain \in {"accept", "pthread_create"}
  /\ conexion_consola \in Consola \union {Nadie} /\ numero_proceso \in Nat
  /\ \A k \in Consola : hilos[k].socket \in Consola \union {Nadie} /\ hilos[k].size \in Nat
  /\ {caido, cruzada, solapada, apurado, perdido} \subseteq BOOLEAN
  /\ \A q \in {new, ready, blocked, cpu} : \A j \in DOMAIN q : EsPcb(q[j])
  /\ {elementos_en_cola_new, multiprogramacion, tablas, interrupciones, caidas,
      elementos_en_cola_ready} \subseteq Nat
  /\ \A t \in PasanAReady : /\ pasa[t].pc \in {"fuera", "pedir_tabla", "recibir_tabla"}
                            /\ pasa[t].lugar \in 0..Len(ready)
  /\ respuestas \in Seq(Nat)
  /\ sem_planificacion \in 0..1 /\ Len(cpu) <= 1
  /\ dispatch \in Seq(Int) /\ devuelto \in Seq(Int)
  /\ \A i \in DOMAIN archivos : i \in Nat /\ archivos[i] \in Nat
  /\ \A p \in finalizados : p.program_counter \in 0..Len(p.instrucciones)

\* The program of the console ran up to its EXIT, as its script has it.
Termino(c) ==
  \E p \in finalizados :
    /\ p.tamanio_proceso = Tamanio(c)
    /\ p.instrucciones \in Parseos(Programas[c])
    /\ p.program_counter \in DOMAIN p.instrucciones
    /\ Op(p.instrucciones[p.program_counter]) = SALIR
    /\ \A j \in 1..(p.program_counter - 1) : Op(p.instrucciones[j]) # SALIR

\* A console is told that its process ended well only when its own program, all
\* of it, has been executed up to EXIT: what conexion_consola holds when it is
\* read, three times, stays with the program through four programs and back
\* (kernel.c:116-124, 300).  A second accept breaks it.
RespuestaPropia ==
  ~cruzada => \A c \in Consola : consola[c] = "exito" => Termino(c)

\* The same without the premise, as kernel.h:69 has it.
RespuestaSiemprePropia ==
  \A c \in Consola : consola[c] = "exito" => Termino(c)

\* What the CPU takes from the socket is what the kernel put there, and what the
\* kernel takes back is the same PCB with only its program counter advanced; and
\* each reader stops where the message ends (utils_kernel.c:138-258,
\* clientServ.c:150-411).
LlegaEntero ==
  /\ dispatch # <<>> =>
       /\ dispatch[1] = OpCpu.PCB
       /\ Len(dispatch) = 1 + LargoPcb(Tail(dispatch), 6)
       /\ PcbEnCpu(Tail(dispatch)) = enviado
  /\ devuelto # <<>> =>
       LET s == Tail(devuelto)
           bloqueado == devuelto[1] = BLOQUEO_IO
           p == IF bloqueado THEN PcbBloqueadoEnKernel(s).proceso ELSE PcbEnKernel(s)
       IN /\ devuelto[1] \in {BLOQUEO_IO, EXIT, INTERRUPCION}
          /\ Len(devuelto) = 1 + LargoPcb(s, IF bloqueado THEN 7 ELSE 6)
          /\ p.program_counter > enviado.program_counter
          /\ p = [enviado EXCEPT !.program_counter = p.program_counter]
          /\ Op(p.instrucciones[p.program_counter]) =
               (CASE devuelto[1] = BLOQUEO_IO -> IO
                  [] devuelto[1] = EXIT -> SALIR
                  [] OTHER -> Op(p.instrucciones[p.program_counter]))

\* What is left of a burst is the estimate of the whole less the time it has
\* run, across interruptions, I/O and the sockets (kernel.c:252-292): SRT
\* compares what it should.
RestanteExacto ==
  \A q \in {ready, blocked, cpu} : \A j \in DOMAIN q :
    q[j].restante = q[j].estimacion_rafaga - q[j].tiempo_ejecucion

\* The processes that are in memory.
EnSistema ==
  (UNION {{q[j] : j \in DOMAIN q} : q \in {ready, blocked, cpu}})
    \union (IF dispatch = <<>> THEN {} ELSE {PcbEnCpu(Tail(dispatch))})

\* Memory looks for the pages of a process by its id and names its swap file by
\* it, though it gives out table numbers by itself (memoria.c:804-813, 822, 840).
\* A process that has its number has a swap file of its size and an id of its
\* own, unless two threads took their ids at once; and the number is the id, if
\* moreover none was dispatched before its number had come (kernel.c:503-520):
\* such a one asks again, and those behind it get another number.
SwapPropio ==
  ~solapada /\ ~cruzada =>
    \A p \in EnSistema :
      /\ p.tablas_paginas # SinTabla =>
           /\ p.id \in DOMAIN archivos /\ archivos[p.id] = p.tamanio_proceso
           /\ apurado \/ p.id = p.tablas_paginas
      /\ \A q \in EnSistema : q.id = p.id => q.socket = p.socket

\* A console that has sent its program gets its answer, or learns that the
\* kernel is gone, if no connection was accepted too early (kernel.c:97-167) and
\* the CPU has not left its loop with a PCB (cpu.c:143-151).
TodasRespondidas ==
  \A c \in Consola :
    [](consola[c] = "esperando" => <>(consola[c] # "esperando" \/ cruzada \/ perdido))
=============================================================================
