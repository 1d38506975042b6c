------------------------------ MODULE Mensajes ------------------------------
(***************************************************************************)
(* What travels on the sockets: the operation codes each program has in    *)
(* its own enumeration, and the order in which each writes and reads the   *)
(* fields of a message.  The four programs share no header: that they      *)
(* agree is a property of the models that use this one.                    *)
(*                                                                         *)
(* A message is a sequence of cells of four bytes.  An int takes one; a    *)
(* double takes two, <<x, -x>>, so that half of one is not taken for an    *)
(* int; a character takes one too, and a string ends with Nulo.  Lengths   *)
(* count cells.                                                            *)
(***************************************************************************)
EXTENDS Integers, Sequences, SequencesExt

ERROR == -1   \* also what every recv of an int returns on a closed socket

\* consola.h
ConsolaListaDeInstrucciones == 1

\* kernel.h
LISTA_DE_INSTRUCCIONES == 1
RESPUESTA_EXITO        == 2
INICIO_PROCESO         == 100
SUSPENCION_PROCESO     == 101
FINALIZACION_PROCESO   == 102
PCB                    == 200
BLOQUEO_IO             == 201
EXIT                   == 202
INTERRUPCION           == 203

\* cpu.h
OpCpu == [PCB |-> 200, BLOQUEO_IO |-> 201, FINALIZACION_PROCESO |-> 202,
          INTERRUPCION |-> 203, NUMERO_DE_TABLA_PRIMER_NIVEL |-> 301,
          NUMERO_DE_TABLA_SEGUNDO_NIVEL |-> 302, LECTURA_MEMORIA_USUARIO |-> 303,
          ESCRITURA_MEMORIA_USUARIO |-> 304]

\* memoria.h
OpMemoria == [INICIO_PROCESO |-> 100, SUSPENCION_PROCESO |-> 101,
              FINALIZACION_PROCESO |-> 102, ACCESO_TABLA_PRIMER_NIVEL |-> 301,
              ACCESO_TABLA_SEGUNDO_NIVEL |-> 302, LECTURA_MEMORIA_USUARIO |-> 303,
              ESCRITURA_MEMORIA_USUARIO |-> 304]

-----------------------------------------------------------------------------
(* Cells.                                                                  *)

Nulo   == 0
Basura == -999   \* a double read where none was written

Doble(x) == <<x, -x>>

LeerDoble(s, k) == IF s[k + 1] = -s[k] THEN s[k] ELSE Basura

\* agregar_instruccion of consola, kernel and cpu: string_length + 1, and the
\* string with its end.
Instruccion(texto) == <<Len(texto) + 1>> \o texto \o <<Nulo>>

\* All of them, one after the other.
Stream(instrucciones) ==
  FlattenSeq([j \in DOMAIN instrucciones |-> Instruccion(instrucciones[j])])

\* cargar_buffer: the size of the stream, and the stream.
Buffer(instrucciones) ==
  LET stream == Stream(instrucciones) IN <<Len(stream)>> \o stream

\* At cell k of s there is the length of an instruction, and then as much.
HayInstruccion(s, k) == k < Len(s) /\ s[k + 1] > 0 /\ k + 1 + s[k + 1] <= Len(s)

\* The loop of recibir_instrucciones; where it would leave the buffer, it ends.
Instrucciones(s) ==
  LET desde[k \in 0..Len(s)] ==
        IF HayInstruccion(s, k)
        THEN <<SubSeq(s, k + 2, k + s[k + 1])>> \o desde[k + 1 + s[k + 1]]
        ELSE <<>>
  IN desde[0]

\* It ends exactly at the end of the stream.
EsStream(s) == Len(Stream(Instrucciones(s))) = Len(s)

\* recibir_buffer and recibir_instrucciones on what starts at cell k of s.
RecibirInstrucciones(s, k) == Instrucciones(SubSeq(s, k + 1, k + s[k]))

-----------------------------------------------------------------------------
(* Console and kernel.                                                     *)

\* serializar_paquete, with what cargar_proceso and agregar_instruccion put in.
PaqueteDeConsola(tamanio, programa) ==
  <<ConsolaListaDeInstrucciones, tamanio>> \o Buffer(programa)

-----------------------------------------------------------------------------
(* Kernel and CPU.                                                         *)

\* enviar_pcb of the kernel.
PcbDelKernel(p) ==
  <<PCB, p.id, p.socket, p.tamanio_proceso, p.program_counter>>
    \o Doble(p.estimacion_rafaga) \o <<p.tablas_paginas>>
    \o Doble(p.inicio_rafaga) \o Doble(p.restante) \o Doble(p.tiempo_ejecucion)
    \o Buffer(p.instrucciones)

\* Variant: the table is read before the estimate.
PcbEnCpuCorrido(s) ==
  [id |-> s[1], socket |-> s[2], tamanio_proceso |-> s[3], program_counter |-> s[4],
   tablas_paginas |-> s[5], estimacion_rafaga |-> LeerDoble(s, 6),
   inicio_rafaga |-> LeerDoble(s, 8), restante |-> LeerDoble(s, 10),
   tiempo_ejecucion |-> LeerDoble(s, 12), instrucciones |-> RecibirInstrucciones(s, 14)]

\* recibir_pcb of the CPU, after the operation.
PcbEnCpu(s) ==
  [id |-> s[1], socket |-> s[2], tamanio_proceso |-> s[3], program_counter |-> s[4],
   estimacion_rafaga |-> LeerDoble(s, 5), tablas_paginas |-> s[7],
   inicio_rafaga |-> LeerDoble(s, 8), restante |-> LeerDoble(s, 10),
   tiempo_ejecucion |-> LeerDoble(s, 12), instrucciones |-> RecibirInstrucciones(s, 14)]

\* Variant: two fields change places.
PcbDeLaCpuCruzado(op, p) ==
  <<op, p.id, p.socket, p.tamanio_proceso, p.program_counter>>
    \o Doble(p.estimacion_rafaga) \o <<p.tablas_paginas>>
    \o Doble(p.inicio_rafaga) \o Doble(p.tiempo_ejecucion) \o Doble(p.restante)
    \o Buffer(p.instrucciones)

\* enviar_pcb of the CPU, with the reason.
PcbDeLaCpu(op, p) ==
  <<op, p.id, p.socket, p.tamanio_proceso, p.program_counter>>
    \o Doble(p.estimacion_rafaga) \o <<p.tablas_paginas>>
    \o Doble(p.inicio_rafaga) \o Doble(p.restante) \o Doble(p.tiempo_ejecucion)
    \o Buffer(p.instrucciones)

\* enviar_pcb_bloqueado
PcbBloqueadoDeLaCpu(tiempo, p) ==
  <<OpCpu.BLOQUEO_IO, tiempo, p.id, p.socket, p.tamanio_proceso, p.program_counter>>
    \o Doble(p.estimacion_rafaga) \o <<p.tablas_paginas>>
    \o Doble(p.inicio_rafaga) \o Doble(p.restante) \o Doble(p.tiempo_ejecucion)
    \o Buffer(p.instrucciones)

\* recibir_pcb of the kernel, after the operation.
PcbEnKernel(s) ==
  [id |-> s[1], socket |-> s[2], tamanio_proceso |-> s[3], program_counter |-> s[4],
   estimacion_rafaga |-> LeerDoble(s, 5), tablas_paginas |-> s[7],
   inicio_rafaga |-> LeerDoble(s, 8), restante |-> LeerDoble(s, 10),
   tiempo_ejecucion |-> LeerDoble(s, 12), instrucciones |-> RecibirInstrucciones(s, 14)]

\* recibir_pcb_bloqueado: the time of the blocking, then the same fields.
PcbBloqueadoEnKernel(s) ==
  [tiempo_de_bloqueo |-> s[1],
   proceso |-> [id |-> s[2], socket |-> s[3], tamanio_proceso |-> s[4],
                program_counter |-> s[5], estimacion_rafaga |-> LeerDoble(s, 6),
                tablas_paginas |-> s[8], inicio_rafaga |-> LeerDoble(s, 9),
                restante |-> LeerDoble(s, 11), tiempo_ejecucion |-> LeerDoble(s, 13),
                instrucciones |-> RecibirInstrucciones(s, 15)]]

\* How many cells a message of the dispatch socket has, as its reader counts.
LargoPcb(s, enteros) == enteros + 8 + s[enteros + 8]

-----------------------------------------------------------------------------
(* Kernel and memory.                                                      *)

\* solicitar_numero_de_tabla; recibir_id_proceso and recibir_tamanio
PedidoDeInicio(p) == <<INICIO_PROCESO, p.id, p.tamanio_proceso>>
IdDeInicio(s)      == s[2]
TamanioDeInicio(s) == s[3]

\* enviar_finalizacion_a_memoria; recibir_entero
PedidoDeFinalizacion(id) == <<FINALIZACION_PROCESO, id>>
IdDeFinalizacion(s) == s[2]

-----------------------------------------------------------------------------
(* CPU and memory.                                                         *)

\* Variant: the two numbers change places.
PrimerAccesoCruzado(tabla, entrada) ==
  <<OpCpu.NUMERO_DE_TABLA_PRIMER_NIVEL, entrada, tabla>>

\* enviar_primer_acceso_memoria, enviar_segundo_acceso_memoria
PrimerAcceso(tabla, entrada)  == <<OpCpu.NUMERO_DE_TABLA_PRIMER_NIVEL, tabla, entrada>>
SegundoAcceso(tabla, entrada) == <<OpCpu.NUMERO_DE_TABLA_SEGUNDO_NIVEL, tabla, entrada>>

\* enviar_tercer_acceso_memoria_lectura, _escritura
AccesoDeLectura(marco, desp) == <<OpCpu.LECTURA_MEMORIA_USUARIO, marco, desp>>
AccesoDeEscritura(marco, desp, valor, id) ==
  <<OpCpu.ESCRITURA_MEMORIA_USUARIO, marco, desp, valor, id>>

\* recibir_numero_tabla, recibir_numero_entrada; and for user memory two
\* recibir_entero, a recibir_uint32 and a recibir_numero_tabla.
NumeroDeTabla(s)   == s[2]
NumeroDeEntrada(s) == s[3]
MarcoDelAcceso(s)  == s[2]
DespDelAcceso(s)   == s[3]
ValorDelAcceso(s)  == s[4]
TablaDelAcceso(s)  == s[5]
=============================================================================
