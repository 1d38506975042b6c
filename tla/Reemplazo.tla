------------------------------ MODULE Reemplazo ------------------------------
(***************************************************************************)
(* Page replacement in memory (memoria/src/memoria.c): CLOCK and CLOCK-M,  *)
(* one look at a frame per step, with the bits of the pages, the pointer   *)
(* of the process and the times of loading that order its frames; and the  *)
(* accesses of the CPU that cause it, from the logical address on.         *)
(*                                                                         *)
(* One process.  The others are the frames they leave: the bitmap gives    *)
(* this one the lowest free frame from primer_libre on.  It is suspended   *)
(* off the CPU, with the global naming its table; Memoria has the          *)
(* interleavings.  Of a page that is not present, usada and marco are not  *)
(* kept: every load sets them.  Contents, the swap file and what a stale    *)
(* entry of the TLB does are in Memoria: here the TLB may answer for any    *)
(* page that is present.                                                   *)
(***************************************************************************)
EXTENDS Direcciones, Mensajes, FiniteSets, FiniteSetsExt

CONSTANTS Algoritmos,        \* values of ALGORITMO_REEMPLAZO
          CantidadesDeMarcos,\* values of MARCOS_POR_PROCESO
          Accedidas,         \* bound: the logical addresses the process uses
          PrimerosLibres,    \* bound: where the other processes' frames may end
          MaxSegundos, MaxSuspensiones   \* bounds, for each number of frames

ASSUME ConfiguracionOK ==
  /\ Algoritmos \subseteq {"CLOCK", "CLOCK-M"}
  /\ CantidadesDeMarcos \subseteq Nat \ {0}
  /\ Accedidas \subseteq Direcciones /\ \A d \in Accedidas : d % Palabra = 0
  /\ PrimerosLibres \subseteq Nat
  /\ MaxSegundos \in [CantidadesDeMarcos -> Nat]
  /\ MaxSuspensiones \in [CantidadesDeMarcos -> Nat]

Ninguna == -1   \* no page, no frame, no address: none is negative

VARIABLES
  algoritmo_reemplazo, marcos_por_proceso,   \* read from the configuration
  presencia, usada, modificada,   \* the pages with that bit
  marco, tiempo_carga,            \* of each page
  puntero_marco,                  \* t_puntero of the process
  reloj,                          \* time(NULL)
  primer_libre,                   \* the other processes have the frames below
  suspensiones,
  pc, acceso,                     \* the access of the CPU
  paginas, indice_puntero, i,     \* variables of the algorithms
  antes, miradas,   \* history: what the algorithm found, looks it has taken
  ultima            \* history: the page the last replacement by CLOCK loaded

config  == <<algoritmo_reemplazo, marcos_por_proceso>>
bits    == <<presencia, usada, modificada>>
tablas  == <<bits, marco, tiempo_carga, puntero_marco>>
mundo   == <<reloj, primer_libre, suspensiones>>
bucle   == <<paginas, indice_puntero, i>>
historia == <<antes, miradas>>
vars == <<config, tablas, mundo, pc, acceso, bucle, historia, ultima>>

SinAcceso == [direccion |-> Ninguna, mensaje |-> <<>>, marco |-> Ninguna]

Tabla == 0   \* pcb->tablas_paginas: the only process

SinHistoria == [orden |-> <<>>, desde |-> 0, usada |-> {}, modificada |-> {}]

\* buscar_pagina: the page the CPU asks for.
Pedida == NumeroEnTabla(NumeroDeTabla(acceso.mensaje), NumeroDeEntrada(acceso.mensaje))

\* The question of page_fault is still to be asked.
Llega == pc = "buscar" /\ acceso.mensaje[1] = OpMemoria.ACCESO_TABLA_SEGUNDO_NIVEL

Init ==
  /\ algoritmo_reemplazo \in Algoritmos
  /\ marcos_por_proceso \in CantidadesDeMarcos
  /\ presencia = {} /\ usada = {} /\ modificada = {}
  /\ marco = [x \in Paginas |-> Ninguna]
  /\ tiempo_carga = [x \in Paginas |-> 0]
  /\ puntero_marco = Ninguna
  /\ reloj = 0 /\ suspensiones = 0
  /\ primer_libre \in PrimerosLibres
  /\ primer_libre + marcos_por_proceso <= CantidadMarcos
  /\ pc = "libre" /\ acceso = SinAcceso
  /\ paginas = <<>> /\ indice_puntero = 0 /\ i = 0
  /\ antes = SinHistoria /\ miradas = 0 /\ ultima = Ninguna

-----------------------------------------------------------------------------
(* The CPU.                                                                *)

SinTocarMemoria == UNCHANGED <<config, tablas, mundo, bucle, historia, ultima>>

\* buscar_tabla_segundo_nivel: the tables of second level of a process have
\* their places as numbers.
TablaSegundoNivel(m) == NumeroDeEntrada(m)

\* obtener_TLB, which may have the frame of any page that is present; if not,
\* the first access, which memory answers with the number of the table of
\* second level, and the request for the second.
Traducir(d) ==
  /\ pc = "libre"
  /\ LET x == NumeroDePagina(d)
         m == PrimerAcceso(Tabla, EntradaPrimerNivel(x)) IN
     \/ /\ x \in presencia
        /\ acceso' = [SinAcceso EXCEPT !.direccion = d, !.marco = marco[x]]
        /\ pc' = "acceder"
     \/ /\ m[1] = OpMemoria.ACCESO_TABLA_PRIMER_NIVEL
        /\ acceso' = [direccion |-> d, marco |-> Ninguna,
                      mensaje |-> SegundoAcceso(TablaSegundoNivel(m),
                                                EntradaSegundoNivel(x))]
        /\ pc' = "buscar"
  /\ SinTocarMemoria

\* The answer to the second access.
Responder(m) ==
  /\ acceso' = [acceso EXCEPT !.marco = m, !.mensaje = <<>>]
  /\ pc' = "acceder"

PedidoDeLectura == AccesoDeLectura(acceso.marco, Desplazamiento(acceso.direccion))

\* The value written does not matter.
PedidoDeEscritura ==
  AccesoDeEscritura(acceso.marco, Desplazamiento(acceso.direccion), 0, Tabla)

TerminarAcceso == pc = "acceder" /\ pc' = "libre" /\ acceso' = SinAcceso

\* leer_contenido_marco sets no bit: what the TLB answers, the algorithms do
\* not see.
Leer ==
  /\ TerminarAcceso
  /\ PedidoDeLectura[1] = OpMemoria.LECTURA_MEMORIA_USUARIO
  /\ SinTocarMemoria

\* escribir_en_marco and cambiar_bit_modificado
Escribir ==
  /\ TerminarAcceso
  /\ LET m == PedidoDeEscritura IN
     /\ m[1] = OpMemoria.ESCRITURA_MEMORIA_USUARIO
     /\ EstaEnMemoria(MarcoDelAcceso(m), DespDelAcceso(m))
     /\ \E x \in presencia :
          marco[x] = MarcoDelAcceso(m) /\ modificada' = modificada \union {x}
  /\ UNCHANGED <<config, presencia, usada, marco, tiempo_carga, puntero_marco, mundo,
                 bucle, historia, ultima>>

\* A second goes by.
PasarSegundo ==
  /\ pc = "libre" /\ reloj < MaxSegundos[marcos_por_proceso]
  /\ reloj' = reloj + 1
  /\ UNCHANGED <<config, tablas, primer_libre, suspensiones, pc, acceso,
                 bucle, historia, ultima>>

\* swapear_paginas_modificadas and liberar_marcos_proceso; when the process is
\* back the others may have taken other frames.
Suspender ==
  /\ pc = "libre" /\ suspensiones < MaxSuspensiones[marcos_por_proceso]
  /\ suspensiones' = suspensiones + 1
  /\ modificada' = modificada \ presencia
  /\ presencia' = {} /\ usada' = {} /\ marco' = [x \in Paginas |-> Ninguna]
  /\ primer_libre' \in PrimerosLibres
  /\ primer_libre' + marcos_por_proceso <= CantidadMarcos
  /\ ultima' = Ninguna
  /\ UNCHANGED <<config, tiempo_carga, puntero_marco, reloj, pc, acceso, bucle,
                 historia>>

-----------------------------------------------------------------------------
(* buscar_pagina and page_fault.                                           *)

\* modificar_bit_uso
BuscarPresente ==
  /\ Llega /\ Pedida \in presencia
  /\ usada' = usada \union {Pedida}
  /\ Responder(marco[Pedida])
  /\ UNCHANGED <<config, presencia, modificada, marco, tiempo_carga, puntero_marco,
                 mundo, bucle, historia, ultima>>

MarcosDe(S) == {marco[x] : x \in S}

\* proximo_marco_libre
ProximoMarcoLibre == Min((Marcos \ MarcosDe(presencia)) \ 0..(primer_libre - 1))

\* list_sort with mayor_tiempo_espera, which compares whole seconds: pages of
\* the same second may come in any order.
Ordenadas(S, tiempo) ==
  {s \in SetToSeqs(S) :
     \A j, k \in DOMAIN s : j < k => tiempo[s[j]] <= tiempo[s[k]]}

\* Variant: the pointer is left where it was.
PunteroQueNoSeFija(S, mar, tiempo) == {puntero_marco}

\* With its last frame the process gets its pointer: the first of the list.
PunteroAlAsignar(S, mar, tiempo) ==
  IF Cardinality(S) = marcos_por_proceso
  THEN {mar[s[1]] : s \in Ordenadas(S, tiempo)} ELSE {puntero_marco}

AsignarMarco ==
  /\ Llega /\ Pedida \notin presencia
  /\ Cardinality(presencia) < marcos_por_proceso
  /\ marco' = [marco EXCEPT ![Pedida] = ProximoMarcoLibre]
  /\ presencia' = presencia \union {Pedida}
  /\ usada' = usada \union {Pedida}
  /\ tiempo_carga' = [tiempo_carga EXCEPT ![Pedida] = reloj]
  /\ puntero_marco' \in PunteroAlAsignar(presencia', marco', tiempo_carga')
  /\ ultima' = Ninguna
  /\ Responder(ProximoMarcoLibre)
  /\ UNCHANGED <<config, modificada, mundo, bucle, historia>>

\* Variant: the algorithm starts at the oldest page, as for the first time.
IndiceDelPrimero(s) == 0

\* encontrar_indice_puntero: the place of the frame in the list, 0 if none.
IndiceDelPuntero(s) ==
  IF puntero_marco \in MarcosDe(presencia)
  THEN CHOOSE k \in 0..(Len(s) - 1) : marco[s[k + 1]] = puntero_marco ELSE 0

\* reemplazar_pagina: the list of the pages present, by time of loading.
IniciarReemplazo ==
  /\ Llega /\ Pedida \notin presencia
  /\ Cardinality(presencia) >= marcos_por_proceso
  /\ \E s \in Ordenadas(presencia, tiempo_carga) :
       /\ paginas' = s /\ indice_puntero' = IndiceDelPuntero(s)
       /\ antes' = [orden |-> s, desde |-> IndiceDelPuntero(s),
                    usada |-> usada,
                    modificada |-> modificada \intersect presencia]
  /\ i' = 0 /\ miradas' = 0
  /\ pc' = IF algoritmo_reemplazo = "CLOCK" THEN "clock" ELSE "paso_1"
  /\ UNCHANGED <<config, tablas, mundo, acceso, ultima>>

-----------------------------------------------------------------------------
(* The algorithms, one look per step.                                      *)

EnMira == paginas[indice_puntero + 1]

Siguiente(k) == IF k = marcos_por_proceso - 1 THEN 0 ELSE k + 1

\* Variant: the pointer stays at the frame just filled.
PunteroQueNoAvanza == marco[EnMira]

\* actualizar_puntero_proceso, after the index has moved on.
PunteroTras == marco[paginas[Siguiente(indice_puntero) + 1]]

\* The page asked for takes the frame of the page looked at.  Its time of
\* loading is not renewed, and paso_1 does not clear its modificada.
Cargar ==
  /\ marco' = [marco EXCEPT ![Pedida] = marco[EnMira], ![EnMira] = Ninguna]
  /\ presencia' = (presencia \ {EnMira}) \union {Pedida}
  /\ usada' = (usada \ {EnMira}) \union {Pedida}
  /\ modificada' = IF pc = "paso_1" THEN modificada ELSE modificada \ {Pedida}
  /\ puntero_marco' = PunteroTras
  /\ ultima' = IF pc = "clock" THEN Pedida ELSE Ninguna
  /\ Responder(marco[EnMira])
  /\ paginas' = <<>> /\ indice_puntero' = 0 /\ i' = 0
  /\ antes' = SinHistoria /\ miradas' = 0
  /\ UNCHANGED <<config, tiempo_carga, mundo>>

\* The page looked at stays: S are the pages used from now on.
Seguir(S) ==
  /\ usada' = S
  /\ indice_puntero' = Siguiente(indice_puntero)
  /\ miradas' = miradas + 1
  /\ UNCHANGED <<config, presencia, modificada, marco, tiempo_carga, puntero_marco,
                 mundo, acceso, paginas, antes, ultima>>

\* algoritmo_clock
MirarClock ==
  /\ pc = "clock"
  /\ \/ EnMira \notin usada /\ Cargar
     \/ EnMira \in usada /\ Seguir(usada \ {EnMira}) /\ UNCHANGED <<pc, i>>

\* The steps of CLOCK-M alternate, each once around the list.
ContarVuelta(otro) ==
  IF i + 1 < marcos_por_proceso THEN i' = i + 1 /\ UNCHANGED pc
                                ELSE i' = 0 /\ pc' = otro

\* Variant: the first step clears the bit of use as it goes.
MirarPaso1Gastando ==
  /\ pc = "paso_1"
  /\ \/ EnMira \notin usada /\ EnMira \notin modificada /\ Cargar
     \/ /\ EnMira \in usada \/ EnMira \in modificada
        /\ Seguir(usada \ {EnMira}) /\ ContarVuelta("paso_2")

\* clock_m_paso_1
MirarPaso1 ==
  /\ pc = "paso_1"
  /\ \/ EnMira \notin usada /\ EnMira \notin modificada /\ Cargar
     \/ /\ EnMira \in usada \/ EnMira \in modificada
        /\ Seguir(usada) /\ ContarVuelta("paso_2")

\* Variant: the second step leaves the bit of use.
MirarPaso2SinGastar ==
  /\ pc = "paso_2"
  /\ \/ EnMira \notin usada /\ EnMira \in modificada /\ Cargar
     \/ /\ EnMira \in usada \/ EnMira \notin modificada
        /\ Seguir(usada) /\ ContarVuelta("paso_1")

\* clock_m_paso_2
MirarPaso2 ==
  /\ pc = "paso_2"
  /\ \/ EnMira \notin usada /\ EnMira \in modificada /\ Cargar
     \/ /\ EnMira \in usada \/ EnMira \notin modificada
        /\ Seguir(usada \ {EnMira}) /\ ContarVuelta("paso_1")

-----------------------------------------------------------------------------
Cpu == \/ \E d \in Accedidas : Traducir(d)
       \/ Leer \/ Escribir

Memoria == \/ BuscarPresente \/ AsignarMarco \/ IniciarReemplazo
           \/ MirarClock \/ MirarPaso1 \/ MirarPaso2 \/ Suspender

Next == Cpu \/ Memoria \/ PasarSegundo

Spec == Init /\ [][Next]_vars

-----------------------------------------------------------------------------
(* Correctness.                                                            *)

Lugares == {"libre", "buscar", "clock", "paso_1", "paso_2", "acceder"}

Buscando == pc \in {"clock", "paso_1", "paso_2"}

\* The type of every variable.
TypeOK ==
  /\ algoritmo_reemplazo \in Algoritmos /\ marcos_por_proceso \in CantidadesDeMarcos
  /\ presencia \subseteq Paginas /\ usada \subseteq presencia /\ modificada \subseteq Paginas
  /\ marco \in [Paginas -> Marcos \union {Ninguna}]
  /\ tiempo_carga \in [Paginas -> 0..reloj]
  /\ puntero_marco \in Marcos \union {Ninguna}
  /\ reloj \in Nat /\ suspensiones \in Nat /\ primer_libre \in Nat
  /\ pc \in Lugares
  /\ acceso \in [direccion : Direcciones \union {Ninguna}, mensaje : Seq(Nat),
                 marco : Marcos \union {Ninguna}]
  /\ pc = "buscar" =>
       {NumeroDeTabla(acceso.mensaje), NumeroDeEntrada(acceso.mensaje)} \subseteq Entradas
  /\ paginas \in Seq(Paginas)
  /\ indice_puntero \in Nat /\ i \in Nat /\ miradas \in Nat
  /\ antes \in [orden : Seq(Paginas), desde : Nat,
                usada : SUBSET Paginas, modificada : SUBSET Paginas]
  /\ ultima \in Paginas \union {Ninguna}

\* A process with all its frames has its pointer at one of them, so that the
\* search by frame always finds it and the algorithm never starts over at the
\* oldest page (memoria.c:316 is for the first time only), through
\* replacements, suspensions and new frames.
PunteroPropio ==
  Cardinality(presencia) = marcos_por_proceso =>
    puntero_marco \in MarcosDe(presencia)

\* How bad a victim is: used before unused, then, with CLOCK-M, modified
\* before unmodified.
Costo(x) ==
  (IF x \in antes.usada THEN 2 ELSE 0) +
  (IF x \in antes.modificada /\ algoritmo_reemplazo # "CLOCK" THEN 1 ELSE 0)

\* How far a page is from the pointer, going around the list.
Distancia(x) ==
  LET k == CHOOSE k \in DOMAIN antes.orden : antes.orden[k] = x
  IN (k - 1 - antes.desde + Len(antes.orden)) % Len(antes.orden)

\* The cheapest, and of these the first from the pointer on.
EsVictima(x) ==
  /\ x \in ToSet(antes.orden)
  /\ \A y \in ToSet(antes.orden) \ {x} :
       \/ Costo(x) < Costo(y)
       \/ Costo(x) = Costo(y) /\ Distancia(x) < Distancia(y)

\* Whatever bits the loops clear on their way, the page that leaves is the one
\* the textbook names from the bits as they were: unused and unmodified if
\* there is one, else unused, else unmodified, else the first
\* (memoria.c:303-459).
VictimaExacta ==
  [][Buscando /\ pc' = "acceder" => \A x \in presencia \ presencia' : EsVictima(x)]_vars

\* The loops end: after one round of second chances CLOCK, after three rounds
\* CLOCK-M; and they never look outside the list (memoria.c:320, 385, 423).
MiradasAcotadas ==
  Buscando =>
    /\ indice_puntero < Len(paginas)
    /\ miradas <= (IF pc = "clock" THEN 1 ELSE 3) * marcos_por_proceso

\* With CLOCK and more than one frame per process, the page that one replacement
\* loads is not the victim of the next, although its place in the list is that
\* of an old time of loading (memoria.c:331-353).
RecienCargadaQueda ==
  [][pc = "clock" /\ pc' = "acceder" => ultima \notin presencia \ presencia']_vars

\* An aligned access touches only bytes of the frame that holds the page of
\* its logical address, all inside user memory: the two levels of tables find
\* that page, the bitmap has no frame that memory has not, and the first byte
\* speaks for the four (cpu.c:303-409, memoria.c:124-138, 638-662).
AccesoEnSuPagina ==
  pc = "acceder" =>
    LET x == acceso.direccion \div TamanioPagina
    IN /\ x \in presencia
       /\ \A m \in {PedidoDeLectura, PedidoDeEscritura} :
            LET bytes == BytesDelAcceso(MarcoDelAcceso(m), DespDelAcceso(m))
            IN /\ bytes \subseteq BytesDelMarco(marco[x])
               /\ bytes \subseteq 0..(TamanioMemoria - 1)

\* With two frames the order of the list does not matter, and CLOCK is the
\* textbook's.  While the loop looks around nothing has happened yet.
UsadaDelReloj ==
  IF Buscando THEN antes.usada ELSE usada

Circulo ==
  IF Cardinality(presencia) < 2 THEN <<>>
  ELSE LET x == CHOOSE x \in presencia : marco[x] = puntero_marco
       IN <<x, CHOOSE y \in presencia : y # x>>

Reloj == INSTANCE SegundaOportunidad WITH
           Cupo <- 2, circulo <- Circulo, cargadas <- presencia, usadas <- UsadaDelReloj

\* Every step of CLOCK on two frames is a step of the promise, or a stutter:
\* the pointer kept as a frame, looked up in a list sorted anew each time, is
\* the hand of the textbook's circle (memoria.c:303-359).
ImplementaReloj ==
  [][algoritmo_reemplazo = "CLOCK" /\ marcos_por_proceso = 2 =>
       [Reloj!Next]_(Reloj!vars)]_vars
=============================================================================
