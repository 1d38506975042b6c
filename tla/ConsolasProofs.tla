--------------------------- MODULE ConsolasProofs ---------------------------
(***************************************************************************)
(* Proofs about Consolas, for any number of consoles and any programs: the *)
(* types, that a message arrives whole, that what is left of a burst is    *)
(* exact, and, unless a connection was accepted too early, that a console  *)
(* is answered about its own program and that each process has its own     *)
(* swap file.                                                              *)
(*                                                                         *)
(* The inductive invariant is in parts.  Bien has the types, with what     *)
(* every PCB of a queue satisfies; in it PasaBien has where the threads    *)
(* that ask for a table are, and TestigoBien what is on the dispatch       *)
(* socket.  Neither looks at where a PCB came from.  CuentaBien relates    *)
(* the queue new to its semaphore.  ConexionesBien and PropioBien follow a *)
(* connection from accept to the PCB, and IdsBien the ids from             *)
(* numero_proceso to memory, where it names n, the processes admitted.     *)
(***************************************************************************)
EXTENDS Consolas, MensajesProofs, FiniteSetTheorems

-----------------------------------------------------------------------------
(* The inductive invariant.                                                *)

Lugares == {"sin_crear", "conexion_1", "operacion", "conexion_2", "tamanio", "size",
            "buffer", "conexion_3", "id", "leer_numero", "guardar_numero", "encolar",
            "post", "fin"}

\* A PCB that is being filled.
PcbsDeHilo ==
  [id : Nat \union {-1}, socket : Consola \union {Nadie},
   tamanio_proceso : Nat \union {-1}, program_counter : {0},
   estimacion_rafaga : {EstimacionInicial}, tablas_paginas : {SinTabla},
   inicio_rafaga : {0}, restante : {EstimacionInicial}, tiempo_ejecucion : {0},
   instrucciones : Seq(Seq(Nat))]

Hilos ==
  [pc : Lugares, socket : Consola \union {Nadie}, size : Nat, aux : Nat,
   proceso : PcbsDeHilo]

PcbsDeCola ==
  [id : Nat, socket : Consola, tamanio_proceso : Nat, program_counter : Nat,
   estimacion_rafaga : Nat, tablas_paginas : Nat \union {SinTabla}, inicio_rafaga : Nat,
   restante : Int, tiempo_ejecucion : Nat, instrucciones : Seq(Seq(Nat))]

\* The program of p has not executed an EXIT before its n-th instruction.
SinSalida(p, n) == \A j \in 1..n : Op(p.instrucciones[j]) # SALIR

Exacto(p) == p.restante = p.estimacion_rafaga - p.tiempo_ejecucion

\* A PCB in a queue.
PcbsBien ==
  {p \in PcbsDeCola : /\ p.program_counter <= Len(p.instrucciones)
                      /\ SinSalida(p, p.program_counter) /\ Exacto(p)}

\* The thread h, when conexion_consola is c.
HiloBien(h, c) ==
  /\ h \in Hilos
  /\ h.pc # "sin_crear" => c \in Consola
  /\ h.pc \in {"operacion", "tamanio", "size", "buffer"} => h.socket \in Consola
  /\ h.pc \in {"id", "leer_numero", "guardar_numero", "encolar"} =>
       h.proceso.socket \in Consola
  /\ h.pc \in {"leer_numero", "guardar_numero", "encolar"} => h.proceso.id \in Nat
  /\ h.pc = "encolar" => h.proceso.tamanio_proceso \in Nat

Lados == {"consola", "kernel", "reset"}

RedBien ==
  /\ consola \in [Consola -> {"nueva", "conectada", "esperando", "exito", "fallo", "caida"}]
  /\ entrada \in [Consola -> Seq(Nat)] /\ respuesta \in [Consola -> Seq({RESPUESTA_EXITO})]
  /\ cerrados \in [Lados -> SUBSET Consola]
  /\ pendientes \in Seq(Consola)
  /\ caidas \in Nat /\ caido \in BOOLEAN /\ cruzada \in BOOLEAN /\ solapada \in BOOLEAN

HilosBien ==
  /\ pcMain \in {"accept", "pthread_create"}
  /\ conexion_consola \in Consola \union {Nadie} /\ numero_proceso \in Nat
  /\ pcMain = "pthread_create" => conexion_consola \in Consola
  /\ hilos \in [Consola -> Hilos]
  /\ \A k \in Consola : HiloBien(hilos[k], conexion_consola)

Ejecuciones ==
  [tamanio_proceso : Nat, instrucciones : Seq(Seq(Nat)), program_counter : Nat]

ColasBien ==
  /\ new \in Seq(PcbsBien) /\ ready \in Seq(PcbsBien) /\ blocked \in Seq(PcbsBien)
  /\ elementos_en_cola_new \in Nat /\ multiprogramacion \in Nat /\ tablas \in Nat
  /\ interrupciones \in Nat
  /\ DOMAIN archivos \subseteq Nat /\ \A i \in DOMAIN archivos : archivos[i] \in Nat
  /\ finalizados \subseteq Ejecuciones
  /\ \A p \in finalizados : p.program_counter \in 1..Len(p.instrucciones)

Pasando ==
  [pc : {"fuera", "pedir_tabla", "recibir_tabla"}, id : Nat, tamanio_proceso : Nat,
   lugar : Nat]

\* A thread that asks for a table knows where in ready its process is.
LugarBien(t) ==
  /\ pasa[t].pc = "fuera" => pasa[t] = Fuera
  /\ pasa[t].lugar # 0 =>
       /\ pasa[t].lugar \in 1..Len(ready)
       /\ ready[pasa[t].lugar].id = pasa[t].id
       /\ ready[pasa[t].lugar].tamanio_proceso = pasa[t].tamanio_proceso

PasaBien ==
  /\ elementos_en_cola_ready \in Nat /\ respuestas \in Seq(Nat)
  /\ apurado \in BOOLEAN /\ perdido \in BOOLEAN
  /\ pasa \in [PasanAReady -> Pasando]
  /\ \A t \in PasanAReady : LugarBien(t)

\* At most one of the three is not empty, and none when the semaphore is up or
\* comunicacion_con_cpu is in pasar_a_ready.
Unico ==
  /\ sem_planificacion \in 0..1
  /\ sem_planificacion = 1 => dispatch = <<>> /\ cpu = <<>> /\ devuelto = <<>>
  /\ dispatch # <<>> => cpu = <<>> /\ devuelto = <<>>
  /\ cpu # <<>> => devuelto = <<>>
  /\ pasa["disp"].pc # "fuera" =>
       sem_planificacion = 0 /\ dispatch = <<>> /\ cpu = <<>> /\ devuelto = <<>>

EnVuelo == dispatch # <<>> \/ cpu # <<>> \/ devuelto # <<>>

\* p is the PCB that was sent, with another program counter.
MismoPcb(p, e) == p = [e EXCEPT !.program_counter = p.program_counter]

\* What the CPU has sent back is p, which ended with the instruction before its
\* program counter, and this is why.
Devuelto(p) ==
  /\ p.program_counter > enviado.program_counter
  /\ p.program_counter <= Len(p.instrucciones)
  /\ SinSalida(p, p.program_counter - 1)
  /\ LET t == p.instrucciones[p.program_counter] IN
     \/ /\ Op(t) = IO /\ Len(t) > 1
        /\ devuelto = PcbBloqueadoDeLaCpu(t[2], p)
     \/ Op(t) = SALIR /\ devuelto = PcbDeLaCpu(OpCpu.FINALIZACION_PROCESO, p)
     \/ Op(t) \notin {IO, SALIR} /\ devuelto = PcbDeLaCpu(OpCpu.INTERRUPCION, p)

TestigoBien ==
  /\ Unico
  /\ EnVuelo => enviado \in PcbsBien /\ enviado.inicio_rafaga = Ahora
  /\ dispatch # <<>> => dispatch = PcbDelKernel(enviado)
  /\ cpu # <<>> => /\ cpu \in Seq(PcbsBien) /\ Len(cpu) = 1
                   /\ MismoPcb(cpu[1], enviado)
                   /\ cpu[1].program_counter >= enviado.program_counter
  /\ devuelto # <<>> =>
       \E n \in 1..Len(enviado.instrucciones) :
         Devuelto([enviado EXCEPT !.program_counter = n])

\* Each process that is queued, and whose thread has done its sem_post, is counted.
PorPostear == {k \in Consola : hilos[k].pc = "post"}

CuentaBien == Len(new) = elementos_en_cola_new + Cardinality(PorPostear)

\* A connection is accepted once.
ConexionesBien ==
  /\ \A i, j \in 1..Len(pendientes) : pendientes[i] = pendientes[j] => i = j
  /\ \A i \in 1..Len(pendientes) : /\ consola[pendientes[i]] # "nueva"
                                   /\ pendientes[i] # conexion_consola
  /\ conexion_consola \in Consola => consola[conexion_consola] # "nueva"

Paquete(c) == PaqueteDeConsola(Tamanio(c), Programas[c])

\* Nobody has read from these cells what console c, which is in this place, sends.
Virgen(c, lugar, celdas) ==
  \/ lugar \in {"nueva", "conectada", "caida"} /\ celdas = <<>>
  \/ lugar \notin {"nueva", "conectada"} /\ celdas = Paquete(c)

\* p is the process of the console at the other end of its socket.
Suyo(p) ==
  /\ p.tamanio_proceso = Tamanio(p.socket)
  /\ p.instrucciones \in Parseos(Programas[p.socket])

Suyos == {p \in PcbsBien : Suyo(p)}

\* The thread h, which looks at conexion_consola, reads from the socket of c, and
\* these cells are what it has left.
Leyendo(h, c, lugar, celdas) ==
  /\ h.pc \in {"operacion", "tamanio", "size", "buffer"} => h.socket = c
  /\ IF h.pc \in {"conexion_1", "operacion"} THEN Virgen(c, lugar, celdas)
     ELSE lugar \notin {"nueva", "conectada"}
  /\ h.pc \in {"conexion_2", "tamanio"} =>
       celdas = <<Tamanio(c)>> \o Buffer(Programas[c])
  /\ h.pc = "size" => celdas = Buffer(Programas[c])
  /\ h.pc = "buffer" =>
       celdas = Stream(Programas[c]) /\ h.size = Len(Stream(Programas[c]))
  /\ h.pc \in {"size", "buffer", "conexion_3"} => h.proceso.tamanio_proceso = Tamanio(c)
  /\ h.pc = "conexion_3" => h.proceso.instrucciones \in Parseos(Programas[c])

ConSocket == {"id", "leer_numero", "guardar_numero", "encolar"}

\* What is read is what the console sent, from the connection ...
LecturaBien ==
  /\ \A j, k \in Consola : MiraElGlobal(j) /\ MiraElGlobal(k) => j = k
  /\ pcMain = "pthread_create" => \A k \in Consola : ~MiraElGlobal(k)
  /\ \A c \in Consola :
       \/ consola[c] = "nueva" \/ \E i \in 1..Len(pendientes) : pendientes[i] = c
       \/ pcMain = "pthread_create" /\ conexion_consola = c
       => Virgen(c, consola[c], entrada[c])
  /\ \A k \in Consola :
       MiraElGlobal(k) =>
         Leyendo(hilos[k], conexion_consola, consola[conexion_consola],
                 entrada[conexion_consola])
  /\ \A k \in Consola : hilos[k].pc \in ConSocket => Suyo(hilos[k].proceso)

\* ... to the queues and the CPU, and to the answer.
ProcesosBien ==
  /\ new \in Seq(Suyos) /\ ready \in Seq(Suyos) /\ blocked \in Seq(Suyos)
  /\ EnVuelo => Suyo(enviado)
  /\ \A c \in Consola : respuesta[c] # <<>> \/ consola[c] = "exito" => Termino(c)

\* The id of the next process to be queued, when n have been admitted.
ProximoId(n) == n + Len(new)

NumeroBien(n) ==
  /\ \A j, k \in Consola : EntreIdYCola(j) /\ EntreIdYCola(k) => j = k
  /\ \A k \in Consola : EntreIdYCola(k) => hilos[k].proceso.id = ProximoId(n)
  /\ \A k \in Consola : hilos[k].pc = "guardar_numero" => hilos[k].aux = ProximoId(n)
  /\ numero_proceso =
       IF \E k \in Consola : hilos[k].pc = "encolar" THEN ProximoId(n) + 1 ELSE ProximoId(n)
  /\ \A j \in 1..Len(new) : new[j].id = n + j - 1 /\ new[j].tablas_paginas = SinTabla

\* p has a swap file of its size.
ConArchivo(p) == p.id \in DOMAIN archivos /\ archivos[p.id] = p.tamanio_proceso

Elementos(q) == {q[i] : i \in 1..Len(q)}

IdsDistintos(q) == \A i, j \in 1..Len(q) : q[i].id = q[j].id => i = j

Ajenos(S, T) == \A p \in S, q \in T : p.id # q.id

Afuera == IF EnVuelo THEN {enviado} ELSE {}

Todos == Elementos(ready) \union Elementos(blocked) \union Afuera

Distintos ==
  /\ IdsDistintos(ready) /\ IdsDistintos(blocked)
  /\ Ajenos(Elementos(ready), Elementos(blocked))
  /\ Ajenos(Elementos(ready), Afuera) /\ Ajenos(Elementos(blocked), Afuera)

\* t, in pasar_a_ready, asks for the table of one of the n processes admitted, which
\* has its file once it has been asked for.
PideBien(n, t) ==
  pasa[t].pc # "fuera" =>
    /\ pasa[t].id < n
    /\ \A p \in Todos : p.id = pasa[t].id => p.tamanio_proceso = pasa[t].tamanio_proceso
    /\ pasa[t].pc = "recibir_tabla" /\ pasa[t].lugar # 0 => ConArchivo(pasa[t])

\* A process that has a number has its file.
SwapBien(n) ==
  /\ Distintos
  /\ \A p \in Todos : p.id < n
  /\ \A p \in Todos : p.tablas_paginas # SinTabla => ConArchivo(p)
  /\ \A t \in PasanAReady : PideBien(n, t)

\* While no process has been dispatched before its number came, only
\* pasar_de_new_a_ready asks for numbers, and memory gives them in the order of
\* the ids.
OrdenBien(n) ==
  /\ \A p \in Todos : p.tablas_paginas # SinTabla => p.id = p.tablas_paginas
  /\ \A p \in Elementos(blocked) \union Afuera : p.tablas_paginas # SinTabla
  /\ \A i \in 1..Len(ready) :
       ready[i].tablas_paginas = SinTabla => pasa["ltp"].pc # "fuera" /\ pasa["ltp"].lugar = i
  /\ pasa["io"].pc = "fuera" /\ pasa["disp"].pc = "fuera"
  /\ pasa["ltp"].pc = "fuera" => n = tablas /\ respuestas = <<>>
  /\ pasa["ltp"].pc = "pedir_tabla" =>
       pasa["ltp"].id = tablas /\ n = tablas + 1 /\ respuestas = <<>>
  /\ pasa["ltp"].pc = "recibir_tabla" =>
       n = tablas /\ respuestas = <<pasa["ltp"].id>>

Bien == RedBien /\ HilosBien /\ ColasBien /\ PasaBien /\ TestigoBien

PropioBien == ~cruzada => LecturaBien /\ ProcesosBien

IdsBien ==
  ~cruzada /\ ~solapada =>
    \E n \in Nat : NumeroBien(n) /\ SwapBien(n) /\ (~apurado => OrdenBien(n))

Inv == Bien /\ CuentaBien /\ ConexionesBien /\ PropioBien /\ IdsBien

-----------------------------------------------------------------------------
(* Sequences.                                                              *)

LEMMA QuitarUno ==
  ASSUME NEW S, NEW q \in Seq(S), NEW k \in 1..Len(q)
  PROVE  /\ RemoveAt(q, k) \in Seq(S) /\ Len(RemoveAt(q, k)) = Len(q) - 1
         /\ \A i \in 1..(Len(q) - 1) : RemoveAt(q, k)[i] = IF i < k THEN q[i] ELSE q[i + 1]
<1>. DEFINE n == Len(q)
            a == SubSeq(q, 1, k - 1)
            b == SubSeq(q, k + 1, n)
<1>1. n \in Nat /\ k \in Int /\ 1 <= k /\ k <= n
  BY LenProperties
<1>2. RemoveAt(q, k) = a \o b
  BY DEF RemoveAt
<1>3. /\ a \in Seq(S) /\ Len(a) = k - 1 /\ \A i \in 1..(k - 1) : a[i] = q[i]
  <2>1. 1 \in Int /\ k - 1 \in Int /\ \A i \in 1..(k - 1) : q[i] \in S
    <3>1. \A i \in 1..(k - 1) : i \in 1..Len(q)
      BY <1>1
    <3>. QED
      BY <1>1, <3>1, ElementOfSeq
  <2>. DEFINE h == k - 1
  <2>2. h \in Int /\ \A i \in 1..h : q[i] \in S
    BY <2>1
  <2>. HIDE DEF h
  <2>3. /\ SubSeq(q, 1, h) \in Seq(S)
        /\ Len(SubSeq(q, 1, h)) = IF 1 <= h THEN h - 1 + 1 ELSE 0
        /\ \A i \in 1..(h - 1 + 1) : SubSeq(q, 1, h)[i] = q[1 + i - 1]
    BY <2>2, SubSeqProperties
  <2>4. \A i \in 1..h : i \in 1..(h - 1 + 1) /\ 1 + i - 1 = i
    BY <2>2
  <2>5. \A i \in 1..h : SubSeq(q, 1, h)[i] = q[i]
    BY <2>3, <2>4
  <2>6. Len(SubSeq(q, 1, h)) = h
    BY <1>1, <2>2, <2>3 DEF h
  <2>. QED
    BY <2>3, <2>5, <2>6 DEF h
<1>4. /\ b \in Seq(S) /\ Len(b) = n - k /\ \A i \in 1..(n - k) : b[i] = q[k + i]
  <2>. DEFINE d == k + 1
  <2>1. d \in Int /\ n \in Int /\ \A i \in d..n : q[i] \in S
    <3>1. \A i \in d..n : i \in 1..Len(q)
      BY <1>1
    <3>. QED
      BY <1>1, <3>1, ElementOfSeq
  <2>2. n - d + 1 = n - k /\ (d <= n <=> n - k > 0) /\ \A i \in 1..(n - k) : d + i - 1 = k + i
    BY <1>1
  <2>. HIDE DEF d, n
  <2>3. /\ SubSeq(q, d, n) \in Seq(S)
        /\ Len(SubSeq(q, d, n)) = IF d <= n THEN n - d + 1 ELSE 0
        /\ \A i \in 1..(n - d + 1) : SubSeq(q, d, n)[i] = q[d + i - 1]
    BY <2>1, SubSeqProperties
  <2>4. \A i \in 1..(n - k) : SubSeq(q, d, n)[i] = q[k + i]
    BY <2>2, <2>3
  <2>5. Len(SubSeq(q, d, n)) = n - k
    BY <1>1, <2>2, <2>3
  <2>. QED
    BY <2>3, <2>4, <2>5 DEF d, n
<1>. HIDE DEF a, b
<1>5. /\ a \o b \in Seq(S) /\ Len(a \o b) = Len(a) + Len(b)
      /\ \A i \in 1..Len(a) : (a \o b)[i] = a[i]
      /\ \A i \in 1..Len(b) : (a \o b)[Len(a) + i] = b[i]
  <2>1. a \in Seq(S) /\ b \in Seq(S)
    BY <1>3, <1>4
  <2>. QED
    BY <2>1, Pegar
<1>6. ASSUME NEW i \in 1..(n - 1)
      PROVE  (a \o b)[i] = IF i < k THEN q[i] ELSE q[i + 1]
  <2>1. CASE i < k
    <3>1. i \in 1..Len(a) /\ i \in 1..(k - 1)
      BY <1>1, <1>3, <2>1
    <3>. QED
      BY <1>3, <1>5, <2>1, <3>1
  <2>2. CASE ~(i < k)
    <3>. DEFINE j == i - (k - 1)
    <3>1. j \in 1..Len(b) /\ j \in 1..(n - k) /\ Len(a) + j = i /\ k + j = i + 1
      BY <1>1, <1>3, <1>4, <2>2
    <3>. HIDE DEF j
    <3>. QED
      BY <1>4, <1>5, <2>2, <3>1
  <2>. QED
    BY <2>1, <2>2
<1>7. Len(a) + Len(b) = n - 1
  BY <1>1, <1>3, <1>4
<1>. QED
  BY <1>2, <1>5, <1>6, <1>7

LEMMA ElementosEnSeq ==
  ASSUME NEW S, NEW T, NEW q \in Seq(T), \A i \in 1..Len(q) : q[i] \in S
  PROVE  q \in Seq(S)
<1>1. Len(q) \in Nat /\ q \in [1..Len(q) -> T]
  BY LenProperties
<1>2. q \in [1..Len(q) -> S]
  BY <1>1
<1>. QED
  BY <1>1, <1>2, SeqDef

\* A sequence with one more at the end, and one less at the beginning.
LEMMA ConUnoMas ==
  ASSUME NEW S, NEW q \in Seq(S), NEW e \in S
  PROVE  /\ Append(q, e) \in Seq(S) /\ Len(q) \in Nat /\ Len(Append(q, e)) = Len(q) + 1
         /\ \A i \in 1..(Len(q) + 1) : Append(q, e)[i] = IF i <= Len(q) THEN q[i] ELSE e
<1>1. /\ Append(q, e) \in Seq(S) /\ Len(Append(q, e)) = Len(q) + 1
      /\ \A i \in 1..Len(q) : Append(q, e)[i] = q[i]
      /\ Append(q, e)[Len(q) + 1] = e
  BY AppendProperties
<1>2. Len(q) \in Nat
  BY LenProperties
<1>3. ASSUME NEW i \in 1..(Len(q) + 1)
      PROVE  Append(q, e)[i] = IF i <= Len(q) THEN q[i] ELSE e
  <2>1. i \in 1..Len(q) \/ i = Len(q) + 1
    BY <1>2
  <2>. QED
    BY <1>1, <1>2, <2>1
<1>. QED
  BY <1>1, <1>2, <1>3

LEMMA ConUnoMenos ==
  ASSUME NEW S, NEW q \in Seq(S), Len(q) > 0
  PROVE  /\ Head(q) \in S /\ Head(q) = q[1] /\ Tail(q) \in Seq(S) /\ Len(q) \in Nat
         /\ Len(Tail(q)) = Len(q) - 1
         /\ \A i \in 1..(Len(q) - 1) : Tail(q)[i] = q[i + 1]
<1>1. q # <<>> /\ Len(q) \in Nat
  BY LenProperties, EmptySeq
<1>2. /\ Head(q) \in S /\ Tail(q) \in Seq(S) /\ Len(Tail(q)) = Len(q) - 1
      /\ \A i \in 1..Len(Tail(q)) : Tail(q)[i] = q[i + 1]
  BY <1>1, HeadTailProperties
<1>3. \A i \in 1..(Len(q) - 1) : Tail(q)[i] = q[i + 1]
  BY <1>2
<1>. QED
  BY <1>1, <1>2, <1>3

\* What recv leaves, and what it has read.
LEMMA SinPrimeros ==
  ASSUME NEW S, NEW q \in Seq(S), NEW n \in Nat, n <= Len(q)
  PROVE  /\ SubSeq(q, n + 1, Len(q)) \in Seq(S)
         /\ SubSeq(q, 1, n) \in Seq(S)
<1>1. Len(q) \in Nat
  BY LenProperties
<1>2. /\ \A i \in (n + 1)..Len(q) : q[i] \in S
      /\ \A i \in 1..n : q[i] \in S
  <2>1. /\ \A i \in (n + 1)..Len(q) : i \in 1..Len(q)
        /\ \A i \in 1..n : i \in 1..Len(q)
    BY <1>1
  <2>. QED
    BY <2>1, ElementOfSeq
<1>. DEFINE d == n + 1
            h == Len(q)
<1>3. d \in Int /\ h \in Int /\ \A i \in d..h : q[i] \in S
  BY <1>1, <1>2
<1>. HIDE DEF d, h
<1>4. SubSeq(q, d, h) \in Seq(S)
  BY <1>3, SubSeqProperties
<1>5. 1 \in Int /\ n \in Int
  OBVIOUS
<1>6. SubSeq(q, 1, n) \in Seq(S)
  BY <1>2, <1>5, SubSeqProperties
<1>. QED
  BY <1>4, <1>6 DEF d, h

\* A sequence with one more at the beginning.
LEMMA DetrasDelPrimero ==
  ASSUME NEW S, NEW q \in Seq(S), NEW e \in S, NEW u, u = <<e>> \o q
  PROVE  /\ u \in Seq(S) /\ Len(u) >= 1 /\ Head(u) = e /\ SubSeq(u, 1 + 1, Len(u)) = q
<1>. DEFINE d == <<e>>
<1>1. d \in Seq(S) /\ Len(d) = 1 /\ d[1] = e /\ d # <<>> /\ Tail(d) = <<>>
  OBVIOUS
<1>. HIDE DEF d
<1>2. d \o q \in Seq(S) /\ Len(d \o q) = Len(d) + Len(q)
  <2>1. d \in Seq(S) /\ q \in Seq(S)
    BY <1>1
  <2>. QED
    BY <2>1, Pegar
<1>3. Tail(d \o q) = Tail(d) \o q /\ (d \o q)[1] = d[1]
  <2>1. d \in Seq(S) /\ q \in Seq(S) /\ d # <<>>
    BY <1>1
  <2>. QED
    BY <2>1, ColaDePegar
<1>4. <<>> \o q = q
  BY ConcatEmptySeq
<1>5. u = d \o q
  BY DEF d
<1>6. u \in Seq(S) /\ Len(u) >= 1 /\ u[1] = e /\ Tail(u) = q
  <2>1. Len(q) \in Nat
    BY LenProperties
  <2>. QED
    BY <1>1, <1>2, <1>3, <1>4, <1>5, <2>1
<1>. HIDE DEF d
<1>7. u # <<>>
  BY <1>6
<1>8. Tail(u) = SubSeq(u, 2, Len(u))
  BY <1>6, <1>7, TailIsSubSeq
<1>. QED
  BY <1>6, <1>8

-----------------------------------------------------------------------------
(* Consoles, what they send, and PCBs.                                     *)

LEMMA ConsolaTipo ==
  /\ Consola = 1..Len(Programas) /\ Len(Programas) \in Nat
  /\ \A c \in Consola : /\ c \in Nat /\ c # Nadie /\ Tamanio(c) \in Nat
                        /\ Programas[c] \in Seq(Seq(Nat))
  BY ConstantesOK, ElementOfSeq, LenProperties DEF Consola, Nadie, Tamanio

\* What a console sends, and what is left of it after each recv of the kernel.
LEMMA PaqueteSon ==
  ASSUME NEW c \in Consola
  PROVE  LET m == Paquete(c)
             t == Stream(Programas[c])
             b == Buffer(Programas[c])
             r == <<Tamanio(c)>> \o b
         IN /\ m \in Seq(Nat) /\ Len(m) >= 1 /\ Head(m) = LISTA_DE_INSTRUCCIONES
            /\ SubSeq(m, 1 + 1, Len(m)) = r
            /\ r \in Seq(Nat) /\ Len(r) >= 1 /\ Head(r) = Tamanio(c)
            /\ SubSeq(r, 1 + 1, Len(r)) = b
            /\ b \in Seq(Nat) /\ Len(b) >= 1 /\ Head(b) = Len(t)
            /\ SubSeq(b, 1 + 1, Len(b)) = t
            /\ t \in Seq(Nat) /\ Len(t) \in Nat /\ SubSeq(t, 1, Len(t)) = t
            /\ Instrucciones(t) = Programas[c] /\ EsStream(t)
            /\ <<>> \o m = m
<1>. DEFINE x == Programas[c]
            m == Paquete(c)
            t == Stream(x)
            b == Buffer(x)
            r == <<Tamanio(c)>> \o b
<1>1. x \in Seq(Seq(Nat)) /\ Celdas(Nat) /\ Tamanio(c) \in Nat
  BY ConsolaTipo, EnterosSonCeldas
<1>. HIDE DEF x
<1>2. t \in Seq(Nat) /\ Instrucciones(t) = x /\ EsStream(t)
  BY <1>1, StreamTipo, InstruccionesDelStream, StreamEsStream
<1>3. Len(t) \in Nat /\ SubSeq(t, 1, Len(t)) = t
  <2>1. t \in Seq(Nat)
    BY <1>2
  <2>. HIDE DEF t
  <2>. QED
    BY <2>1, LenProperties, SubSeqFull
<1>4. b = <<Len(t)>> \o t
  BY DEF Buffer
<1>. HIDE DEF t, b
<1>5. b \in Seq(Nat) /\ Len(b) >= 1 /\ Head(b) = Len(t) /\ SubSeq(b, 1 + 1, Len(b)) = t
  BY <1>2, <1>3, <1>4, DetrasDelPrimero
<1>6. r \in Seq(Nat) /\ Len(r) >= 1 /\ Head(r) = Tamanio(c) /\ SubSeq(r, 1 + 1, Len(r)) = b
  BY <1>1, <1>5, DetrasDelPrimero
<1>7. m = <<LISTA_DE_INSTRUCCIONES>> \o r
  <2>. DEFINE d == <<ConsolaListaDeInstrucciones>>
              e == <<Tamanio(c)>>
  <2>1. d \in Seq(Nat) /\ e \in Seq(Nat) /\ d \o e = <<ConsolaListaDeInstrucciones, Tamanio(c)>>
    <3>1. d \in Seq(Nat) /\ e \in Seq(Nat)
      BY <1>1 DEF ConsolaListaDeInstrucciones
    <3>. DEFINE w == <<ConsolaListaDeInstrucciones, Tamanio(c)>>
    <3>2. /\ w \in Seq(Nat) /\ Len(w) = 2 /\ w[1] = d[1] /\ w[2] = e[1]
          /\ Len(d) = 1 /\ Len(e) = 1
      BY <1>1 DEF ConsolaListaDeInstrucciones
    <3>. HIDE DEF w, d, e
    <3>3. /\ d \o e \in Seq(Nat) /\ Len(d \o e) = Len(d) + Len(e)
          /\ \A i \in 1..Len(d) : (d \o e)[i] = d[i]
          /\ \A i \in 1..Len(e) : (d \o e)[Len(d) + i] = e[i]
      BY <3>1, Pegar
    <3>4. Len(d \o e) = Len(w) /\ \A i \in 1..Len(d \o e) : (d \o e)[i] = w[i]
      <4>1. (d \o e)[1] = d[1] /\ (d \o e)[1 + 1] = e[1] /\ Len(d \o e) = 2
        BY <3>2, <3>3
      <4>. QED
        BY <3>2, <4>1
    <3>5. d \o e = w
      BY <3>2, <3>3, <3>4, SeqEqual
    <3>. QED
      BY <3>1, <3>5 DEF w
  <2>2. m = (d \o e) \o b
    BY <2>1 DEF Paquete, PaqueteDeConsola, b, x
  <2>. HIDE DEF d, e
  <2>3. (d \o e) \o b = d \o (e \o b)
    <3>1. d \in Seq(Nat) /\ e \in Seq(Nat) /\ b \in Seq(Nat)
      BY <1>5, <2>1
    <3>. QED
      BY <3>1, ConcatAssociative
  <2>. QED
    BY <2>2, <2>3 DEF d, e, ConsolaListaDeInstrucciones, LISTA_DE_INSTRUCCIONES
<1>. HIDE DEF r, m
<1>8. m \in Seq(Nat) /\ Len(m) >= 1 /\ Head(m) = LISTA_DE_INSTRUCCIONES
      /\ SubSeq(m, 1 + 1, Len(m)) = r
  <2>1. LISTA_DE_INSTRUCCIONES \in Nat
    BY DEF LISTA_DE_INSTRUCCIONES
  <2>. QED
    BY <1>6, <1>7, <2>1, DetrasDelPrimero
<1>9. <<>> \o m = m
  BY <1>8, ConcatEmptySeq
<1>. QED
  BY <1>2, <1>3, <1>5, <1>6, <1>8, <1>9 DEF m, r, b, t, x

\* parsear_instrucciones returns instructions.
LEMMA ParsearTipo ==
  ASSUME NEW x \in Seq(Seq(Nat)), NEW i \in Parseos(x)
  PROVE  i \in Seq(Seq(Nat))
<1>0. PICK resto \in [DOMAIN x -> Repeticiones] : i = Parsear(x, resto)
  BY DEF Parseos
<1>. DEFINE Parametro(j) == IF Len(x[j]) = 1 THEN resto[j] ELSE x[j][2]
            Veces(j) == IF Parametro(j) = 0 THEN 1 ELSE Parametro(j)
            Una(j) == IF x[j] # <<>> /\ x[j][1] = NO_OP
                      THEN [l \in 1..Veces(j) |-> <<NO_OP>>] ELSE <<x[j]>>
            ss == [j \in DOMAIN x |-> Una(j)]
<1>1. DOMAIN x = 1..Len(x) /\ Len(x) \in Nat /\ \A j \in 1..Len(x) : x[j] \in Seq(Nat)
  BY ElementOfSeq, LenProperties
<1>2. ASSUME NEW j \in DOMAIN x PROVE Una(j) \in Seq(Seq(Nat))
  <2>1. x[j] \in Seq(Nat) /\ <<x[j]>> \in Seq(Seq(Nat))
    BY <1>1
  <2>2. ASSUME x[j] # <<>> PROVE [l \in 1..Veces(j) |-> <<NO_OP>>] \in Seq(Seq(Nat))
    <3>1. Len(x[j]) \in Nat \ {0}
      BY <2>1, <2>2, EmptySeq, LenProperties
    <3>2. Parametro(j) \in Nat
      <4>1. CASE Len(x[j]) = 1
        <5>1. resto[j] \in Nat
          BY ConstantesOK
        <5>. QED
          BY <4>1, <5>1
      <4>2. CASE Len(x[j]) # 1
        <5>. DEFINE l == Len(x[j])
        <5>1. l # 1 /\ l \in Nat /\ l # 0
          BY <3>1, <4>2
        <5>. HIDE DEF l
        <5>2. 2 \in 1..l
          BY <5>1
        <5>3. x[j][2] \in Nat
          BY <2>1, <5>2, ElementOfSeq DEF l
        <5>. QED
          BY <4>2, <5>3
      <4>. QED
        BY <4>1, <4>2
    <3>. HIDE DEF Parametro
    <3>3. <<NO_OP>> \in Seq(Nat)
      BY DEF NO_OP
    <3>. DEFINE n == Veces(j)
    <3>4. n \in Nat
      BY <3>2
    <3>. HIDE DEF n, Veces
    <3>. DEFINE g == [l \in 1..n |-> <<NO_OP>>]
    <3>5. g \in [1..n -> Seq(Nat)]
      BY <3>3
    <3>. HIDE DEF g
    <3>6. g \in Seq(Seq(Nat))
      BY <3>4, <3>5, SeqDef
    <3>. QED
      BY <3>6 DEF n, g
  <2>. HIDE DEF Veces
  <2>. QED
    BY <2>1, <2>2
<1>3. Parsear(x, resto) = FlattenSeq(ss)
  BY DEF Parsear
<1>. HIDE DEF Una
<1>4. ss \in [1..Len(x) -> Seq(Seq(Nat))]
  BY <1>1, <1>2
<1>5. ss \in Seq(Seq(Seq(Nat)))
  BY <1>1, <1>4
<1>. HIDE DEF ss
<1>. QED
  BY <1>0, <1>3, <1>5, AplanarTipo

LEMMA PcbsBienTipo ==
  ASSUME NEW p \in PcbsBien
  PROVE  /\ p \in PcbsDeCola /\ p \in Pcbs /\ EsPcb(p) /\ Exacto(p)
         /\ Len(p.instrucciones) \in Nat
<1>1. p \in PcbsDeCola /\ p.program_counter <= Len(p.instrucciones) /\ Exacto(p)
  BY DEF PcbsBien
<1>2. Len(p.instrucciones) \in Nat
  BY <1>1, LenProperties DEF PcbsDeCola
<1>3. \A c \in Consola : c \in Nat
  BY ConsolaTipo
<1>4. p \in Pcbs
  BY <1>1, <1>3 DEF PcbsDeCola, Pcbs, SinTabla
<1>5. EsPcb(p)
  BY <1>1, <1>2 DEF EsPcb, PcbsDeCola
<1>. QED
  BY <1>1, <1>2, <1>4, <1>5

\* What the kernel and the CPU do to a PCB.
LEMMA PcbNuevo ==
  ASSUME NEW p \in PcbsDeHilo, p.socket \in Consola, p.id \in Nat, p.tamanio_proceso \in Nat
  PROVE  p \in PcbsBien
<1>1. p \in PcbsDeCola
  BY ConstantesOK DEF PcbsDeHilo, PcbsDeCola
<1>2. p.program_counter <= Len(p.instrucciones)
  <2>1. p.program_counter = 0 /\ Len(p.instrucciones) \in Nat
    BY <1>1, LenProperties DEF PcbsDeHilo
  <2>. QED
    BY <2>1
<1>3. SinSalida(p, p.program_counter)
  BY DEF SinSalida, PcbsDeHilo
<1>4. Exacto(p)
  BY ConstantesOK DEF Exacto, PcbsDeHilo
<1>. QED
  BY <1>1, <1>2, <1>3, <1>4 DEF PcbsBien

LEMMA PcbConTabla ==
  ASSUME NEW p \in PcbsBien, NEW t \in Nat
  PROVE  [p EXCEPT !.tablas_paginas = t] \in PcbsBien
<1>. DEFINE r == [p EXCEPT !.tablas_paginas = t]
<1>1. p \in PcbsDeCola
  BY DEF PcbsBien
<1>2. /\ r \in PcbsDeCola /\ r.program_counter = p.program_counter
      /\ r.instrucciones = p.instrucciones /\ r.restante = p.restante
      /\ r.estimacion_rafaga = p.estimacion_rafaga /\ r.tiempo_ejecucion = p.tiempo_ejecucion
  BY <1>1 DEF PcbsDeCola
<1>. HIDE DEF r
<1>3. r \in PcbsBien
  BY <1>2 DEF PcbsBien, SinSalida, Exacto
<1>. QED
  BY <1>3 DEF r

LEMMA PcbConInicio ==
  ASSUME NEW p \in PcbsBien
  PROVE  /\ [p EXCEPT !.inicio_rafaga = Ahora] \in PcbsBien
         /\ [p EXCEPT !.inicio_rafaga = Ahora].inicio_rafaga = Ahora
<1>. DEFINE r == [p EXCEPT !.inicio_rafaga = Ahora]
<1>1. p \in PcbsDeCola
  BY DEF PcbsBien
<1>2. /\ r \in PcbsDeCola /\ r.program_counter = p.program_counter
      /\ r.instrucciones = p.instrucciones /\ r.restante = p.restante
      /\ r.estimacion_rafaga = p.estimacion_rafaga /\ r.tiempo_ejecucion = p.tiempo_ejecucion
      /\ r.inicio_rafaga = Ahora
  BY <1>1 DEF PcbsDeCola, Ahora
<1>. HIDE DEF r
<1>3. r \in PcbsBien
  BY <1>2 DEF PcbsBien, SinSalida, Exacto
<1>. QED
  BY <1>2, <1>3 DEF r

\* A PCB that comes back, and what the listener makes of it.
LEMMA PcbDevuelto ==
  ASSUME NEW e \in PcbsBien, NEW n \in 1..Len(e.instrucciones),
         NEW p, p = [e EXCEPT !.program_counter = n]
  PROVE  /\ p \in PcbsDeCola /\ p \in Pcbs /\ p.program_counter = n
         /\ p.instrucciones = e.instrucciones /\ p.inicio_rafaga = e.inicio_rafaga
         /\ p.id = e.id /\ p.socket = e.socket /\ p.tamanio_proceso = e.tamanio_proceso
         /\ p.tablas_paginas = e.tablas_paginas
         /\ Exacto(p) /\ Len(p.instrucciones) \in Nat
<1>1. e \in PcbsDeCola /\ Exacto(e) /\ n \in Nat
  BY DEF PcbsBien
<1>2. /\ p \in PcbsDeCola /\ p.program_counter = n
      /\ p.instrucciones = e.instrucciones /\ p.inicio_rafaga = e.inicio_rafaga
      /\ p.id = e.id /\ p.socket = e.socket /\ p.tamanio_proceso = e.tamanio_proceso
      /\ p.tablas_paginas = e.tablas_paginas /\ p.restante = e.restante
      /\ p.estimacion_rafaga = e.estimacion_rafaga /\ p.tiempo_ejecucion = e.tiempo_ejecucion
  BY <1>1 DEF PcbsDeCola
<1>3. Exacto(p)
  BY <1>1, <1>2 DEF Exacto
<1>4. \A c \in Consola : c \in Nat
  BY ConsolaTipo
<1>5. p \in Pcbs
  BY <1>2, <1>4 DEF PcbsDeCola, Pcbs, SinTabla
<1>6. Len(p.instrucciones) \in Nat
  BY <1>2, LenProperties DEF PcbsDeCola
<1>. QED
  BY <1>2, <1>3, <1>5, <1>6

LEMMA RafagasBien ==
  ASSUME NEW p \in PcbsDeCola, p.program_counter <= Len(p.instrucciones),
         SinSalida(p, p.program_counter), Exacto(p), p.inicio_rafaga = Ahora, NEW t \in Nat
  PROVE  /\ RafagaNueva(p, t) \in PcbsBien /\ RafagaCortada(p, t) \in PcbsBien
         /\ \A r \in {RafagaNueva(p, t), RafagaCortada(p, t)} :
              /\ r.id = p.id /\ r.socket = p.socket /\ r.tamanio_proceso = p.tamanio_proceso
              /\ r.instrucciones = p.instrucciones /\ r.tablas_paginas = p.tablas_paginas
<1>1. TiempoReal(p, t) = t
  BY DEF TiempoReal, Ahora
<1>. DEFINE w == p.tiempo_ejecucion + TiempoReal(p, t) + p.estimacion_rafaga
            e == w \div 2
            a == RafagaNueva(p, t)
            b == RafagaCortada(p, t)
<1>2. w \in Nat
  BY <1>1 DEF PcbsDeCola
<1>. HIDE DEF w
<1>3. e \in Nat
  BY <1>2
<1>. HIDE DEF e
<1>0. /\ p.id \in Nat /\ p.socket \in Consola /\ p.tamanio_proceso \in Nat
      /\ p.program_counter \in Nat /\ p.estimacion_rafaga \in Nat
      /\ p.tablas_paginas \in Nat \union {SinTabla} /\ p.inicio_rafaga \in Nat
      /\ p.restante \in Int /\ p.tiempo_ejecucion \in Nat
      /\ p.instrucciones \in Seq(Seq(Nat))
      /\ p = [id |-> p.id, socket |-> p.socket, tamanio_proceso |-> p.tamanio_proceso,
              program_counter |-> p.program_counter,
              estimacion_rafaga |-> p.estimacion_rafaga, tablas_paginas |-> p.tablas_paginas,
              inicio_rafaga |-> p.inicio_rafaga, restante |-> p.restante,
              tiempo_ejecucion |-> p.tiempo_ejecucion, instrucciones |-> p.instrucciones]
  BY DEF PcbsDeCola
<1>4. a = [id |-> p.id, socket |-> p.socket, tamanio_proceso |-> p.tamanio_proceso,
           program_counter |-> p.program_counter, estimacion_rafaga |-> e,
           tablas_paginas |-> p.tablas_paginas, inicio_rafaga |-> p.inicio_rafaga,
           restante |-> e, tiempo_ejecucion |-> 0, instrucciones |-> p.instrucciones]
  <2>1. a = [p EXCEPT !.estimacion_rafaga = e, !.restante = e, !.tiempo_ejecucion = 0]
    BY DEF RafagaNueva, e, w
  <2>. HIDE DEF a
  <2>. QED
    BY <1>0, <2>1
<1>5. /\ a \in PcbsDeCola /\ a.program_counter = p.program_counter
      /\ a.instrucciones = p.instrucciones /\ a.restante = e
      /\ a.estimacion_rafaga = e /\ a.tiempo_ejecucion = 0
      /\ a.id = p.id /\ a.socket = p.socket /\ a.tamanio_proceso = p.tamanio_proceso
      /\ a.tablas_paginas = p.tablas_paginas
  <2>. HIDE DEF a
  <2>. QED
    BY <1>0, <1>3, <1>4 DEF PcbsDeCola
<1>6. b = [id |-> p.id, socket |-> p.socket, tamanio_proceso |-> p.tamanio_proceso,
           program_counter |-> p.program_counter, estimacion_rafaga |-> p.estimacion_rafaga,
           tablas_paginas |-> p.tablas_paginas, inicio_rafaga |-> p.inicio_rafaga,
           restante |-> p.restante - t, tiempo_ejecucion |-> p.tiempo_ejecucion + t,
           instrucciones |-> p.instrucciones]
  <2>1. b = [p EXCEPT !.tiempo_ejecucion = p.tiempo_ejecucion + t, !.restante = p.restante - t]
    BY <1>1 DEF RafagaCortada, PcbsDeCola
  <2>. HIDE DEF b
  <2>. QED
    BY <1>0, <2>1
<1>. HIDE DEF a, b
<1>7. /\ b \in PcbsDeCola /\ b.program_counter = p.program_counter
      /\ b.instrucciones = p.instrucciones /\ b.restante = p.restante - t
      /\ b.estimacion_rafaga = p.estimacion_rafaga
      /\ b.tiempo_ejecucion = p.tiempo_ejecucion + t
      /\ b.id = p.id /\ b.socket = p.socket /\ b.tamanio_proceso = p.tamanio_proceso
      /\ b.tablas_paginas = p.tablas_paginas
  BY <1>0, <1>6 DEF PcbsDeCola
<1>8. a \in PcbsBien
  BY <1>3, <1>5 DEF PcbsBien, SinSalida, Exacto
<1>9. Exacto(b)
  BY <1>7 DEF Exacto, PcbsDeCola
<1>10. b \in PcbsBien
  BY <1>7, <1>9 DEF PcbsBien, SinSalida
<1>. QED
  BY <1>5, <1>7, <1>8, <1>10 DEF a, b

-----------------------------------------------------------------------------
(* What each action leaves alone.                                          *)

losHilos  == <<pcMain, conexion_consola, numero_proceso, hilos>>
lasColas  == <<new, elementos_en_cola_new, multiprogramacion, ready, blocked, tablas,
               archivos, finalizados, interrupciones>>
elTestigo == <<sem_planificacion, dispatch, devuelto, cpu, enviado>>
losPasos  == <<elementos_en_cola_ready, pasa, respuestas, apurado, perdido>>

\* atender_consola up to the id, which leaves the queues alone.
Lee(k) ==
  \/ LeerConexion(k) \/ RecibirOperacion(k) \/ RecibirTamanio(k) \/ RecibirSize(k)
  \/ PerderBuffer(k) \/ RecibirBuffer(k) \/ LeerSocket(k) \/ AsignarId(k) \/ LeerNumero(k)
  \/ GuardarNumero(k)

CpuEjecuta == CpuSigue \/ CpuDevuelve \/ CpuInterrumpe \/ CpuPierde

Planifica ==
  \/ Admitir \/ Despachar \/ Cpu \/ RecibirBloqueado \/ RecibirInterrumpido \/ TerminarIO
  \/ \E t \in PasanAReady : Tabla(t)

LEMMA MarcoConsolas ==
  ASSUME NEW c \in Consola,
         Conectar(c) \/ Enviar(c) \/ Caer(c) \/ RecibirRespuesta(c) \/ PerderConexion(c)
  PROVE  UNCHANGED <<losHilos, lasColas, losPasos, elTestigo, caido, cruzada, solapada>>
  BY DEF Conectar, Enviar, Caer, RecibirRespuesta, PerderConexion, SinTocarKernel, globales,
         colas, despacho, memoria, losHilos, lasColas, losPasos, elTestigo

LEMMA MarcoMain ==
  ASSUME Main
  PROVE  UNCHANGED <<lasColas, losPasos, elTestigo, consola, entrada, respuesta, cerrados,
                     numero_proceso, caido, caidas, solapada>>
  BY DEF Main, Aceptar, CrearHilo, conexiones, colas, despacho, memoria, historia, lasColas,
         losPasos, elTestigo

LEMMA MarcoLee ==
  ASSUME NEW k \in Consola, Lee(k)
  PROVE  UNCHANGED <<lasColas, losPasos, elTestigo, pcMain, conexion_consola, caidas,
                     cruzada, consola, pendientes, respuesta>>
<1>1. UNCHANGED <<lasColas, losPasos, elTestigo, pcMain, conexion_consola, caidas, cruzada>>
  <2>1. SinTocarCola
    BY DEF Lee, LeerConexion, RecibirOperacion, RecibirTamanio, RecibirSize, PerderBuffer,
           RecibirBuffer, LeerSocket, AsignarId, LeerNumero, GuardarNumero
  <2>. QED
    BY <2>1 DEF SinTocarCola, colas, despacho, memoria, lasColas, losPasos, elTestigo
<1>2. UNCHANGED <<consola, pendientes, respuesta>>
  BY DEF Lee, LeerConexion, RecibirOperacion, RecibirTamanio, RecibirSize, PerderBuffer,
         RecibirBuffer, LeerSocket, AsignarId, LeerNumero, GuardarNumero, Recibir, Cerrar,
         conexiones
<1>. QED
  BY <1>1, <1>2

LEMMA MarcoEncola ==
  ASSUME NEW k \in Consola, EncolarNuevo(k) \/ PostNew(k)
  PROVE  UNCHANGED <<losPasos, elTestigo, consola, entrada, respuesta, cerrados, pendientes,
                     pcMain, conexion_consola, numero_proceso, caido, multiprogramacion,
                     ready, blocked, tablas, archivos, caidas, cruzada, solapada,
                     finalizados, interrupciones>>
  BY DEF EncolarNuevo, PostNew, SinTocarDespacho, conexiones, globales, despacho, memoria,
         historia, elTestigo, losPasos

LEMMA MarcoPlanifica ==
  ASSUME Planifica
  PROVE  UNCHANGED <<losHilos, consola, entrada, respuesta, cerrados, pendientes, caidas,
                     caido, cruzada, solapada, finalizados>>
<1>1. CASE \/ Admitir \/ Despachar \/ RecibirBloqueado \/ RecibirInterrumpido \/ TerminarIO
           \/ \E t \in PasanAReady : Tabla(t)
  BY <1>1 DEF Admitir, Despachar, RecibirBloqueado, RecibirInterrumpido, TerminarIO, Tabla,
              PedirTabla, RecibirTabla, SinTocarConsolas, conexiones, globales, losHilos
<1>2. CASE Cpu
  <2>1. SoloCpu
    BY <1>2 DEF Cpu, CpuRecibir, CpuSigue, CpuDevuelve, CpuInterrumpe, CpuPierde,
                HayInterrupcion, CpuAbandonar
  <2>. QED
    BY <2>1 DEF SoloCpu, conexiones, globales, losHilos, historia
<1>. QED
  BY <1>1, <1>2 DEF Planifica

LEMMA MarcoFinalizado ==
  ASSUME RecibirFinalizado
  PROVE  UNCHANGED <<losHilos, consola, entrada, pendientes, caidas, cruzada, solapada, new,
                     elementos_en_cola_new, ready, blocked, tablas, dispatch, cpu,
                     interrupciones, losPasos>>
  BY DEF RecibirFinalizado, Devuelve, globales, losHilos, losPasos

LEMMA MarcoCpu ==
  ASSUME Cpu
  PROVE  UNCHANGED <<new, elementos_en_cola_new, multiprogramacion, ready, blocked,
                     elementos_en_cola_ready, pasa, sem_planificacion, enviado, tablas,
                     archivos, respuestas, finalizados, apurado>>
<1>1. SoloCpu
  BY DEF Cpu, CpuRecibir, CpuSigue, CpuDevuelve, CpuInterrumpe, CpuPierde, HayInterrupcion,
         CpuAbandonar
<1>. QED
  BY <1>1 DEF SoloCpu, colas, memoria

LEMMA LeeDonde ==
  ASSUME NEW k \in Consola, Lee(k)
  PROVE  hilos[k].pc \notin {"sin_crear", "encolar", "post", "fin"}
<1>1. CASE LeerConexion(k) \/ RecibirOperacion(k) \/ RecibirTamanio(k) \/ RecibirSize(k)
           \/ PerderBuffer(k)
  BY <1>1 DEF LeerConexion, RecibirOperacion, RecibirTamanio, RecibirSize, PerderBuffer, En
<1>2. CASE RecibirBuffer(k)
  <2>1. En(k, "buffer")
    BY <1>2 DEF RecibirBuffer
  <2>. QED
    BY <2>1 DEF En
<1>3. CASE LeerSocket(k) \/ AsignarId(k) \/ LeerNumero(k) \/ GuardarNumero(k)
  BY <1>3 DEF LeerSocket, AsignarId, LeerNumero, GuardarNumero, En
<1>. QED
  BY <1>1, <1>2, <1>3 DEF Lee

\* The steps there are.
LEMMA Pasos ==
  ASSUME [Next]_vars
  PROVE  \/ UNCHANGED vars
         \/ \E c \in Consola : \/ Conectar(c) \/ Enviar(c) \/ Caer(c)
                               \/ RecibirRespuesta(c) \/ PerderConexion(c)
         \/ Aceptar \/ CrearHilo
         \/ \E k \in Consola : Lee(k)
         \/ \E k \in Consola : EncolarNuevo(k)
         \/ \E k \in Consola : PostNew(k)
         \/ Admitir \/ Despachar \/ CpuRecibir \/ CpuEjecuta \/ CpuAbandonar
         \/ RecibirBloqueado \/ RecibirInterrumpido \/ TerminarIO
         \/ \E t \in PasanAReady : PedirTabla(t)
         \/ \E t \in PasanAReady : RecibirTabla(t)
         \/ RecibirFinalizado
  BY DEF Next, Consolas, Main, Kernel, AtenderConsola, Lee, Cpu, CpuEjecuta, Listener, Tabla

-----------------------------------------------------------------------------
(* Types: sockets.                                                         *)

LEMMA RedPaso ==
  ASSUME RedBien, HilosBien, [Next]_vars
  PROVE  RedBien'
<1>. USE DEF Lados
<1>1. CASE UNCHANGED vars
  BY <1>1 DEF RedBien, vars, conexiones, historia
<1>2. ASSUME NEW c \in Consola,
             Conectar(c) \/ Enviar(c) \/ Caer(c) \/ RecibirRespuesta(c) \/ PerderConexion(c)
      PROVE  RedBien'
  <2>0. UNCHANGED <<caido, cruzada, solapada>>
    BY <1>2, MarcoConsolas
  <2>1. CASE Conectar(c)
    <3>1. Append(pendientes, c) \in Seq(Consola)
      BY AppendProperties DEF RedBien
    <3>. QED
      BY <2>0, <2>1, <3>1 DEF RedBien, Conectar, Ir, SinTocarKernel
  <2>2. CASE Enviar(c)
    <3>1. entrada[c] \o Paquete(c) \in Seq(Nat)
      <4>1. entrada[c] \in Seq(Nat) /\ Paquete(c) \in Seq(Nat)
        BY PaqueteSon DEF RedBien
      <4>. QED
        BY <4>1, Pegar
    <3>2. entrada' = [entrada EXCEPT ![c] = entrada[c] \o Paquete(c)]
      BY <2>2 DEF Enviar, Paquete
    <3>3. entrada' \in [Consola -> Seq(Nat)]
      BY <3>1, <3>2 DEF RedBien
    <3>. QED
      BY <2>0, <2>2, <3>3 DEF RedBien, Enviar, Ir
  <2>3. CASE Caer(c)
    <3>1. cerrados' \in [Lados -> SUBSET Consola]
      BY <2>3 DEF RedBien, Caer, CerrarConsola
    <3>. QED
      BY <2>0, <2>3, <3>1 DEF RedBien, Caer, Ir
  <2>4. CASE RecibirRespuesta(c)
    <3>1. cerrados' \in [Lados -> SUBSET Consola]
      BY <2>4 DEF RedBien, RecibirRespuesta, CerrarConsola
    <3>2. respuesta' \in [Consola -> Seq({RESPUESTA_EXITO})]
      <4>1. respuesta[c] \in Seq({RESPUESTA_EXITO}) /\ respuesta[c] # <<>>
        BY <2>4 DEF RedBien, RecibirRespuesta
      <4>2. Tail(respuesta[c]) \in Seq({RESPUESTA_EXITO})
        BY <4>1, HeadTailProperties
      <4>. QED
        BY <2>4, <4>2 DEF RedBien, RecibirRespuesta
    <3>. QED
      BY <2>0, <2>4, <3>1, <3>2 DEF RedBien, RecibirRespuesta, Ir
  <2>5. CASE PerderConexion(c)
    <3>1. cerrados' \in [Lados -> SUBSET Consola]
      BY <2>5 DEF RedBien, PerderConexion, CerrarConsola
    <3>. QED
      BY <2>0, <2>5, <3>1 DEF RedBien, PerderConexion, Ir
  <2>. QED
    BY <1>2, <2>1, <2>2, <2>3, <2>4, <2>5
<1>3. CASE Aceptar
  <2>1. UNCHANGED <<consola, entrada, respuesta, cerrados, caido, caidas, solapada>>
    BY <1>3, MarcoMain DEF Main
  <2>2. Tail(pendientes) \in Seq(Consola)
    BY <1>3, HeadTailProperties DEF RedBien, Aceptar
  <2>3. pendientes' = Tail(pendientes) /\ cruzada' \in BOOLEAN
    BY <1>3 DEF Aceptar, RedBien
  <2>. QED
    BY <2>1, <2>2, <2>3 DEF RedBien
<1>4. CASE CrearHilo
  BY <1>4 DEF RedBien, CrearHilo, conexiones, historia
<1>5. ASSUME NEW k \in Consola, Lee(k)
      PROVE  RedBien'
  <2>1. UNCHANGED <<caidas, cruzada, consola, pendientes, respuesta>>
    BY <1>5, MarcoLee
  <2>. DEFINE s == hilos[k].socket
  <2>2. ASSUME NEW n \in Nat, Recibir(k, n)
        PROVE  entrada' \in [Consola -> Seq(Nat)] /\ cerrados' \in [Lados -> SUBSET Consola]
    <3>1. CASE s \in Consola
      <4>1. entrada[s] \in Seq(Nat) /\ n <= Len(entrada[s])
        <5>1. entrada[s] \in Seq(Nat) /\ Len(entrada[s]) \in Nat
          BY <3>1, LenProperties DEF RedBien
        <5>. QED
          BY <2>2, <5>1 DEF Recibir
      <4>2. SubSeq(entrada[s], n + 1, Len(entrada[s])) \in Seq(Nat)
        BY <4>1, SinPrimeros
      <4>. QED
        BY <2>2, <4>2 DEF Recibir, RedBien
    <3>2. CASE s \notin Consola
      BY <2>2, <3>2 DEF Recibir, RedBien
    <3>. QED
      BY <3>1, <3>2
  <2>3. hilos[k] \in Hilos /\ hilos[k].size \in Nat
    BY DEF HilosBien, Hilos
  <2>4. entrada' \in [Consola -> Seq(Nat)] /\ cerrados' \in [Lados -> SUBSET Consola]
    <3>1. CASE LeerConexion(k) \/ PerderBuffer(k) \/ LeerSocket(k) \/ AsignarId(k)
               \/ LeerNumero(k) \/ GuardarNumero(k)
      BY <3>1 DEF LeerConexion, PerderBuffer, LeerSocket, AsignarId, LeerNumero,
                  GuardarNumero, conexiones, RedBien
    <3>2. CASE Cerrar(k)
      <4>1. (En(k, "operacion") \/ En(k, "tamanio")) => s \in Consola
        BY DEF HilosBien, HiloBien, En
      <4>2. entrada' = entrada
        BY <3>2 DEF Cerrar
      <4>3. CASE s \in Consola
        BY <3>2, <4>2, <4>3 DEF Cerrar, RedBien
      <4>4. CASE s \notin Consola
        <5>2. RecibirOperacion(k) \/ RecibirTamanio(k) => s \in Consola
          BY <4>1 DEF RecibirOperacion, RecibirTamanio
        <5>3. LeerConexion(k) \/ PerderBuffer(k) \/ LeerSocket(k) \/ AsignarId(k)
              \/ LeerNumero(k) \/ GuardarNumero(k) \/ RecibirSize(k) \/ RecibirBuffer(k)
          BY <1>5, <4>4, <5>2 DEF Lee
        <5>4. cerrados' = cerrados
          BY <5>3 DEF LeerConexion, PerderBuffer, LeerSocket, AsignarId, LeerNumero,
                      GuardarNumero, RecibirSize, RecibirBuffer, Recibir, conexiones
        <5>. QED
          BY <4>2, <5>4 DEF RedBien
      <4>. QED
        BY <4>3, <4>4
    <3>3. CASE RecibirOperacion(k) \/ RecibirTamanio(k) \/ RecibirSize(k) \/ RecibirBuffer(k)
      <4>1. Recibir(k, 1) \/ Recibir(k, hilos[k].size) \/ Cerrar(k)
        BY <3>3 DEF RecibirOperacion, RecibirTamanio, RecibirSize, RecibirBuffer
      <4>. QED
        BY <2>2, <2>3, <3>2, <4>1
    <3>. QED
      BY <1>5, <3>1, <3>3 DEF Lee
  <2>5. caido' \in BOOLEAN /\ solapada' \in BOOLEAN
    <3>1. caido' \in {caido, TRUE}
      BY <1>5 DEF Lee, LeerConexion, RecibirOperacion, RecibirTamanio, RecibirSize,
                  PerderBuffer, RecibirBuffer, LeerSocket, AsignarId, LeerNumero,
                  GuardarNumero, Indefinido
    <3>2. solapada' \in BOOLEAN
      BY <1>5 DEF Lee, LeerConexion, RecibirOperacion, RecibirTamanio, RecibirSize,
                  PerderBuffer, RecibirBuffer, LeerSocket, AsignarId, LeerNumero,
                  GuardarNumero, RedBien
    <3>. QED
      BY <3>1, <3>2 DEF RedBien
  <2>. QED
    BY <2>1, <2>4, <2>5 DEF RedBien
<1>6. ASSUME NEW k \in Consola, EncolarNuevo(k) \/ PostNew(k)
      PROVE  RedBien'
  BY <1>6, MarcoEncola DEF RedBien
<1>7. CASE Planifica
  BY <1>7, MarcoPlanifica DEF RedBien
<1>8. CASE RecibirFinalizado
  <2>1. UNCHANGED <<consola, entrada, pendientes, caidas, cruzada, solapada>>
    BY <1>8, MarcoFinalizado
  <2>2. PICK s : Responder(s)
    BY <1>8 DEF RecibirFinalizado
  <2>3. caido' \in BOOLEAN
    BY <2>2 DEF Responder, RedBien
  <2>4. cerrados' \in [Lados -> SUBSET Consola]
    <3>1. CASE cerrados' = cerrados
      BY <3>1 DEF RedBien
    <3>2. CASE /\ s \in cerrados.consola
               /\ cerrados' = [cerrados EXCEPT !.reset = @ \union {s}]
      BY <3>2 DEF RedBien
    <3>. QED
      BY <2>2, <3>1, <3>2 DEF Responder
  <2>5. respuesta' \in [Consola -> Seq({RESPUESTA_EXITO})]
    <3>1. CASE respuesta' = respuesta
      BY <3>1 DEF RedBien
    <3>2. CASE respuesta' = [respuesta EXCEPT ![s] = Append(@, RESPUESTA_EXITO)]
      <4>1. CASE s \in Consola
        <5>1. respuesta[s] \in Seq({RESPUESTA_EXITO})
          BY <4>1 DEF RedBien
        <5>2. Append(respuesta[s], RESPUESTA_EXITO) \in Seq({RESPUESTA_EXITO})
          BY <5>1, AppendProperties
        <5>. QED
          BY <3>2, <4>1, <5>2 DEF RedBien
      <4>2. CASE s \notin Consola
        BY <3>2, <4>2 DEF RedBien
      <4>. QED
        BY <4>1, <4>2
    <3>. QED
      BY <2>2, <3>1, <3>2 DEF Responder
  <2>. QED
    BY <2>1, <2>3, <2>4, <2>5 DEF RedBien
<1>. QED
  BY <1>1, <1>2, <1>3, <1>4, <1>5, <1>6, <1>7, <1>8, Pasos
  DEF Planifica, Cpu, CpuEjecuta, Tabla

-----------------------------------------------------------------------------
(* Types: the threads.                                                     *)

LEMMA HiloNuevo ==
  /\ PcbVacio \in PcbsDeHilo
  /\ \A l \in Lugares : Hilo(l) \in Hilos /\ Hilo(l).pc = l
<1>1. PcbVacio \in PcbsDeHilo
  <2>1. <<>> \in Seq(Seq(Nat))
    OBVIOUS
  <2>. QED
    BY <2>1 DEF PcbVacio, PcbsDeHilo, SinTabla, Nadie
<1>2. ASSUME NEW l \in Lugares PROVE Hilo(l) \in Hilos /\ Hilo(l).pc = l
  BY <1>1 DEF Hilo, Hilos, Nadie
<1>. QED
  BY <1>1, <1>2

LEMMA HiloQueNoMira ==
  ASSUME NEW c \in Consola, NEW l \in {"conexion_1", "post", "fin"}
  PROVE  HiloBien(Hilo(l), c)
<1>1. Hilo(l) \in Hilos /\ Hilo(l).pc = l
  BY HiloNuevo DEF Lugares
<1>. QED
  BY <1>1 DEF HiloBien

\* A step of the thread k that goes on as h.
LEMMA HilosPasar ==
  ASSUME HilosBien, NEW k \in Consola, NEW h, HiloBien(h, conexion_consola), Pasar(k, h),
         UNCHANGED <<pcMain, conexion_consola>>, numero_proceso' \in Nat
  PROVE  HilosBien'
<1>1. h \in Hilos
  BY DEF HiloBien
<1>2. hilos' = [hilos EXCEPT ![k] = h] /\ hilos \in [Consola -> Hilos]
  BY DEF Pasar, HilosBien
<1>3. hilos' \in [Consola -> Hilos] /\ \A j \in Consola : hilos'[j] = IF j = k THEN h ELSE hilos[j]
  BY <1>1, <1>2
<1>4. \A j \in Consola : HiloBien(hilos'[j], conexion_consola)
  BY <1>3 DEF HilosBien
<1>. QED
  BY <1>3, <1>4 DEF HilosBien

\* ... and one that ends, or the end of the kernel.
LEMMA HilosIndefinido ==
  ASSUME HilosBien, NEW k \in Consola, NEW h, HiloBien(h, conexion_consola),
         Indefinido(k, h), UNCHANGED <<pcMain, conexion_consola>>, numero_proceso' \in Nat
  PROVE  HilosBien'
<1>1. CASE UNCHANGED hilos
  BY <1>1 DEF HilosBien
<1>2. CASE Pasar(k, h)
  BY <1>2, HilosPasar
<1>. QED
  BY <1>1, <1>2 DEF Indefinido

\* Another pc.
LEMMA HiloSigue ==
  ASSUME NEW h \in Hilos, NEW l \in Lugares
  PROVE  LET r == [h EXCEPT !.pc = l] IN
         /\ r \in Hilos /\ r.pc = l /\ r.socket = h.socket /\ r.size = h.size
         /\ r.aux = h.aux /\ r.proceso = h.proceso
  BY DEF Hilos

LEMMA LeeHilos ==
  ASSUME RedBien, HilosBien, NEW k \in Consola, Lee(k)
  PROVE  HilosBien'
<1>. DEFINE h == hilos[k]
            p == h.proceso
            c == conexion_consola
<1>1. /\ h \in Hilos /\ p \in PcbsDeHilo /\ h.pc \in Lugares /\ h.socket \in Consola \union {Nadie}
      /\ h.size \in Nat /\ h.aux \in Nat /\ HiloBien(h, c) /\ numero_proceso \in Nat
  BY DEF HilosBien, Hilos
<1>2. UNCHANGED <<pcMain, conexion_consola>>
  BY MarcoLee
<1>3. h.pc # "sin_crear"
  BY LeeDonde
<1>4. c \in Consola
  BY <1>1, <1>3 DEF HiloBien
<1>5. \A l \in {"conexion_1", "post", "fin"} : HiloBien(Hilo(l), c)
  BY <1>4, HiloQueNoMira
\* What a recv has read.
<1>6. ASSUME NEW n \in Nat, Recibir(k, n), h.socket \in Consola
      PROVE  /\ n >= 1 => Head(Recibido(k)) \in Nat
             /\ SubSeq(Recibido(k), 1, n) \in Seq(Nat)
  <2>. DEFINE q == Recibido(k)
  <2>1. q \in Seq(Nat) /\ n <= Len(q)
    <3>1. q \in Seq(Nat)
      BY <1>6 DEF Recibido, RedBien
    <3>2. Len(q) \in Nat /\ Len(q) >= n
      BY <1>6, <3>1, LenProperties DEF Recibir, Recibido
    <3>. QED
      BY <3>1, <3>2
  <2>. HIDE DEF q
  <2>2. SubSeq(q, 1, n) \in Seq(Nat)
    BY <2>1, SinPrimeros
  <2>3. ASSUME n >= 1 PROVE Head(q) \in Nat
    <3>1. Len(q) > 0
      <4>1. Len(q) \in Nat
        BY <2>1, LenProperties
      <4>. QED
        BY <2>1, <2>3, <4>1
    <3>. QED
      BY <2>1, <3>1, ConUnoMenos
  <2>. QED
    BY <2>2, <2>3 DEF q
<1>. HIDE DEF h, p, c
<1>7. CASE LeerConexion(k)
  <2>1. PICK l \in {"operacion", "tamanio"} :
          Pasar(k, [h EXCEPT !.pc = l, !.socket = c]) /\ numero_proceso' = numero_proceso
    <3>1. PICK o \in {<<"conexion_1", "operacion">>, <<"conexion_2", "tamanio">>} :
            Pasar(k, [hilos[k] EXCEPT !.pc = o[2], !.socket = conexion_consola])
      BY <1>7 DEF LeerConexion
    <3>2. o[2] \in {"operacion", "tamanio"}
      OBVIOUS
    <3>3. numero_proceso' = numero_proceso
      BY <1>7 DEF LeerConexion
    <3>. QED
      BY <3>1, <3>2, <3>3 DEF h, c
  <2>. DEFINE r == [h EXCEPT !.pc = l, !.socket = c]
  <2>2. r \in Hilos /\ r.pc = l /\ r.socket = c
    BY <1>1, <1>4 DEF Hilos, Lugares
  <2>. HIDE DEF r
  <2>3. HiloBien(r, c)
    BY <1>4, <2>2 DEF HiloBien
  <2>4. Pasar(k, r) /\ numero_proceso' \in Nat
    BY <1>1, <2>1 DEF r
  <2>. QED
    BY <1>2, <2>3, <2>4, HilosPasar DEF c
<1>8. CASE RecibirOperacion(k)
  <2>. DEFINE r == [h EXCEPT !.pc = "conexion_2"]
  <2>1. r \in Hilos /\ r.pc = "conexion_2"
    BY <1>1 DEF Hilos, Lugares
  <2>2. \/ Pasar(k, r) \/ Indefinido(k, Hilo("fin")) \/ Pasar(k, Hilo("fin"))
    BY <1>8 DEF RecibirOperacion, h
  <2>3. numero_proceso' \in Nat
    BY <1>1, <1>8 DEF RecibirOperacion
  <2>. HIDE DEF r
  <2>4. HiloBien(r, c) /\ HiloBien(Hilo("fin"), c)
    BY <1>4, <1>5, <2>1 DEF HiloBien
  <2>. QED
    BY <1>2, <2>2, <2>3, <2>4, HilosPasar, HilosIndefinido DEF c
<1>9. CASE RecibirTamanio(k)
  <2>1. h.pc = "tamanio" /\ h.socket \in Consola
    BY <1>1, <1>9 DEF RecibirTamanio, En, HiloBien, h
  <2>2. PICK t \in Nat \union {-1} :
          Pasar(k, [h EXCEPT !.pc = "size", !.proceso.tamanio_proceso = t])
    <3>1. CASE Recibir(k, 1) /\ Pasar(k, [h EXCEPT !.pc = "size",
                                            !.proceso.tamanio_proceso = Head(Recibido(k))])
      <4>1. Head(Recibido(k)) \in Nat
        BY <1>6, <2>1, <3>1
      <4>. QED
        BY <3>1, <4>1
    <3>2. CASE Pasar(k, [h EXCEPT !.pc = "size", !.proceso.tamanio_proceso = -1])
      BY <3>2
    <3>. QED
      BY <1>9, <3>1, <3>2 DEF RecibirTamanio, h
  <2>. DEFINE d == [p EXCEPT !.tamanio_proceso = t]
              r == [h EXCEPT !.pc = "size", !.proceso = d]
  <2>3. d \in PcbsDeHilo
    BY <1>1 DEF PcbsDeHilo
  <2>4. [h EXCEPT !.pc = "size", !.proceso.tamanio_proceso = t] = r
    BY <1>1 DEF Hilos, p
  <2>. HIDE DEF d
  <2>5. r \in Hilos /\ r.pc = "size" /\ r.socket = h.socket
    BY <1>1, <2>3 DEF Hilos, Lugares
  <2>. HIDE DEF r
  <2>6. HiloBien(r, c)
    BY <1>4, <2>1, <2>5 DEF HiloBien
  <2>7. numero_proceso' \in Nat
    BY <1>1, <1>9 DEF RecibirTamanio
  <2>. QED
    BY <1>2, <2>2, <2>4, <2>6, <2>7, HilosPasar DEF c
<1>10. CASE RecibirSize(k)
  <2>1. h.pc = "size" /\ h.socket \in Consola /\ Recibir(k, 1)
    BY <1>1, <1>10 DEF RecibirSize, En, HiloBien, h
  <2>. DEFINE t == Head(Recibido(k))
              r == [h EXCEPT !.pc = "buffer", !.size = t]
  <2>2. t \in Nat
    BY <1>6, <2>1
  <2>3. Pasar(k, r) /\ numero_proceso' \in Nat
    BY <1>1, <1>10 DEF RecibirSize, h
  <2>. HIDE DEF t
  <2>4. r \in Hilos /\ r.pc = "buffer" /\ r.socket = h.socket
    BY <1>1, <2>2 DEF Hilos, Lugares
  <2>. HIDE DEF r
  <2>5. HiloBien(r, c)
    BY <1>4, <2>1, <2>4 DEF HiloBien
  <2>. QED
    BY <1>2, <2>3, <2>5, HilosPasar DEF c
<1>11. CASE PerderBuffer(k)
  <2>. DEFINE r == [h EXCEPT !.pc = "conexion_3", !.size = 0]
  <2>1. r \in Hilos /\ r.pc = "conexion_3"
    BY <1>1 DEF Hilos, Lugares
  <2>2. Indefinido(k, r) /\ numero_proceso' \in Nat
    BY <1>1, <1>11 DEF PerderBuffer, h
  <2>. HIDE DEF r
  <2>3. HiloBien(r, c)
    BY <1>4, <2>1 DEF HiloBien
  <2>. QED
    BY <1>2, <2>2, <2>3, HilosIndefinido DEF c
<1>12. CASE RecibirBuffer(k)
  <2>1. h.pc = "buffer" /\ h.socket \in Consola /\ Recibir(k, h.size)
    BY <1>1, <1>12 DEF RecibirBuffer, En, HiloBien, h
  <2>. DEFINE u == SubSeq(Recibido(k), 1, h.size)
              r0 == [h EXCEPT !.pc = "conexion_3", !.size = 0]
  <2>2. u \in Seq(Nat)
    BY <1>1, <1>6, <2>1
  <2>3. ASSUME NEW y \in Parseos(Instrucciones(u)) PROVE y \in Seq(Seq(Nat))
    <3>. HIDE DEF u
    <3>1. Nat \in SUBSET Int
      OBVIOUS
    <3>2. Instrucciones(u) \in Seq(Seq(Nat))
      BY <2>2, <3>1, InstruccionesTipo
    <3>. QED
      BY <3>2, ParsearTipo
  <2>4. \/ \E y \in Parseos(Instrucciones(u)) : Pasar(k, [r0 EXCEPT !.proceso.instrucciones = y])
        \/ Indefinido(k, r0)
    BY <1>12 DEF RecibirBuffer, h
  <2>. HIDE DEF u
  <2>11. PICK x \in Seq(Seq(Nat)) : Pasar(k, [r0 EXCEPT !.proceso.instrucciones = x])
                                     \/ Indefinido(k, r0)
    <3>1. <<>> \in Seq(Seq(Nat))
      OBVIOUS
    <3>. QED
      BY <2>3, <2>4, <3>1
  <2>. DEFINE d == [p EXCEPT !.instrucciones = x]
              r == [r0 EXCEPT !.proceso = d]
  <2>5. d \in PcbsDeHilo
    BY <1>1 DEF PcbsDeHilo
  <2>6. r0 \in Hilos /\ r0.pc = "conexion_3" /\ r0.proceso = p
    BY <1>1 DEF Hilos, Lugares, p
  <2>. HIDE DEF d, r0
  <2>7. [r0 EXCEPT !.proceso.instrucciones = x] = r
    BY <2>6 DEF d, Hilos
  <2>8. r \in Hilos /\ r.pc = "conexion_3"
    BY <2>5, <2>6 DEF Hilos
  <2>. HIDE DEF r
  <2>9. HiloBien(r, c) /\ HiloBien(r0, c)
    BY <1>4, <2>6, <2>8 DEF HiloBien
  <2>10. numero_proceso' \in Nat
    BY <1>1, <1>12 DEF RecibirBuffer
  <2>. QED
    BY <1>2, <2>11, <2>7, <2>9, <2>10, HilosPasar, HilosIndefinido DEF c
<1>13. CASE LeerSocket(k)
  <2>. DEFINE d == [p EXCEPT !.socket = c]
              r == [h EXCEPT !.pc = "id", !.socket = Nadie, !.proceso = d]
  <2>1. d \in PcbsDeHilo /\ d.socket = c
    BY <1>1, <1>4 DEF PcbsDeHilo
  <2>2. [h EXCEPT !.pc = "id", !.socket = Nadie, !.proceso.socket = c] = r
    BY <1>1 DEF Hilos, p
  <2>. HIDE DEF d
  <2>3. r \in Hilos /\ r.pc = "id" /\ r.proceso = d
    BY <1>1, <2>1 DEF Hilos, Lugares
  <2>4. Pasar(k, r) /\ numero_proceso' \in Nat
    BY <1>1, <1>13, <2>2 DEF LeerSocket, h, c
  <2>. HIDE DEF r
  <2>5. HiloBien(r, c)
    BY <1>4, <2>1, <2>3 DEF HiloBien
  <2>. QED
    BY <1>2, <2>4, <2>5, HilosPasar DEF c
<1>14. CASE AsignarId(k)
  <2>. DEFINE d == [p EXCEPT !.id = numero_proceso]
              r == [h EXCEPT !.pc = "leer_numero", !.proceso = d]
  <2>1. h.pc = "id" /\ p.socket \in Consola
    BY <1>1, <1>14 DEF AsignarId, En, HiloBien, h, p
  <2>2. d \in PcbsDeHilo /\ d.socket = p.socket /\ d.id \in Nat
    BY <1>1 DEF PcbsDeHilo
  <2>3. [h EXCEPT !.pc = "leer_numero", !.proceso.id = numero_proceso] = r
    BY <1>1 DEF Hilos, p
  <2>. HIDE DEF d
  <2>4. r \in Hilos /\ r.pc = "leer_numero" /\ r.proceso = d
    BY <1>1, <2>2 DEF Hilos, Lugares
  <2>5. Pasar(k, r) /\ numero_proceso' \in Nat
    BY <1>1, <1>14, <2>3 DEF AsignarId, h
  <2>. HIDE DEF r
  <2>6. HiloBien(r, c)
    BY <1>4, <2>1, <2>2, <2>4 DEF HiloBien
  <2>. QED
    BY <1>2, <2>5, <2>6, HilosPasar DEF c
<1>15. CASE LeerNumero(k)
  <2>. DEFINE r == [h EXCEPT !.pc = "guardar_numero", !.aux = numero_proceso]
  <2>1. h.pc = "leer_numero" /\ p.socket \in Consola /\ p.id \in Nat
    BY <1>1, <1>15 DEF LeerNumero, En, HiloBien, h, p
  <2>2. r \in Hilos /\ r.pc = "guardar_numero" /\ r.proceso = p
    BY <1>1 DEF Hilos, Lugares, p
  <2>3. Pasar(k, r) /\ numero_proceso' \in Nat
    BY <1>1, <1>15 DEF LeerNumero, h
  <2>. HIDE DEF r
  <2>4. HiloBien(r, c)
    BY <1>4, <2>1, <2>2 DEF HiloBien
  <2>. QED
    BY <1>2, <2>3, <2>4, HilosPasar DEF c
<1>16. CASE GuardarNumero(k)
  <2>. DEFINE r == [h EXCEPT !.pc = "encolar", !.aux = 0]
  <2>1. h.pc = "guardar_numero" /\ p.socket \in Consola /\ p.id \in Nat
    BY <1>1, <1>16 DEF GuardarNumero, En, HiloBien, h, p
  <2>2. numero_proceso' \in Nat
    BY <1>1, <1>16 DEF GuardarNumero, h
  <2>3. CASE p.tamanio_proceso = -1
    <3>1. Indefinido(k, Hilo("fin")) /\ HiloBien(Hilo("fin"), c)
      BY <1>5, <1>16, <2>3 DEF GuardarNumero, p, h
    <3>. QED
      BY <1>2, <2>2, <3>1, HilosIndefinido DEF c
  <2>4. CASE p.tamanio_proceso # -1
    <3>1. p.tamanio_proceso \in Nat
      BY <1>1, <2>4 DEF PcbsDeHilo
    <3>2. r \in Hilos /\ r.pc = "encolar" /\ r.proceso = p
      BY <1>1 DEF Hilos, Lugares, p
    <3>3. Pasar(k, r)
      BY <1>16, <2>4 DEF GuardarNumero, p, h
    <3>. HIDE DEF r
    <3>4. HiloBien(r, c)
      BY <1>4, <2>1, <3>1, <3>2 DEF HiloBien
    <3>. QED
      BY <1>2, <2>2, <3>3, <3>4, HilosPasar DEF c
  <2>. QED
    BY <2>3, <2>4
<1>. QED
  BY <1>7, <1>8, <1>9, <1>10, <1>11, <1>12, <1>13, <1>14, <1>15, <1>16 DEF Lee

LEMMA HilosPaso ==
  ASSUME RedBien, HilosBien, [Next]_vars
  PROVE  HilosBien'
<1>1. CASE UNCHANGED losHilos
  BY <1>1 DEF HilosBien, losHilos
<1>2. CASE Aceptar
  <2>1. conexion_consola' \in Consola
    <3>1. pendientes \in Seq(Consola) /\ pendientes # <<>>
      BY <1>2 DEF Aceptar, RedBien
    <3>2. Head(pendientes) \in Consola
      BY <3>1, HeadTailProperties
    <3>. QED
      BY <1>2, <3>2 DEF Aceptar
  <2>2. hilos' = hilos /\ numero_proceso' = numero_proceso /\ pcMain' = "pthread_create"
    BY <1>2 DEF Aceptar
  <2>3. \A k \in Consola : HiloBien(hilos[k], conexion_consola')
    BY <2>1 DEF HilosBien, HiloBien
  <2>. QED
    BY <2>1, <2>2, <2>3 DEF HilosBien
<1>3. CASE CrearHilo
  <2>1. PICK k \in Consola : hilos' = [hilos EXCEPT ![k] = Hilo("conexion_1")]
    BY <1>3 DEF CrearHilo
  <2>2. /\ pcMain' = "accept" /\ conexion_consola \in Consola
        /\ conexion_consola' = conexion_consola /\ numero_proceso' = numero_proceso
    BY <1>3 DEF CrearHilo, HilosBien
  <2>. DEFINE h == Hilo("conexion_1")
  <2>3. HiloBien(h, conexion_consola) /\ h \in Hilos
    BY <2>2, HiloQueNoMira DEF HiloBien
  <2>. HIDE DEF h
  <2>4. hilos' \in [Consola -> Hilos] /\ \A j \in Consola : hilos'[j] = IF j = k THEN h ELSE hilos[j]
    BY <2>1, <2>3 DEF HilosBien, h
  <2>5. \A j \in Consola : HiloBien(hilos'[j], conexion_consola)
    BY <2>3, <2>4 DEF HilosBien
  <2>. QED
    BY <2>2, <2>4, <2>5 DEF HilosBien
<1>4. ASSUME NEW k \in Consola, Lee(k) PROVE HilosBien'
  BY <1>4, LeeHilos
<1>5. ASSUME NEW k \in Consola, EncolarNuevo(k) \/ PostNew(k)
      PROVE  HilosBien'
  <2>1. UNCHANGED <<pcMain, conexion_consola, numero_proceso>>
    BY <1>5, MarcoEncola
  <2>2. PICK l \in {"post", "fin"} : Pasar(k, Hilo(l))
    BY <1>5 DEF EncolarNuevo, PostNew
  <2>3. hilos[k].pc # "sin_crear"
    BY <1>5 DEF EncolarNuevo, PostNew, En
  <2>4. conexion_consola \in Consola
    BY <2>3 DEF HilosBien, HiloBien
  <2>5. HiloBien(Hilo(l), conexion_consola)
    BY <2>4, HiloQueNoMira
  <2>6. numero_proceso' \in Nat
    BY <2>1 DEF HilosBien
  <2>. QED
    BY <2>1, <2>2, <2>5, <2>6, HilosPasar
<1>6. ASSUME NEW c \in Consola,
             Conectar(c) \/ Enviar(c) \/ Caer(c) \/ RecibirRespuesta(c) \/ PerderConexion(c)
      PROVE  UNCHANGED losHilos
  BY <1>6, MarcoConsolas
<1>7. UNCHANGED vars \/ Planifica \/ RecibirFinalizado => UNCHANGED losHilos
  BY MarcoPlanifica, MarcoFinalizado DEF vars, globales, losHilos
<1>. QED
  BY <1>1, <1>2, <1>3, <1>4, <1>5, <1>6, <1>7, Pasos
  DEF Planifica, Cpu, CpuEjecuta, Tabla

-----------------------------------------------------------------------------
(* The threads that ask for a table number.                                *)

LEMMA ConUno ==
  ASSUME NEW f, f \in [PasanAReady -> Pasando], NEW t \in PasanAReady, NEW v \in Pasando,
         NEW g, g = [f EXCEPT ![t] = v]
  PROVE  /\ g \in [PasanAReady -> Pasando] /\ g[t] = v
         /\ \A u \in PasanAReady : u # t => g[u] = f[u]
  OBVIOUS

\* What pasar_a_ready does.
LEMMA PasarHace ==
  ASSUME PasaBien, ready \in Seq(PcbsBien), NEW t \in PasanAReady, NEW p \in PcbsBien,
         PasarAReady(t, p)
  PROVE  /\ pasa[t].pc = "fuera" /\ ready' = Append(ready, p) /\ ready' \in Seq(PcbsBien)
         /\ pasa' \in [PasanAReady -> Pasando] /\ elementos_en_cola_ready' \in Nat
         /\ \A u \in PasanAReady : (LugarBien(u))' /\ (u # t => pasa'[u] = pasa[u])
         /\ p.tablas_paginas # SinTabla => pasa' = pasa
         /\ p.tablas_paginas = SinTabla =>
              pasa'[t] = [pc |-> "pedir_tabla", id |-> p.id,
                          tamanio_proceso |-> p.tamanio_proceso, lugar |-> Len(ready) + 1]
<1>1. /\ pasa[t].pc = "fuera" /\ ready' = Append(ready, p)
      /\ pasa \in [PasanAReady -> Pasando] /\ elementos_en_cola_ready \in Nat
      /\ \A u \in PasanAReady : LugarBien(u)
  BY DEF PasarAReady, PasaBien
<1>2. /\ ready' \in Seq(PcbsBien) /\ Len(ready) \in Nat /\ Len(ready') = Len(ready) + 1
      /\ \A i \in 1..Len(ready) : i \in 1..Len(ready') /\ ready'[i] = ready[i]
      /\ ready'[Len(ready) + 1] = p /\ Len(ready) + 1 \in 1..Len(ready')
  <2>1. /\ Append(ready, p) \in Seq(PcbsBien) /\ Len(ready) \in Nat
        /\ Len(Append(ready, p)) = Len(ready) + 1
        /\ \A i \in 1..(Len(ready) + 1) :
             Append(ready, p)[i] = IF i <= Len(ready) THEN ready[i] ELSE p
    BY ConUnoMas
  <2>. QED
    BY <1>1, <2>1
<1>3. ASSUME NEW u \in PasanAReady, pasa'[u] = pasa[u] PROVE (LugarBien(u))'
  BY <1>1, <1>2, <1>3 DEF LugarBien
<1>4. CASE p.tablas_paginas # SinTabla
  <2>1. pasa' = pasa /\ elementos_en_cola_ready' = elementos_en_cola_ready + 1
    BY <1>4 DEF PasarAReady
  <2>. QED
    BY <1>1, <1>2, <1>3, <1>4, <2>1
<1>5. CASE p.tablas_paginas = SinTabla
  <2>. DEFINE v == [pc |-> "pedir_tabla", id |-> p.id,
                    tamanio_proceso |-> p.tamanio_proceso, lugar |-> Len(ready) + 1]
  <2>1. pasa' = [pasa EXCEPT ![t] = v] /\ elementos_en_cola_ready' = elementos_en_cola_ready
    BY <1>5 DEF PasarAReady
  <2>2. p.id \in Nat /\ p.tamanio_proceso \in Nat
    BY DEF PcbsBien, PcbsDeCola
  <2>3. v \in Pasando /\ v.pc # "fuera" /\ v.lugar = Len(ready) + 1 /\ v.id = p.id
        /\ v.tamanio_proceso = p.tamanio_proceso
    BY <1>2, <2>2 DEF Pasando
  <2>. HIDE DEF v
  <2>4. /\ pasa' \in [PasanAReady -> Pasando] /\ pasa'[t] = v
        /\ \A u \in PasanAReady : u # t => pasa'[u] = pasa[u]
    BY <1>1, <2>1, <2>3, ConUno
  <2>5. (LugarBien(t))'
    BY <1>2, <2>3, <2>4 DEF LugarBien
  <2>6. \A u \in PasanAReady : (LugarBien(u))' /\ (u # t => pasa'[u] = pasa[u])
    BY <1>3, <2>4, <2>5
  <2>. QED
    BY <1>1, <1>2, <1>5, <2>1, <2>4, <2>6 DEF v
<1>. QED
  BY <1>4, <1>5

\* The places in ready, when the k-th leaves.
LEMMA DespacharHace ==
  ASSUME PasaBien, ready \in Seq(PcbsBien), Despachar
  PROVE  \E k \in 1..Len(ready) :
           /\ ready[k] \in PcbsBien /\ ready' = RemoveAt(ready, k)
           /\ ready' \in Seq(PcbsBien)
           /\ enviado' = [ready[k] EXCEPT !.inicio_rafaga = Ahora]
           /\ apurado' = (apurado \/ ready[k].tablas_paginas = SinTabla)
           /\ pasa' \in [PasanAReady -> Pasando] /\ elementos_en_cola_ready' \in Nat
           /\ \A t \in PasanAReady :
                /\ (LugarBien(t))'
                /\ pasa'[t].pc = pasa[t].pc /\ pasa'[t].id = pasa[t].id
                /\ pasa'[t].tamanio_proceso = pasa[t].tamanio_proceso
                /\ pasa'[t].lugar = SinEl(k, pasa[t].lugar)
                /\ pasa'[t].lugar # 0 =>
                     /\ pasa[t].lugar # 0 /\ pasa[t].lugar # k
                     /\ pasa'[t].lugar \in 1..Len(ready')
                     /\ ready'[pasa'[t].lugar] = ready[pasa[t].lugar]
<1>1. PICK k \in DOMAIN ready :
        /\ ready' = RemoveAt(ready, k)
        /\ pasa' = [t \in PasanAReady |-> [pasa[t] EXCEPT !.lugar = SinEl(k, @)]]
        /\ enviado' = [ready[k] EXCEPT !.inicio_rafaga = Ahora]
        /\ apurado' = (apurado \/ ready[k].tablas_paginas = SinTabla)
  BY DEF Despachar
<1>2. k \in 1..Len(ready) /\ Len(ready) \in Nat
  BY LenProperties
<1>3. ready[k] \in PcbsBien
  BY <1>2, ElementOfSeq
<1>4. /\ ready' \in Seq(PcbsBien) /\ Len(ready') = Len(ready) - 1
      /\ \A i \in 1..(Len(ready) - 1) : ready'[i] = IF i < k THEN ready[i] ELSE ready[i + 1]
  BY <1>1, <1>2, QuitarUno
<1>5. elementos_en_cola_ready' \in Nat
  BY DEF Despachar, PasaBien
<1>6. ASSUME NEW t \in PasanAReady
      PROVE  /\ pasa'[t] \in Pasando
             /\ (LugarBien(t))'
             /\ pasa'[t].pc = pasa[t].pc /\ pasa'[t].id = pasa[t].id
             /\ pasa'[t].tamanio_proceso = pasa[t].tamanio_proceso
             /\ pasa'[t].lugar = SinEl(k, pasa[t].lugar)
             /\ pasa'[t].lugar # 0 =>
                     /\ pasa[t].lugar # 0 /\ pasa[t].lugar # k
                     /\ pasa'[t].lugar \in 1..Len(ready')
                     /\ ready'[pasa'[t].lugar] = ready[pasa[t].lugar]
  <2>. DEFINE v == pasa[t]
              l == SinEl(k, v.lugar)
  <2>1. v \in Pasando /\ LugarBien(t) /\ v.lugar \in Nat
    BY DEF PasaBien, Pasando
  <2>2. pasa'[t] = [v EXCEPT !.lugar = l]
    BY <1>1
  <2>3. l \in Nat /\ (v.lugar = 0 => l = 0)
    BY <1>2, <2>1 DEF SinEl
  <2>. HIDE DEF l
  <2>4. /\ pasa'[t] \in Pasando /\ pasa'[t].pc = v.pc /\ pasa'[t].id = v.id
        /\ pasa'[t].tamanio_proceso = v.tamanio_proceso /\ pasa'[t].lugar = l
    <3>. HIDE DEF v
    <3>. QED
      BY <2>1, <2>2, <2>3 DEF Pasando
  <2>5. ASSUME l # 0
        PROVE  /\ v.lugar # 0 /\ v.lugar # k /\ v.lugar \in 1..Len(ready)
               /\ l \in 1..(Len(ready) - 1) /\ ready'[l] = ready[v.lugar]
    <3>1. v.lugar # 0 /\ v.lugar # k
      BY <2>3, <2>5 DEF l, SinEl
    <3>2. v.lugar \in 1..Len(ready)
      BY <2>1, <3>1 DEF LugarBien
    <3>3. CASE v.lugar > k
      <4>1. l = v.lugar - 1 /\ l \in 1..(Len(ready) - 1) /\ ~(l < k) /\ l + 1 = v.lugar
        BY <1>2, <3>2, <3>3 DEF l, SinEl
      <4>. QED
        BY <1>4, <3>1, <3>2, <4>1
    <3>4. CASE ~(v.lugar > k)
      <4>1. l = v.lugar /\ l \in 1..(Len(ready) - 1) /\ l < k
        BY <1>2, <3>1, <3>2, <3>4 DEF l, SinEl
      <4>. QED
        BY <1>4, <3>1, <3>2, <4>1
    <3>. QED
      BY <3>3, <3>4
  <2>6. l # 0 => l \in 1..Len(ready')
    BY <1>4, <2>5
  <2>7. (LugarBien(t))'
    <3>1. pasa'[t].pc = "fuera" => pasa'[t] = Fuera
      <4>1. v.pc = "fuera" => v = Fuera
        BY <2>1 DEF LugarBien
      <4>2. v = Fuera => l = 0
        BY <2>3 DEF Fuera
      <4>3. v = Fuera => [v EXCEPT !.lugar = 0] = Fuera
        BY DEF Fuera
      <4>. HIDE DEF v
      <4>. QED
        BY <2>2, <2>4, <4>1, <4>2, <4>3
    <3>2. v.lugar # 0 => /\ ready[v.lugar].id = v.id
                         /\ ready[v.lugar].tamanio_proceso = v.tamanio_proceso
      BY <2>1 DEF LugarBien
    <3>. HIDE DEF v
    <3>. QED
      BY <2>4, <2>5, <2>6, <3>1, <3>2 DEF LugarBien
  <2>. QED
    BY <2>4, <2>5, <2>6, <2>7 DEF l
<1>7. pasa' \in [PasanAReady -> Pasando]
  BY <1>1, <1>6
<1>. QED
  BY <1>1, <1>2, <1>3, <1>4, <1>5, <1>6, <1>7

\* solicitar_numero_de_tabla ...
LEMMA PedirHace ==
  ASSUME PasaBien, NEW t \in PasanAReady, PedirTabla(t)
  PROVE  /\ pasa[t].pc = "pedir_tabla" /\ pasa[t] \in Pasando
         /\ pasa' \in [PasanAReady -> Pasando]
         /\ pasa'[t].pc = "recibir_tabla" /\ pasa'[t].id = pasa[t].id
         /\ pasa'[t].tamanio_proceso = pasa[t].tamanio_proceso
         /\ pasa'[t].lugar = pasa[t].lugar
         /\ \A u \in PasanAReady : u # t => pasa'[u] = pasa[u]
         /\ archivos' = [i \in DOMAIN archivos \union {pasa[t].id} |->
                           IF i = pasa[t].id THEN pasa[t].tamanio_proceso ELSE archivos[i]]
         /\ tablas' = tablas + 1 /\ respuestas' = Append(respuestas, tablas)
         /\ UNCHANGED <<new, elementos_en_cola_new, multiprogramacion, ready, blocked,
                        elementos_en_cola_ready, elTestigo, interrupciones, finalizados,
                        apurado, perdido>>
<1>1. pasa \in [PasanAReady -> Pasando] /\ pasa[t] \in Pasando /\ pasa[t].pc = "pedir_tabla"
  BY DEF PedirTabla, PasaBien
<1>. DEFINE v == [pasa[t] EXCEPT !.pc = "recibir_tabla"]
<1>2. pasa' = [pasa EXCEPT ![t] = v]
  BY DEF PedirTabla
<1>3. /\ v \in Pasando /\ v.pc = "recibir_tabla" /\ v.id = pasa[t].id
      /\ v.tamanio_proceso = pasa[t].tamanio_proceso /\ v.lugar = pasa[t].lugar
  BY <1>1 DEF Pasando
<1>. HIDE DEF v
<1>4. /\ pasa' \in [PasanAReady -> Pasando] /\ pasa'[t] = v
      /\ \A u \in PasanAReady : u # t => pasa'[u] = pasa[u]
  BY <1>1, <1>2, <1>3, ConUno
<1>5. archivos' = [i \in DOMAIN archivos \union {pasa[t].id} |->
                     IF i = pasa[t].id THEN pasa[t].tamanio_proceso ELSE archivos[i]]
  BY DEF PedirTabla, PedidoDeInicio, IdDeInicio, TamanioDeInicio
<1>6. /\ tablas' = tablas + 1 /\ respuestas' = Append(respuestas, tablas)
      /\ UNCHANGED <<new, elementos_en_cola_new, multiprogramacion, ready, blocked,
                     elementos_en_cola_ready, elTestigo, interrupciones, finalizados,
                     apurado, perdido>>
  BY DEF PedirTabla, SinTocarConsolas, despacho, elTestigo
<1>. QED
  BY <1>1, <1>3, <1>4, <1>5, <1>6

\* ... and recibir_entero.
LEMMA RecibirHace ==
  ASSUME PasaBien, ready \in Seq(PcbsBien), NEW t \in PasanAReady, RecibirTabla(t)
  PROVE  /\ pasa[t].pc = "recibir_tabla" /\ pasa[t] \in Pasando /\ LugarBien(t)
         /\ respuestas # <<>> /\ respuestas \in Seq(Nat) /\ respuestas[1] \in Nat
         /\ respuestas' = Tail(respuestas) /\ respuestas' \in Seq(Nat)
         /\ pasa' \in [PasanAReady -> Pasando] /\ pasa'[t] = Fuera
         /\ \A u \in PasanAReady : u # t => pasa'[u] = pasa[u]
         /\ elementos_en_cola_ready' \in Nat
         /\ sem_planificacion' = IF t = "disp" THEN sem_planificacion + 1 ELSE sem_planificacion
         /\ ready' \in Seq(PcbsBien) /\ Len(ready') = Len(ready) /\ Len(ready) \in Nat
         /\ \A i \in 1..Len(ready) :
              /\ i # pasa[t].lugar => ready'[i] = ready[i]
              /\ i = pasa[t].lugar =>
                   ready'[i] = [ready[i] EXCEPT !.tablas_paginas = respuestas[1]]
         /\ UNCHANGED <<new, elementos_en_cola_new, multiprogramacion, blocked, dispatch,
                        devuelto, cpu, enviado, interrupciones, tablas, archivos,
                        finalizados, apurado, perdido>>
<1>1. /\ pasa \in [PasanAReady -> Pasando] /\ pasa[t] \in Pasando /\ LugarBien(t)
      /\ pasa[t].pc = "recibir_tabla" /\ elementos_en_cola_ready' \in Nat
      /\ respuestas # <<>> /\ respuestas \in Seq(Nat)
      /\ respuestas' = Tail(respuestas)
      /\ ready' = IF pasa[t].lugar = 0 THEN ready
                  ELSE [ready EXCEPT ![pasa[t].lugar].tablas_paginas = Head(respuestas)]
      /\ pasa' = [pasa EXCEPT ![t] = Fuera]
      /\ sem_planificacion' = IF t = "disp" THEN sem_planificacion + 1 ELSE sem_planificacion
  BY DEF RecibirTabla, PasaBien
<1>2. Head(respuestas) \in Nat /\ Head(respuestas) = respuestas[1] /\ respuestas' \in Seq(Nat)
  <2>1. Len(respuestas) > 0
    BY <1>1, EmptySeq, LenProperties
  <2>2. /\ Head(respuestas) \in Nat /\ Head(respuestas) = respuestas[1]
        /\ Tail(respuestas) \in Seq(Nat)
    BY <1>1, <2>1, ConUnoMenos
  <2>. QED
    BY <1>1, <2>2
<1>3. Fuera \in Pasando
  BY DEF Fuera, Pasando
<1>4. /\ pasa' \in [PasanAReady -> Pasando] /\ pasa'[t] = Fuera
      /\ \A u \in PasanAReady : u # t => pasa'[u] = pasa[u]
  BY <1>1, <1>3, ConUno
<1>. DEFINE l == pasa[t].lugar
            n == respuestas[1]
<1>5. /\ ready' \in Seq(PcbsBien) /\ Len(ready') = Len(ready) /\ Len(ready) \in Nat
      /\ \A i \in 1..Len(ready) :
           /\ i # l => ready'[i] = ready[i]
           /\ i = l => ready'[i] = [ready[i] EXCEPT !.tablas_paginas = n]
  <2>0. Len(ready) \in Nat
    BY LenProperties
  <2>1. CASE l = 0
    BY <1>1, <2>0, <2>1
  <2>2. CASE l # 0
    <3>1. l \in 1..Len(ready)
      BY <1>1, <2>2 DEF LugarBien
    <3>2. ready[l] \in PcbsBien /\ n \in Nat
      BY <1>2, <3>1, ElementOfSeq
    <3>. DEFINE d == [ready[l] EXCEPT !.tablas_paginas = n]
    <3>3. d \in PcbsBien
      BY <3>2, PcbConTabla
    <3>4. ready' = [ready EXCEPT ![l] = d]
      BY <1>1, <1>2, <2>2
    <3>. HIDE DEF d, l
    <3>5. /\ [ready EXCEPT ![l] = d] \in Seq(PcbsBien)
          /\ Len([ready EXCEPT ![l] = d]) = Len(ready)
          /\ \A i \in 1..Len(ready) :
               [ready EXCEPT ![l] = d][i] = IF i = l THEN d ELSE ready[i]
      BY <3>1, <3>3, ExceptSeq
    <3>. QED
      BY <2>0, <3>4, <3>5 DEF d
  <2>. QED
    BY <2>1, <2>2
<1>6. UNCHANGED <<new, elementos_en_cola_new, multiprogramacion, blocked, dispatch,
                  devuelto, cpu, enviado, interrupciones, tablas, archivos, finalizados,
                  apurado, perdido>>
  BY DEF RecibirTabla, SinTocarConsolas
<1>. QED
  BY <1>1, <1>2, <1>4, <1>5, <1>6

-----------------------------------------------------------------------------
(* The dispatch socket.                                                    *)

\* What the listener takes from the socket is the PCB that was sent, advanced.
LlegaDevuelto(n, p) ==
  /\ n \in 1..Len(enviado.instrucciones) /\ n > enviado.program_counter
  /\ p = [enviado EXCEPT !.program_counter = n]
  /\ SinSalida(p, n - 1)
  /\ devuelto \in Seq(Int)
  /\ LET t == Op(p.instrucciones[n])
         s == Tail(devuelto)
     IN \/ /\ t = IO /\ devuelto[1] = BLOQUEO_IO
           /\ PcbBloqueadoEnKernel(s).proceso = p /\ Len(devuelto) = 1 + LargoPcb(s, 7)
        \/ /\ t = SALIR /\ devuelto[1] = EXIT
           /\ PcbEnKernel(s) = p /\ Len(devuelto) = 1 + LargoPcb(s, 6)
        \/ /\ t \notin {IO, SALIR} /\ devuelto[1] = INTERRUPCION
           /\ PcbEnKernel(s) = p /\ Len(devuelto) = 1 + LargoPcb(s, 6)

LEMMA DevueltoLlega ==
  ASSUME TestigoBien, devuelto # <<>>
  PROVE  enviado \in PcbsBien /\ \E n, p : LlegaDevuelto(n, p)
<1>1. enviado \in PcbsBien
  BY DEF TestigoBien, EnVuelo
<1>2. PICK n \in 1..Len(enviado.instrucciones) : Devuelto([enviado EXCEPT !.program_counter = n])
  BY DEF TestigoBien
<1>. DEFINE p == [enviado EXCEPT !.program_counter = n]
            t == p.instrucciones[n]
<1>3. /\ p \in PcbsDeCola /\ p \in Pcbs /\ p.program_counter = n
      /\ p.instrucciones = enviado.instrucciones
  BY <1>1, PcbDevuelto
<1>4. /\ n > enviado.program_counter /\ n <= Len(p.instrucciones) /\ SinSalida(p, n - 1)
      /\ \/ Op(t) = IO /\ Len(t) > 1 /\ devuelto = PcbBloqueadoDeLaCpu(t[2], p)
         \/ Op(t) = SALIR /\ devuelto = PcbDeLaCpu(OpCpu.FINALIZACION_PROCESO, p)
         \/ Op(t) \notin {IO, SALIR} /\ devuelto = PcbDeLaCpu(OpCpu.INTERRUPCION, p)
  BY <1>2, <1>3 DEF Devuelto
<1>5. t \in Seq(Nat)
  <2>1. p.instrucciones \in Seq(Seq(Nat)) /\ n \in 1..Len(p.instrucciones)
    BY <1>3 DEF PcbsDeCola
  <2>. QED
    BY <2>1, ElementOfSeq
<1>6. p = [enviado EXCEPT !.program_counter = n]
  OBVIOUS
<1>. HIDE DEF p, t
<1>. DEFINE s == Tail(devuelto)
<1>7. CASE Op(t) = IO /\ Len(t) > 1 /\ devuelto = PcbBloqueadoDeLaCpu(t[2], p)
  <2>1. t[2] \in Int
    <3>1. 2 \in 1..Len(t)
      <4>1. Len(t) \in Nat /\ Len(t) > 1
        BY <1>5, <1>7, LenProperties
      <4>. QED
        BY <4>1
    <3>2. t[2] \in Nat
      BY <1>5, <3>1, ElementOfSeq
    <3>. QED
      BY <3>2
  <2>2. LET m == PcbBloqueadoDeLaCpu(t[2], p) IN
        /\ m \in Seq(Int) /\ m # <<>> /\ m[1] = OpCpu.BLOQUEO_IO
        /\ Len(m) = 1 + LargoPcb(Tail(m), 7)
        /\ PcbBloqueadoEnKernel(Tail(m)) = [tiempo_de_bloqueo |-> t[2], proceso |-> p]
    BY <1>3, <2>1, BloqueadoVuelveAlKernel
  <2>3. /\ devuelto \in Seq(Int) /\ devuelto[1] = BLOQUEO_IO
        /\ PcbBloqueadoEnKernel(s).proceso = p /\ Len(devuelto) = 1 + LargoPcb(s, 7)
    BY <1>7, <2>2 DEF BLOQUEO_IO, OpCpu
  <2>4. LlegaDevuelto(n, p)
    BY <1>4, <1>6, <1>7, <2>3 DEF LlegaDevuelto, t
  <2>. QED
    BY <1>1, <2>4
<1>8. CASE Op(t) = SALIR /\ devuelto = PcbDeLaCpu(OpCpu.FINALIZACION_PROCESO, p)
  <2>1. LET m == PcbDeLaCpu(OpCpu.FINALIZACION_PROCESO, p) IN
        /\ m \in Seq(Int) /\ m # <<>> /\ m[1] = OpCpu.FINALIZACION_PROCESO
        /\ Len(m) = 1 + LargoPcb(Tail(m), 6) /\ PcbEnKernel(Tail(m)) = p
    <3>1. OpCpu.FINALIZACION_PROCESO \in Int
      BY DEF OpCpu
    <3>. QED
      BY <1>3, <3>1, PcbVuelveAlKernel
  <2>2. /\ devuelto \in Seq(Int) /\ devuelto[1] = EXIT
        /\ PcbEnKernel(s) = p /\ Len(devuelto) = 1 + LargoPcb(s, 6)
    BY <1>8, <2>1 DEF EXIT, OpCpu
  <2>3. LlegaDevuelto(n, p)
    BY <1>4, <1>6, <1>8, <2>2 DEF LlegaDevuelto, t
  <2>. QED
    BY <1>1, <2>3
<1>9. CASE Op(t) \notin {IO, SALIR} /\ devuelto = PcbDeLaCpu(OpCpu.INTERRUPCION, p)
  <2>1. LET m == PcbDeLaCpu(OpCpu.INTERRUPCION, p) IN
        /\ m \in Seq(Int) /\ m # <<>> /\ m[1] = OpCpu.INTERRUPCION
        /\ Len(m) = 1 + LargoPcb(Tail(m), 6) /\ PcbEnKernel(Tail(m)) = p
    <3>1. OpCpu.INTERRUPCION \in Int
      BY DEF OpCpu
    <3>. QED
      BY <1>3, <3>1, PcbVuelveAlKernel
  <2>2. /\ devuelto \in Seq(Int) /\ devuelto[1] = INTERRUPCION
        /\ PcbEnKernel(s) = p /\ Len(devuelto) = 1 + LargoPcb(s, 6)
    BY <1>9, <2>1 DEF INTERRUPCION, OpCpu
  <2>3. LlegaDevuelto(n, p)
    BY <1>4, <1>6, <1>9, <2>2 DEF LlegaDevuelto, t
  <2>. QED
    BY <1>1, <2>3
<1>. QED
  BY <1>4, <1>7, <1>8, <1>9

\* What the three handlers of the listener find in it.
LEMMA RecibidoEs ==
  ASSUME TestigoBien, devuelto # <<>>, NEW op \in {BLOQUEO_IO, INTERRUPCION, EXIT},
         devuelto[1] = op, NEW p,
         p = IF op = BLOQUEO_IO THEN PcbBloqueadoEnKernel(Tail(devuelto)).proceso
                                ELSE PcbEnKernel(Tail(devuelto))
  PROVE  /\ enviado \in PcbsBien /\ enviado.inicio_rafaga = Ahora /\ p \in PcbsDeCola
         /\ p.program_counter \in 1..Len(p.instrucciones)
         /\ p.instrucciones = enviado.instrucciones /\ p.inicio_rafaga = Ahora
         /\ p.id = enviado.id /\ p.socket = enviado.socket
         /\ p.tamanio_proceso = enviado.tamanio_proceso
         /\ p.tablas_paginas = enviado.tablas_paginas
         /\ Exacto(p) /\ SinSalida(p, p.program_counter - 1)
         /\ op = EXIT <=> Op(p.instrucciones[p.program_counter]) = SALIR
         /\ op # EXIT => SinSalida(p, p.program_counter)
<1>1. enviado \in PcbsBien /\ enviado.inicio_rafaga = Ahora
  BY DEF TestigoBien, EnVuelo
<1>2. PICK n, r : LlegaDevuelto(n, r)
  BY DevueltoLlega
<1>3. /\ n \in 1..Len(enviado.instrucciones) /\ r = [enviado EXCEPT !.program_counter = n]
      /\ SinSalida(r, n - 1)
  BY <1>2 DEF LlegaDevuelto
<1>4. /\ r \in PcbsDeCola /\ r.program_counter = n
      /\ r.instrucciones = enviado.instrucciones /\ r.inicio_rafaga = enviado.inicio_rafaga
      /\ r.id = enviado.id /\ r.socket = enviado.socket
      /\ r.tamanio_proceso = enviado.tamanio_proceso
      /\ r.tablas_paginas = enviado.tablas_paginas
      /\ Exacto(r)
  BY <1>1, <1>3, PcbDevuelto
<1>5. p = r /\ (op = EXIT <=> Op(r.instrucciones[n]) = SALIR)
  BY <1>2 DEF LlegaDevuelto, BLOQUEO_IO, EXIT, INTERRUPCION, IO, SALIR
<1>6. op # EXIT => SinSalida(r, n)
  <2>1. \A j \in 1..n : j \in 1..(n - 1) \/ j = n
    BY <1>3
  <2>. QED
    BY <1>3, <1>5, <2>1 DEF SinSalida
<1>. QED
  BY <1>1, <1>3, <1>4, <1>5, <1>6

LEMMA TestigoPaso ==
  ASSUME ColasBien, PasaBien, TestigoBien, [Next]_vars
  PROVE  TestigoBien'
<1>0. ready \in Seq(PcbsBien) /\ "disp" \in PasanAReady
  BY DEF ColasBien, PasanAReady
<1>1. CASE UNCHANGED elTestigo /\ (pasa'["disp"].pc # "fuera" => pasa["disp"].pc # "fuera")
  BY <1>1 DEF elTestigo, TestigoBien, Unico, EnVuelo, MismoPcb, Devuelto
<1>2. CASE Despachar
  <2>1. /\ sem_planificacion = 1 /\ dispatch = <<>> /\ cpu = <<>> /\ devuelto = <<>>
        /\ sem_planificacion' = 0 /\ cpu' = <<>> /\ devuelto' = <<>>
    BY <1>2 DEF Despachar, TestigoBien, Unico
  <2>6. pasa'["disp"].pc = "fuera"
    <3>1. pasa'["disp"].pc = pasa["disp"].pc
      BY <1>0, <1>2, DespacharHace
    <3>. QED
      BY <2>1, <3>1 DEF TestigoBien, Unico
  <2>2. PICK k \in DOMAIN ready : enviado' = [ready[k] EXCEPT !.inicio_rafaga = Ahora]
    BY <1>2 DEF Despachar
  <2>3. ready[k] \in PcbsBien
    <3>1. ready \in Seq(PcbsBien) /\ k \in 1..Len(ready)
      BY <2>2, LenProperties DEF ColasBien
    <3>. QED
      BY <3>1, ElementOfSeq
  <2>4. enviado' \in PcbsBien /\ enviado'.inicio_rafaga = Ahora
    BY <2>2, <2>3, PcbConInicio
  <2>5. dispatch' = PcbDelKernel(enviado')
    BY <1>2 DEF Despachar
  <2>. QED
    BY <2>1, <2>4, <2>5, <2>6 DEF TestigoBien, Unico, EnVuelo
<1>3. CASE CpuRecibir
  <2>1. /\ dispatch # <<>> /\ dispatch = PcbDelKernel(enviado) /\ enviado \in PcbsBien
        /\ enviado.inicio_rafaga = Ahora /\ devuelto = <<>> /\ sem_planificacion = 0
    BY <1>3 DEF CpuRecibir, TestigoBien, Unico, EnVuelo
  <2>2. enviado \in Pcbs /\ enviado \in PcbsDeCola
    BY <2>1, PcbsBienTipo
  <2>3. PcbEnCpu(Tail(dispatch)) = enviado
    BY <2>1, <2>2, PcbLlegaALaCpu
  <2>4. /\ cpu' = <<enviado>> /\ dispatch' = <<>> /\ devuelto' = <<>>
        /\ enviado' = enviado /\ sem_planificacion' = 0 /\ pasa["disp"].pc = "fuera"
        /\ pasa' = pasa
    BY <1>3, <2>1, <2>3 DEF CpuRecibir, SoloCpu, colas, TestigoBien, Unico
  <2>5. MismoPcb(enviado, enviado) /\ enviado.program_counter >= enviado.program_counter
    BY <2>2 DEF MismoPcb, PcbsDeCola
  <2>6. cpu' \in Seq(PcbsBien) /\ Len(cpu') = 1 /\ cpu'[1] = enviado
    BY <2>1, <2>4
  <2>7. MismoPcb(cpu[1], enviado)' /\ (cpu[1].program_counter >= enviado.program_counter)'
    BY <2>4, <2>5, <2>6 DEF MismoPcb
  <2>8. (EnVuelo => enviado \in PcbsBien /\ enviado.inicio_rafaga = Ahora)'
    BY <2>1, <2>4 DEF PcbsBien, SinSalida, Exacto, PcbsDeCola
  <2>9. (cpu \in Seq(PcbsBien))'
    BY <2>6
  <2>. QED
    BY <2>4, <2>6, <2>7, <2>8, <2>9 DEF TestigoBien, Unico
<1>4. CASE CpuSigue \/ CpuDevuelve \/ CpuInterrumpe
  <2>. DEFINE e == enviado
              p == cpu[1]
              n == p.program_counter + 1
              q == [p EXCEPT !.program_counter = @ + 1]
              t == p.instrucciones[n]
  <2>1. /\ cpu # <<>> /\ dispatch = <<>> /\ devuelto = <<>> /\ sem_planificacion = 0
        /\ e \in PcbsBien /\ e.inicio_rafaga = Ahora /\ cpu \in Seq(PcbsBien) /\ Len(cpu) = 1
        /\ MismoPcb(p, e) /\ p.program_counter >= e.program_counter
    BY <1>4 DEF CpuSigue, CpuDevuelve, CpuInterrumpe, HayInterrupcion, TestigoBien, Unico,
                EnVuelo
  <2>2. p \in PcbsBien
    BY <2>1, ElementOfSeq
  <2>3. /\ dispatch' = <<>> /\ sem_planificacion' = 0 /\ e' = e
        /\ pasa["disp"].pc = "fuera" /\ pasa' = pasa
    BY <1>4, <2>1 DEF CpuSigue, CpuDevuelve, CpuInterrumpe, HayInterrupcion, SoloCpu, colas,
                      TestigoBien, Unico
  <2>4. /\ p.program_counter < Len(p.instrucciones)
        /\ Op(t) = IO => Len(t) > 1
        /\ \/ Op(t) \notin {IO, SALIR} /\ cpu' = <<q>> /\ devuelto' = <<>>
           \/ Op(t) \notin {IO, SALIR} /\ cpu' = <<>>
              /\ devuelto' = PcbDeLaCpu(OpCpu.INTERRUPCION, q)
           \/ Op(t) = IO /\ cpu' = <<>> /\ devuelto' = PcbBloqueadoDeLaCpu(t[2], q)
           \/ Op(t) = SALIR /\ cpu' = <<>>
              /\ devuelto' = PcbDeLaCpu(OpCpu.FINALIZACION_PROCESO, q)
    BY <1>4, <2>1 DEF CpuSigue, CpuDevuelve, CpuInterrumpe, HayInterrupcion, Ejecutado,
                      PorEjecutar, Actual
  <2>5. /\ e \in PcbsDeCola /\ p \in PcbsDeCola /\ Len(p.instrucciones) \in Nat
        /\ SinSalida(p, p.program_counter)
    BY <2>1, <2>2, PcbsBienTipo DEF PcbsBien
  <2>6. /\ p.instrucciones = e.instrucciones /\ p = [e EXCEPT !.program_counter = p.program_counter]
        /\ p.program_counter \in Nat /\ e.program_counter \in Nat
    BY <2>1, <2>5 DEF MismoPcb, PcbsDeCola
  <2>7. q = [e EXCEPT !.program_counter = n]
    BY <2>5, <2>6 DEF PcbsDeCola
  <2>8. n \in 1..Len(e.instrucciones) /\ n > e.program_counter
    BY <2>1, <2>4, <2>5, <2>6
  <2>9. /\ q \in PcbsDeCola /\ q.program_counter = n /\ q.instrucciones = e.instrucciones
        /\ Exacto(q)
    <3>. HIDE DEF q, n, p
    <3>. QED
      BY <2>1, <2>7, <2>8, PcbDevuelto
  <2>10. SinSalida(q, n - 1) /\ (Op(t) # SALIR => SinSalida(q, n))
    <3>1. n - 1 = p.program_counter /\ \A j \in 1..n : j \in 1..p.program_counter \/ j = n
      BY <2>6
    <3>. HIDE DEF q, n
    <3>. QED
      BY <2>5, <2>6, <2>9, <3>1 DEF SinSalida
  <2>11. CASE Op(t) \notin {IO, SALIR} /\ cpu' = <<q>> /\ devuelto' = <<>>
    <3>1. q \in PcbsBien
      <4>. HIDE DEF q, n, t, e
      <4>. QED
        BY <2>8, <2>9, <2>10, <2>11 DEF PcbsBien
    <3>2. MismoPcb(q, e)
      <4>. HIDE DEF q, n
      <4>. QED
        BY <2>7, <2>9 DEF MismoPcb
    <3>3. q.program_counter >= e.program_counter
      <4>. HIDE DEF q, p
      <4>. QED
        BY <2>1, <2>6, <2>9
    <3>. HIDE DEF q, p, t, n
    <3>4. cpu' \in Seq(PcbsBien) /\ Len(cpu') = 1 /\ cpu'[1] = q
      BY <2>11, <3>1
    <3>. QED
      BY <2>1, <2>3, <2>11, <3>2, <3>3, <3>4 DEF TestigoBien, Unico, EnVuelo, MismoPcb
  <2>12. CASE cpu' = <<>>
    <3>1. /\ Op(t) = IO => Len(t) > 1
          /\ \/ Op(t) \notin {IO, SALIR} /\ devuelto' = PcbDeLaCpu(OpCpu.INTERRUPCION, q)
             \/ Op(t) = IO /\ devuelto' = PcbBloqueadoDeLaCpu(t[2], q)
             \/ Op(t) = SALIR /\ devuelto' = PcbDeLaCpu(OpCpu.FINALIZACION_PROCESO, q)
      <4>1. cpu' # <<q>>
        BY <2>12
      <4>. HIDE DEF q, t, n, p
      <4>. QED
        BY <2>4, <4>1
    <3>2. t = q.instrucciones[n]
      <4>. HIDE DEF q, n, p
      <4>. QED
        BY <2>6, <2>9
    <3>3. PICK N, Q : N = n /\ Q = q
      OBVIOUS
    <3>. DEFINE T == Q.instrucciones[N]
    <3>4. /\ Op(T) = IO => Len(T) > 1
          /\ \/ Op(T) \notin {IO, SALIR} /\ devuelto' = PcbDeLaCpu(OpCpu.INTERRUPCION, Q)
             \/ Op(T) = IO /\ devuelto' = PcbBloqueadoDeLaCpu(T[2], Q)
             \/ Op(T) = SALIR /\ devuelto' = PcbDeLaCpu(OpCpu.FINALIZACION_PROCESO, Q)
      <4>. HIDE DEF q, t, n, p
      <4>. QED
        BY <3>1, <3>2, <3>3
    <3>5. /\ N \in 1..Len(enviado.instrucciones) /\ N > enviado.program_counter
          /\ Q = [enviado EXCEPT !.program_counter = N] /\ Q.program_counter = N
          /\ Q.instrucciones = enviado.instrucciones /\ SinSalida(Q, N - 1)
      <4>. HIDE DEF q, n, p, t
      <4>. QED
        BY <2>7, <2>8, <2>9, <2>10, <3>3
    <3>. HIDE DEF q, n, p, t, e
    <3>6. N \in Nat /\ N <= Len(Q.instrucciones) /\ enviado' = enviado
      BY <2>3, <2>5, <3>5 DEF e
    <3>7. (Devuelto(Q))'
      <4>. HIDE DEF T
      <4>1. Q.program_counter > enviado'.program_counter
        BY <3>5, <3>6
      <4>2. T = Q.instrucciones[Q.program_counter]
        BY <3>5 DEF T
      <4>. QED
        BY <3>4, <3>5, <3>6, <4>1, <4>2 DEF Devuelto
    <3>8. (Devuelto([enviado EXCEPT !.program_counter = N]))'
      BY <3>5, <3>6, <3>7
    <3>9. (\E m \in 1..Len(enviado.instrucciones) :
             Devuelto([enviado EXCEPT !.program_counter = m]))'
      BY <3>5, <3>6, <3>8
    <3>10. enviado' \in PcbsBien /\ enviado'.inicio_rafaga = Ahora
      BY <2>1, <3>6 DEF e
    <3>. QED
      BY <2>3, <2>12, <3>9, <3>10 DEF TestigoBien, Unico, EnVuelo
  <2>. QED
    <3>. HIDE DEF q, n, p, t, e
    <3>. QED
      BY <2>4, <2>11, <2>12
<1>5. CASE CpuAbandonar \/ CpuPierde
  <2>1. /\ cpu # <<>> /\ dispatch = <<>> /\ devuelto = <<>> /\ sem_planificacion = 0
    BY <1>5 DEF CpuAbandonar, CpuPierde, HayInterrupcion, TestigoBien, Unico
  <2>2. /\ cpu' = <<>> /\ dispatch' = <<>> /\ devuelto' = <<>> /\ sem_planificacion' = 0
        /\ pasa["disp"].pc = "fuera" /\ pasa' = pasa
    BY <1>5, <2>1 DEF CpuAbandonar, CpuPierde, HayInterrupcion, SoloCpu, colas, TestigoBien,
                      Unico
  <2>. QED
    BY <2>2 DEF TestigoBien, Unico, EnVuelo
<1>6. CASE RecibirBloqueado \/ RecibirInterrumpido \/ RecibirFinalizado
  <2>1. PICK op : Devuelve(op)
    BY <1>6 DEF RecibirBloqueado, RecibirInterrumpido, RecibirFinalizado
  <2>2. /\ cpu = <<>> /\ dispatch = <<>> /\ sem_planificacion = 0
    BY <2>1 DEF Devuelve, TestigoBien, Unico
  <2>3. /\ cpu' = <<>> /\ dispatch' = <<>> /\ devuelto' = <<>>
    BY <2>1, <2>2 DEF Devuelve
  <2>4. \/ pasa'["disp"].pc = "fuera" /\ sem_planificacion' = 1
        \/ sem_planificacion' = 0
    <3>1. CASE RecibirBloqueado \/ RecibirFinalizado
      BY <2>1, <2>2, <3>1
         DEF RecibirBloqueado, RecibirFinalizado, Devuelve, PostPlanificacion
    <3>2. CASE RecibirInterrumpido
      BY <2>2, <3>2 DEF RecibirInterrumpido, PostPlanificacion
    <3>. QED
      BY <1>6, <3>1, <3>2
  <2>. QED
    BY <2>3, <2>4 DEF TestigoBien, Unico, EnVuelo
<1>7. ASSUME Admitir \/ TerminarIO
      PROVE  UNCHANGED elTestigo /\ pasa'["disp"] = pasa["disp"]
  <2>1. UNCHANGED elTestigo
    BY <1>7 DEF Admitir, TerminarIO, despacho, elTestigo
  <2>2. PICK t \in {"ltp", "io"} : \E p : PasarAReady(t, p)
    BY <1>7 DEF Admitir, TerminarIO
  <2>3. pasa \in [PasanAReady -> Pasando]
    BY DEF PasaBien
  <2>4. pasa'["disp"] = pasa["disp"]
    <3>1. CASE pasa' = pasa
      BY <3>1
    <3>2. CASE pasa' # pasa
      <4>1. PICK v : pasa' = [pasa EXCEPT ![t] = v]
        BY <2>2, <3>2 DEF PasarAReady
      <4>. QED
        BY <2>3, <4>1
    <3>. QED
      BY <3>1, <3>2
  <2>. QED
    BY <2>1, <2>4
<1>11. ASSUME NEW t \in PasanAReady, PedirTabla(t)
       PROVE  UNCHANGED elTestigo /\ (pasa'["disp"].pc # "fuera" => pasa["disp"].pc # "fuera")
  <2>1. /\ pasa[t].pc = "pedir_tabla"
        /\ \A u \in PasanAReady : u # t => pasa'[u] = pasa[u]
        /\ UNCHANGED elTestigo
    BY <1>11, PedirHace
  <2>. QED
    BY <1>0, <2>1
<1>12. ASSUME NEW t \in PasanAReady, RecibirTabla(t)
       PROVE  TestigoBien'
  <2>1. /\ pasa[t].pc = "recibir_tabla" /\ pasa'[t] = Fuera
        /\ \A u \in PasanAReady : u # t => pasa'[u] = pasa[u]
        /\ sem_planificacion' = IF t = "disp" THEN sem_planificacion + 1 ELSE sem_planificacion
        /\ UNCHANGED <<dispatch, devuelto, cpu, enviado>>
    BY <1>0, <1>12, RecibirHace
  <2>2. CASE t = "disp"
    <3>1. sem_planificacion = 0 /\ dispatch = <<>> /\ cpu = <<>> /\ devuelto = <<>>
      BY <2>1, <2>2 DEF TestigoBien, Unico
    <3>2. pasa'["disp"].pc = "fuera"
      BY <2>1, <2>2 DEF Fuera
    <3>. QED
      BY <2>1, <2>2, <3>1, <3>2 DEF TestigoBien, Unico, EnVuelo
  <2>3. CASE t # "disp"
    BY <1>0, <1>1, <2>1, <2>3 DEF elTestigo
  <2>. QED
    BY <2>2, <2>3
<1>8. Aceptar \/ CrearHilo \/ UNCHANGED vars => UNCHANGED <<elTestigo, pasa>>
  BY MarcoMain DEF Main, losPasos, vars, despacho, colas, elTestigo
<1>9. ASSUME NEW c \in Consola,
             Conectar(c) \/ Enviar(c) \/ Caer(c) \/ RecibirRespuesta(c) \/ PerderConexion(c)
      PROVE  UNCHANGED <<elTestigo, pasa>>
  BY <1>9, MarcoConsolas DEF losPasos
<1>10. ASSUME NEW k \in Consola, Lee(k) \/ EncolarNuevo(k) \/ PostNew(k)
       PROVE  UNCHANGED <<elTestigo, pasa>>
  BY <1>10, MarcoLee, MarcoEncola DEF losPasos
<1>. QED
  BY <1>1, <1>2, <1>3, <1>4, <1>5, <1>6, <1>7, <1>8, <1>9, <1>10, <1>11, <1>12, Pasos
  DEF CpuEjecuta

-----------------------------------------------------------------------------
(* The queues.                                                             *)

LEMMA PorPostearFinito ==
  IsFiniteSet(PorPostear) /\ Cardinality(PorPostear) \in Nat /\ IsFiniteSet(Consola)
<1>1. IsFiniteSet(Consola)
  BY ConsolaTipo, FS_Interval
<1>2. PorPostear \subseteq Consola
  BY DEF PorPostear
<1>. QED
  BY <1>1, <1>2, FS_Subset, FS_CardinalityType

\* Whoever is let in is there: the semaphore never counts more than are queued.
LEMMA HayNuevo ==
  ASSUME ColasBien, CuentaBien, elementos_en_cola_new > 0
  PROVE  Len(new) \in Nat /\ Len(new) > 0
<1>1. Cardinality(PorPostear) \in Nat
  BY PorPostearFinito
<1>2. elementos_en_cola_new \in Nat /\ Len(new) \in Nat
  BY LenProperties DEF ColasBien
<1>. QED
  BY <1>1, <1>2 DEF CuentaBien

\* What Admitir does, in the terms of the first of new.
LEMMA AdmitirHace ==
  ASSUME ColasBien, CuentaBien, Admitir
  PROVE  /\ Len(new) > 0 /\ new[1] \in PcbsBien /\ PasarAReady("ltp", new[1])
         /\ new' = Tail(new) /\ ready' = Append(ready, new[1])
         /\ UNCHANGED <<blocked, tablas, archivos, respuestas, apurado, elTestigo>>
<1>1. new \in Seq(PcbsBien) /\ Len(new) > 0
  BY HayNuevo DEF Admitir, ColasBien
<1>2. Head(new) = new[1] /\ Head(new) \in PcbsBien
  BY <1>1, ConUnoMenos
<1>3. PasarAReady("ltp", new[1]) /\ new' = Tail(new)
  BY <1>2 DEF Admitir
<1>4. UNCHANGED <<blocked, tablas, archivos, respuestas, apurado, elTestigo>>
  BY DEF Admitir, memoria, despacho, elTestigo
<1>. QED
  BY <1>1, <1>2, <1>3, <1>4 DEF PasarAReady

\* What the listener does with a PCB that comes back.
LEMMA BloqueadoHace ==
  ASSUME TestigoBien, RecibirBloqueado
  PROVE  \E r \in PcbsBien :
           /\ blocked' = Append(blocked, r) /\ EnVuelo
           /\ r.id = enviado.id /\ r.socket = enviado.socket
           /\ r.tamanio_proceso = enviado.tamanio_proceso
           /\ r.instrucciones = enviado.instrucciones
           /\ r.tablas_paginas = enviado.tablas_paginas
<1>1. devuelto # <<>> /\ devuelto[1] = BLOQUEO_IO
  BY DEF RecibirBloqueado, Devuelve
<1>. DEFINE p == PcbBloqueadoEnKernel(Tail(devuelto)).proceso
<1>2. PICK t \in Duraciones : blocked' = Append(blocked, RafagaNueva(p, t))
  BY DEF RecibirBloqueado
<1>3. t \in Nat /\ BLOQUEO_IO # EXIT
  BY ConstantesOK DEF BLOQUEO_IO, EXIT
<1>. HIDE DEF p
<1>4. /\ p \in PcbsDeCola /\ p.program_counter \in 1..Len(p.instrucciones)
      /\ p.instrucciones = enviado.instrucciones /\ p.inicio_rafaga = Ahora
      /\ p.id = enviado.id /\ p.socket = enviado.socket
      /\ p.tamanio_proceso = enviado.tamanio_proceso
      /\ p.tablas_paginas = enviado.tablas_paginas
      /\ Exacto(p) /\ SinSalida(p, p.program_counter)
  BY <1>1, <1>3, RecibidoEs DEF p
<1>5. /\ RafagaNueva(p, t) \in PcbsBien
      /\ \A r \in {RafagaNueva(p, t), RafagaCortada(p, t)} :
           /\ r.id = p.id /\ r.socket = p.socket /\ r.tamanio_proceso = p.tamanio_proceso
           /\ r.instrucciones = p.instrucciones /\ r.tablas_paginas = p.tablas_paginas
  <2>1. p.program_counter <= Len(p.instrucciones)
    BY <1>4
  <2>. QED
    BY <1>3, <1>4, <2>1, RafagasBien
<1>6. EnVuelo
  BY <1>1 DEF EnVuelo
<1>. QED
  BY <1>2, <1>4, <1>5, <1>6

LEMMA InterrumpidoHace ==
  ASSUME TestigoBien, RecibirInterrumpido
  PROVE  \E r \in PcbsBien :
           /\ PasarAReady("disp", r) /\ ready' = Append(ready, r) /\ EnVuelo
           /\ r.id = enviado.id /\ r.socket = enviado.socket
           /\ r.tamanio_proceso = enviado.tamanio_proceso
           /\ r.instrucciones = enviado.instrucciones
           /\ r.tablas_paginas = enviado.tablas_paginas
<1>1. devuelto # <<>> /\ devuelto[1] = INTERRUPCION
  BY DEF RecibirInterrumpido, Devuelve
<1>. DEFINE p == PcbEnKernel(Tail(devuelto))
<1>2. PICK t \in Duraciones : PasarAReady("disp", RafagaCortada(p, t))
  BY DEF RecibirInterrumpido
<1>7. ready' = Append(ready, RafagaCortada(p, t))
  BY <1>2 DEF PasarAReady
<1>3. t \in Nat /\ INTERRUPCION # EXIT /\ INTERRUPCION # BLOQUEO_IO
  BY ConstantesOK DEF BLOQUEO_IO, EXIT, INTERRUPCION
<1>. HIDE DEF p
<1>4. /\ p \in PcbsDeCola /\ p.program_counter \in 1..Len(p.instrucciones)
      /\ p.instrucciones = enviado.instrucciones /\ p.inicio_rafaga = Ahora
      /\ p.id = enviado.id /\ p.socket = enviado.socket
      /\ p.tamanio_proceso = enviado.tamanio_proceso
      /\ p.tablas_paginas = enviado.tablas_paginas
      /\ Exacto(p) /\ SinSalida(p, p.program_counter)
  BY <1>1, <1>3, RecibidoEs DEF p
<1>5. /\ RafagaCortada(p, t) \in PcbsBien
      /\ \A r \in {RafagaNueva(p, t), RafagaCortada(p, t)} :
           /\ r.id = p.id /\ r.socket = p.socket /\ r.tamanio_proceso = p.tamanio_proceso
           /\ r.instrucciones = p.instrucciones /\ r.tablas_paginas = p.tablas_paginas
  <2>1. p.program_counter <= Len(p.instrucciones)
    BY <1>4
  <2>. QED
    BY <1>3, <1>4, <2>1, RafagasBien
<1>6. EnVuelo
  BY <1>1 DEF EnVuelo
<1>. QED
  BY <1>2, <1>4, <1>5, <1>6, <1>7

LEMMA FinalizadoHace ==
  ASSUME TestigoBien, RecibirFinalizado
  PROVE  \E p \in PcbsDeCola :
           /\ finalizados' = finalizados \union {Ejecucion(p)} /\ EnVuelo /\ Responder(p.socket)
           /\ archivos' = [i \in DOMAIN archivos \ {p.id} |-> archivos[i]]
           /\ p.program_counter \in 1..Len(p.instrucciones)
           /\ p.id = enviado.id /\ p.socket = enviado.socket
           /\ p.tamanio_proceso = enviado.tamanio_proceso
           /\ p.instrucciones = enviado.instrucciones
           /\ SinSalida(p, p.program_counter - 1)
           /\ Op(p.instrucciones[p.program_counter]) = SALIR
<1>1. devuelto # <<>> /\ devuelto[1] = EXIT
  BY DEF RecibirFinalizado, Devuelve
<1>2. EXIT # BLOQUEO_IO
  BY DEF BLOQUEO_IO, EXIT
<1>. DEFINE p == PcbEnKernel(Tail(devuelto))
<1>3. /\ finalizados' = finalizados \union {Ejecucion(p)} /\ Responder(p.socket)
      /\ archivos' = [i \in DOMAIN archivos \ {p.id} |-> archivos[i]]
  BY DEF RecibirFinalizado, PedidoDeFinalizacion, IdDeFinalizacion
<1>. HIDE DEF p
<1>4. /\ p \in PcbsDeCola /\ p.program_counter \in 1..Len(p.instrucciones)
      /\ p.instrucciones = enviado.instrucciones
      /\ p.id = enviado.id /\ p.socket = enviado.socket
      /\ p.tamanio_proceso = enviado.tamanio_proceso
      /\ SinSalida(p, p.program_counter - 1)
      /\ Op(p.instrucciones[p.program_counter]) = SALIR
  BY <1>1, <1>2, RecibidoEs DEF p
<1>5. EnVuelo
  BY <1>1 DEF EnVuelo
<1>. QED
  BY <1>3, <1>4, <1>5

LEMMA ColasPaso ==
  ASSUME HilosBien, ColasBien, PasaBien, TestigoBien, CuentaBien, [Next]_vars
  PROVE  ColasBien'
<1>1. CASE UNCHANGED lasColas
  BY <1>1 DEF ColasBien, lasColas
<1>2. ASSUME NEW k \in Consola, EncolarNuevo(k) PROVE ColasBien'
  <2>. DEFINE p == hilos[k].proceso
  <2>1. /\ UNCHANGED <<multiprogramacion, ready, blocked, tablas, archivos, finalizados,
                       interrupciones>>
        /\ elementos_en_cola_new' = elementos_en_cola_new /\ new' = Append(new, p)
    BY <1>2, MarcoEncola DEF EncolarNuevo
  <2>2. p \in PcbsBien
    <3>1. /\ p \in PcbsDeHilo /\ p.socket \in Consola /\ p.id \in Nat
          /\ p.tamanio_proceso \in Nat
      BY <1>2 DEF EncolarNuevo, En, HilosBien, HiloBien, Hilos
    <3>. QED
      BY <3>1, PcbNuevo
  <2>3. Append(new, p) \in Seq(PcbsBien)
    <3>. HIDE DEF p
    <3>. QED
      BY <2>2, ConUnoMas DEF ColasBien
  <2>. QED
    BY <2>1, <2>3 DEF ColasBien
<1>3. ASSUME NEW k \in Consola, PostNew(k) PROVE ColasBien'
  <2>1. /\ UNCHANGED <<new, multiprogramacion, ready, blocked, tablas, archivos,
                       finalizados, interrupciones>>
        /\ elementos_en_cola_new' = elementos_en_cola_new + 1
    BY <1>3, MarcoEncola DEF PostNew
  <2>. QED
    BY <2>1 DEF ColasBien
<1>4. CASE Admitir
  <2>1. /\ Len(new) > 0 /\ new[1] \in PcbsBien
        /\ new' = Tail(new) /\ ready' = Append(ready, new[1])
        /\ UNCHANGED <<blocked, tablas, archivos>>
    BY <1>4, AdmitirHace
  <2>2. new' \in Seq(PcbsBien)
    BY <2>1, ConUnoMenos DEF ColasBien
  <2>3. ready' \in Seq(PcbsBien)
    BY <2>1, ConUnoMas DEF ColasBien
  <2>4. elementos_en_cola_new' \in Nat /\ multiprogramacion' \in Nat
    BY <1>4, <2>1 DEF Admitir, ColasBien
  <2>5. UNCHANGED <<finalizados, interrupciones>>
    BY <1>4 DEF Admitir, despacho
  <2>. QED
    BY <2>1, <2>2, <2>3, <2>4, <2>5 DEF ColasBien
<1>5. CASE Despachar
  <2>1. PICK k \in DOMAIN ready : ready' = RemoveAt(ready, k)
    BY <1>5 DEF Despachar
  <2>2. ready' \in Seq(PcbsBien)
    <3>1. ready \in Seq(PcbsBien) /\ k \in 1..Len(ready)
      BY <2>1, LenProperties DEF ColasBien
    <3>. QED
      BY <2>1, <3>1, QuitarUno
  <2>3. UNCHANGED <<new, elementos_en_cola_new, multiprogramacion, blocked, tablas, archivos,
                    finalizados, interrupciones>>
    BY <1>5 DEF Despachar, memoria
  <2>. QED
    BY <2>2, <2>3 DEF ColasBien
<1>6. CASE Cpu
  <2>1. UNCHANGED <<new, elementos_en_cola_new, multiprogramacion, ready, blocked, tablas,
                    archivos, finalizados>>
    BY <1>6, MarcoCpu
  <2>2. interrupciones' \in Nat
    BY <1>6 DEF Cpu, CpuRecibir, CpuSigue, CpuDevuelve, CpuInterrumpe, CpuPierde,
                HayInterrupcion, CpuAbandonar, ColasBien
  <2>. QED
    BY <2>1, <2>2 DEF ColasBien
<1>7. CASE RecibirBloqueado
  <2>1. PICK r \in PcbsBien : blocked' = Append(blocked, r)
    BY <1>7, BloqueadoHace
  <2>2. blocked' \in Seq(PcbsBien)
    BY <2>1, ConUnoMas DEF ColasBien
  <2>3. UNCHANGED <<new, elementos_en_cola_new, multiprogramacion, ready, tablas, archivos,
                    finalizados, interrupciones>>
    BY <1>7 DEF RecibirBloqueado, Devuelve, memoria
  <2>. QED
    BY <2>2, <2>3 DEF ColasBien
<1>8. CASE RecibirInterrumpido
  <2>1. PICK r \in PcbsBien : ready' = Append(ready, r)
    BY <1>8, InterrumpidoHace
  <2>2. ready' \in Seq(PcbsBien)
    BY <2>1, ConUnoMas DEF ColasBien
  <2>3. UNCHANGED <<new, elementos_en_cola_new, multiprogramacion, blocked, tablas, archivos,
                    finalizados, interrupciones>>
    BY <1>8 DEF RecibirInterrumpido, Devuelve, memoria
  <2>. QED
    BY <2>2, <2>3 DEF ColasBien
<1>9. CASE TerminarIO
  <2>1. blocked \in Seq(PcbsBien) /\ Len(blocked) > 0
    <3>1. blocked \in Seq(PcbsBien) /\ blocked # <<>> /\ Len(blocked) \in Nat
      BY <1>9, LenProperties DEF TerminarIO, ColasBien
    <3>. QED
      BY <3>1, EmptySeq
  <2>2. Head(blocked) \in PcbsBien /\ Tail(blocked) \in Seq(PcbsBien)
    BY <2>1, ConUnoMenos
  <2>3. ready' = Append(ready, Head(blocked)) /\ blocked' = Tail(blocked)
    BY <1>9 DEF TerminarIO, PasarAReady
  <2>4. ready' \in Seq(PcbsBien) /\ blocked' \in Seq(PcbsBien)
    BY <2>2, <2>3, ConUnoMas DEF ColasBien
  <2>5. UNCHANGED <<new, elementos_en_cola_new, multiprogramacion, tablas, archivos,
                    finalizados, interrupciones>>
    BY <1>9 DEF TerminarIO, memoria, despacho
  <2>. QED
    BY <2>4, <2>5 DEF ColasBien
<1>10. CASE RecibirFinalizado
  <2>1. PICK p \in PcbsDeCola :
          /\ finalizados' = finalizados \union {Ejecucion(p)}
          /\ archivos' = [i \in DOMAIN archivos \ {p.id} |-> archivos[i]]
          /\ p.program_counter \in 1..Len(p.instrucciones)
    BY <1>10, FinalizadoHace
  <2>2. UNCHANGED <<new, elementos_en_cola_new, ready, blocked, tablas, interrupciones>>
    BY <1>10, MarcoFinalizado
  <2>3. multiprogramacion' \in Nat
    BY <1>10 DEF RecibirFinalizado, ColasBien
  <2>4. DOMAIN archivos' \subseteq Nat /\ \A i \in DOMAIN archivos' : archivos'[i] \in Nat
    BY <2>1 DEF ColasBien
  <2>5. /\ Ejecucion(p) \in Ejecuciones /\ Ejecucion(p).program_counter = p.program_counter
        /\ Ejecucion(p).instrucciones = p.instrucciones
    BY DEF Ejecucion, Ejecuciones, PcbsDeCola
  <2>6. /\ finalizados' \subseteq Ejecuciones
        /\ \A f \in finalizados' : f.program_counter \in 1..Len(f.instrucciones)
    BY <2>1, <2>5 DEF ColasBien
  <2>. QED
    BY <2>2, <2>3, <2>4, <2>6 DEF ColasBien
<1>15. ASSUME NEW t \in PasanAReady, PedirTabla(t) PROVE ColasBien'
  <2>1. /\ pasa[t] \in Pasando
        /\ archivos' = [i \in DOMAIN archivos \union {pasa[t].id} |->
                          IF i = pasa[t].id THEN pasa[t].tamanio_proceso ELSE archivos[i]]
        /\ tablas' = tablas + 1
        /\ UNCHANGED <<new, elementos_en_cola_new, multiprogramacion, ready, blocked,
                       interrupciones, finalizados>>
    BY <1>15, PedirHace
  <2>2. pasa[t].id \in Nat /\ pasa[t].tamanio_proceso \in Nat
    BY <2>1 DEF Pasando
  <2>3. DOMAIN archivos' \subseteq Nat /\ \A i \in DOMAIN archivos' : archivos'[i] \in Nat
    BY <2>1, <2>2 DEF ColasBien
  <2>4. /\ tablas' \in Nat
        /\ UNCHANGED <<new, elementos_en_cola_new, multiprogramacion, ready, blocked,
                       interrupciones, finalizados>>
    BY <2>1 DEF ColasBien
  <2>. QED
    BY <2>3, <2>4 DEF ColasBien
<1>16. ASSUME NEW t \in PasanAReady, RecibirTabla(t) PROVE ColasBien'
  <2>1. ready \in Seq(PcbsBien)
    BY DEF ColasBien
  <2>2. /\ ready' \in Seq(PcbsBien)
        /\ UNCHANGED <<new, elementos_en_cola_new, multiprogramacion, blocked,
                       interrupciones, tablas, archivos, finalizados>>
    BY <1>16, <2>1, RecibirHace
  <2>. QED
    BY <2>2 DEF ColasBien
<1>11. UNCHANGED vars => UNCHANGED lasColas
  BY DEF vars, colas, memoria, despacho, historia, lasColas
<1>12. Aceptar \/ CrearHilo => UNCHANGED lasColas
  BY MarcoMain DEF Main
<1>13. ASSUME NEW c \in Consola,
              Conectar(c) \/ Enviar(c) \/ Caer(c) \/ RecibirRespuesta(c) \/ PerderConexion(c)
       PROVE  UNCHANGED lasColas
  BY <1>13, MarcoConsolas
<1>14. ASSUME NEW k \in Consola, Lee(k)
       PROVE  UNCHANGED lasColas
  BY <1>14, MarcoLee
<1>. QED
  BY <1>1, <1>2, <1>3, <1>4, <1>5, <1>6, <1>7, <1>8, <1>9, <1>10, <1>11, <1>12, <1>13,
     <1>14, <1>15, <1>16, Pasos DEF Cpu, CpuEjecuta

LEMMA PasaPaso ==
  ASSUME ColasBien, PasaBien, TestigoBien, CuentaBien, [Next]_vars
  PROVE  PasaBien'
<1>0. ready \in Seq(PcbsBien)
  BY DEF ColasBien
<1>1. CASE UNCHANGED <<pasa, elementos_en_cola_ready, respuestas, ready>>
           /\ apurado' \in BOOLEAN /\ perdido' \in BOOLEAN
  BY <1>1 DEF PasaBien, LugarBien
<1>2. ASSUME NEW t \in PasanAReady, NEW p \in PcbsBien, PasarAReady(t, p),
             UNCHANGED <<respuestas, apurado, perdido>>
      PROVE  PasaBien'
  <2>1. /\ pasa' \in [PasanAReady -> Pasando] /\ elementos_en_cola_ready' \in Nat
        /\ \A u \in PasanAReady : (LugarBien(u))'
    BY <1>0, <1>2, PasarHace
  <2>. QED
    BY <1>2, <2>1 DEF PasaBien
<1>3. CASE Admitir
  <2>1. new[1] \in PcbsBien /\ PasarAReady("ltp", new[1]) /\ UNCHANGED <<respuestas, apurado>>
    BY <1>3, AdmitirHace
  <2>2. perdido' = perdido /\ "ltp" \in PasanAReady
    BY <1>3 DEF Admitir, SinTocarConsolas, PasanAReady
  <2>. QED
    BY <1>2, <2>1, <2>2
<1>4. CASE TerminarIO
  <2>1. Len(blocked) > 0
    <3>1. blocked \in Seq(PcbsBien) /\ blocked # <<>> /\ Len(blocked) \in Nat
      BY <1>4, LenProperties DEF TerminarIO, ColasBien
    <3>. QED
      BY <3>1, EmptySeq
  <2>2. Head(blocked) \in PcbsBien
    BY <2>1, ConUnoMenos DEF ColasBien
  <2>3. /\ PasarAReady("io", Head(blocked)) /\ "io" \in PasanAReady
        /\ UNCHANGED <<respuestas, apurado, perdido>>
    BY <1>4 DEF TerminarIO, SinTocarConsolas, PasanAReady, memoria
  <2>. QED
    BY <1>2, <2>2, <2>3
<1>5. CASE RecibirInterrumpido
  <2>1. PICK r \in PcbsBien : PasarAReady("disp", r)
    BY <1>5, InterrumpidoHace
  <2>2. "disp" \in PasanAReady /\ UNCHANGED <<respuestas, apurado, perdido>>
    BY <1>5 DEF RecibirInterrumpido, Devuelve, SinTocarConsolas, PasanAReady, memoria
  <2>. QED
    BY <1>2, <2>1, <2>2
<1>6. CASE Despachar
  <2>1. /\ pasa' \in [PasanAReady -> Pasando] /\ elementos_en_cola_ready' \in Nat
        /\ \A t \in PasanAReady : (LugarBien(t))'
    BY <1>0, <1>6, DespacharHace
  <2>2. apurado' \in BOOLEAN /\ UNCHANGED <<respuestas, perdido>>
    BY <1>6 DEF Despachar, SinTocarConsolas, memoria, PasaBien
  <2>. QED
    BY <2>1, <2>2 DEF PasaBien
<1>7. ASSUME NEW t \in PasanAReady, PedirTabla(t) PROVE PasaBien'
  <2>1. /\ pasa[t].pc = "pedir_tabla"
        /\ pasa' \in [PasanAReady -> Pasando]
        /\ pasa'[t].pc = "recibir_tabla" /\ pasa'[t].id = pasa[t].id
        /\ pasa'[t].tamanio_proceso = pasa[t].tamanio_proceso
        /\ pasa'[t].lugar = pasa[t].lugar
        /\ \A u \in PasanAReady : u # t => pasa'[u] = pasa[u]
        /\ respuestas' = Append(respuestas, tablas)
        /\ UNCHANGED <<ready, elementos_en_cola_ready, apurado, perdido>>
    BY <1>7, PedirHace
  <2>2. respuestas' \in Seq(Nat)
    BY <2>1, ConUnoMas DEF PasaBien, ColasBien
  <2>3. \A u \in PasanAReady : LugarBien(u)
    BY DEF PasaBien
  <2>4. (LugarBien(t))'
    BY <2>1, <2>3 DEF LugarBien
  <2>5. \A u \in PasanAReady : (LugarBien(u))'
    BY <2>1, <2>3, <2>4 DEF LugarBien
  <2>. QED
    BY <2>1, <2>2, <2>5 DEF PasaBien
<1>8. ASSUME NEW t \in PasanAReady, RecibirTabla(t) PROVE PasaBien'
  <2>1. /\ pasa' \in [PasanAReady -> Pasando] /\ pasa'[t] = Fuera
        /\ \A u \in PasanAReady : u # t => pasa'[u] = pasa[u]
        /\ elementos_en_cola_ready' \in Nat /\ respuestas' \in Seq(Nat)
        /\ UNCHANGED <<apurado, perdido>>
    BY <1>0, <1>8, RecibirHace
  <2>2. /\ Len(ready') = Len(ready) /\ Len(ready) \in Nat
        /\ \A i \in 1..Len(ready) :
             /\ i # pasa[t].lugar => ready'[i] = ready[i]
             /\ i = pasa[t].lugar =>
                  ready'[i] = [ready[i] EXCEPT !.tablas_paginas = respuestas[1]]
    BY <1>0, <1>8, RecibirHace
  <2>3. \A i \in 1..Len(ready) :
          ready'[i].id = ready[i].id /\ ready'[i].tamanio_proceso = ready[i].tamanio_proceso
    <3>1. \A i \in 1..Len(ready) : ready[i] \in PcbsDeCola
      BY <1>0, ElementOfSeq DEF PcbsBien
    <3>2. ASSUME NEW i \in 1..Len(ready), i = pasa[t].lugar
          PROVE  ready'[i].id = ready[i].id /\ ready'[i].tamanio_proceso = ready[i].tamanio_proceso
      <4>1. ready'[i] = [ready[i] EXCEPT !.tablas_paginas = respuestas[1]]
        BY <2>2, <3>2
      <4>. QED
        BY <3>1, <4>1 DEF PcbsDeCola
    <3>. QED
      BY <2>2, <3>2
  <2>4. \A u \in PasanAReady : LugarBien(u)
    BY DEF PasaBien
  <2>5. ASSUME NEW u \in PasanAReady, u # t PROVE (LugarBien(u))'
    BY <2>1, <2>2, <2>3, <2>4, <2>5 DEF LugarBien
  <2>6. (LugarBien(t))'
    BY <2>1 DEF LugarBien, Fuera
  <2>. QED
    BY <2>1, <2>5, <2>6 DEF PasaBien
<1>9. CASE RecibirBloqueado \/ RecibirFinalizado
  <2>1. /\ UNCHANGED <<pasa, elementos_en_cola_ready, respuestas, ready>>
        /\ apurado' = apurado /\ perdido' = perdido
    BY <1>9 DEF RecibirBloqueado, RecibirFinalizado, Devuelve, SinTocarConsolas, memoria
  <2>. QED
    BY <1>1, <2>1 DEF PasaBien
<1>10. CASE Cpu
  <2>1. UNCHANGED <<pasa, elementos_en_cola_ready, respuestas, ready, apurado>>
    BY <1>10, MarcoCpu
  <2>2. perdido' \in {perdido, TRUE}
    BY <1>10 DEF Cpu, CpuRecibir, CpuSigue, CpuDevuelve, CpuInterrumpe, CpuPierde, CpuAbandonar
  <2>. QED
    BY <1>1, <2>1, <2>2 DEF PasaBien
<1>11. Aceptar \/ CrearHilo \/ UNCHANGED vars => UNCHANGED <<losPasos, ready>>
  BY MarcoMain DEF Main, lasColas, losPasos, vars, colas, memoria, historia
<1>12. ASSUME NEW c \in Consola,
              Conectar(c) \/ Enviar(c) \/ Caer(c) \/ RecibirRespuesta(c) \/ PerderConexion(c)
       PROVE  UNCHANGED <<losPasos, ready>>
  BY <1>12, MarcoConsolas DEF lasColas
<1>13. ASSUME NEW k \in Consola, Lee(k) \/ EncolarNuevo(k) \/ PostNew(k)
       PROVE  UNCHANGED <<losPasos, ready>>
  BY <1>13, MarcoLee, MarcoEncola DEF lasColas
<1>14. CASE UNCHANGED <<losPasos, ready>>
  BY <1>1, <1>14 DEF losPasos, PasaBien
<1>. QED
  BY <1>3, <1>4, <1>5, <1>6, <1>7, <1>8, <1>9, <1>10, <1>11, <1>12, <1>13, <1>14, Pasos
  DEF Cpu, CpuEjecuta

-----------------------------------------------------------------------------
(* The queue new and its semaphore.                                        *)

Mirando == {"conexion_1", "operacion", "conexion_2", "tamanio", "size", "buffer",
            "conexion_3"}

EntreMedio == {"leer_numero", "guardar_numero", "encolar"}

\* Where a thread that reads is, and where it goes.
LEMMA LeeSigue ==
  ASSUME HilosBien, NEW k \in Consola, Lee(k)
  PROVE  /\ hilos[k].pc \notin {"sin_crear", "encolar", "post", "fin"}
         /\ \/ UNCHANGED hilos
            \/ \E h : /\ Pasar(k, h) /\ h.pc \notin {"sin_crear", "post"}
                      /\ hilos[k].pc \in Mirando => h.pc \notin EntreMedio
<1>. DEFINE h == hilos[k]
<1>1. h \in Hilos
  BY DEF HilosBien
<1>2. h.pc \notin {"sin_crear", "encolar", "post", "fin"}
  BY LeeDonde
<1>13. AsignarId(k) \/ LeerNumero(k) \/ GuardarNumero(k) => h.pc \notin Mirando
  BY DEF AsignarId, LeerNumero, GuardarNumero, En, Mirando
<1>. USE DEF EntreMedio
<1>3. Hilo("fin").pc = "fin"
  BY HiloNuevo DEF Lugares
<1>4. CASE LeerConexion(k)
  <2>1. PICK o \in {<<"conexion_1", "operacion">>, <<"conexion_2", "tamanio">>} :
          Pasar(k, [h EXCEPT !.pc = o[2], !.socket = conexion_consola])
    BY <1>4 DEF LeerConexion
  <2>2. [h EXCEPT !.pc = o[2], !.socket = conexion_consola].pc \in {"operacion", "tamanio"}
    <3>. HIDE DEF h
    <3>. QED
      BY <1>1 DEF Hilos
  <2>. QED
    BY <1>2, <1>13, <2>1, <2>2
<1>5. CASE RecibirOperacion(k)
  <2>1. \/ Pasar(k, [h EXCEPT !.pc = "conexion_2"]) \/ Pasar(k, Hilo("fin")) \/ UNCHANGED hilos
    BY <1>5 DEF RecibirOperacion, Indefinido
  <2>2. [h EXCEPT !.pc = "conexion_2"].pc = "conexion_2"
    <3>. HIDE DEF h
    <3>. QED
      BY <1>1 DEF Hilos
  <2>. QED
    BY <1>2, <1>3, <1>13, <2>1, <2>2
<1>6. CASE RecibirTamanio(k)
  <2>1. PICK t : Pasar(k, [h EXCEPT !.pc = "size", !.proceso.tamanio_proceso = t])
    BY <1>6 DEF RecibirTamanio
  <2>2. [h EXCEPT !.pc = "size", !.proceso.tamanio_proceso = t].pc = "size"
    <3>. HIDE DEF h
    <3>. QED
      BY <1>1 DEF Hilos
  <2>. QED
    BY <1>2, <1>13, <2>1, <2>2
<1>7. CASE RecibirSize(k)
  <2>1. PICK t : Pasar(k, [h EXCEPT !.pc = "buffer", !.size = t])
    BY <1>7 DEF RecibirSize
  <2>2. [h EXCEPT !.pc = "buffer", !.size = t].pc = "buffer"
    <3>. HIDE DEF h
    <3>. QED
      BY <1>1 DEF Hilos
  <2>. QED
    BY <1>2, <1>13, <2>1, <2>2
<1>8. CASE PerderBuffer(k) \/ RecibirBuffer(k)
  <2>. DEFINE r == [h EXCEPT !.pc = "conexion_3", !.size = 0]
  <2>1. \/ Pasar(k, r) \/ UNCHANGED hilos
        \/ \E x : Pasar(k, [r EXCEPT !.proceso.instrucciones = x])
    BY <1>8 DEF PerderBuffer, RecibirBuffer, Indefinido
  <2>2. r.pc = "conexion_3" /\ r \in [pc : Lugares, socket : Consola \union {Nadie}, size : {0},
                                     aux : Nat, proceso : PcbsDeHilo]
    <3>. HIDE DEF h
    <3>. QED
      BY <1>1 DEF Hilos, Lugares
  <2>. HIDE DEF r
  <2>3. \A x : [r EXCEPT !.proceso.instrucciones = x].pc = "conexion_3"
    BY <2>2
  <2>. QED
    BY <1>2, <2>1, <2>2, <2>3
<1>9. CASE LeerSocket(k)
  <2>1. Pasar(k, [h EXCEPT !.pc = "id", !.socket = Nadie,
                            !.proceso.socket = conexion_consola])
    BY <1>9 DEF LeerSocket
  <2>2. [h EXCEPT !.pc = "id", !.socket = Nadie, !.proceso.socket = conexion_consola].pc = "id"
    <3>. HIDE DEF h
    <3>. QED
      BY <1>1 DEF Hilos
  <2>. QED
    BY <1>2, <1>13, <2>1, <2>2
<1>10. CASE AsignarId(k)
  <2>1. Pasar(k, [h EXCEPT !.pc = "leer_numero", !.proceso.id = numero_proceso])
    BY <1>10 DEF AsignarId
  <2>2. [h EXCEPT !.pc = "leer_numero", !.proceso.id = numero_proceso].pc = "leer_numero"
    <3>. HIDE DEF h
    <3>. QED
      BY <1>1 DEF Hilos
  <2>. QED
    BY <1>10, <1>2, <1>13, <2>1, <2>2
<1>11. CASE LeerNumero(k)
  <2>1. Pasar(k, [h EXCEPT !.pc = "guardar_numero", !.aux = numero_proceso])
    BY <1>11 DEF LeerNumero
  <2>2. [h EXCEPT !.pc = "guardar_numero", !.aux = numero_proceso].pc = "guardar_numero"
    <3>. HIDE DEF h
    <3>. QED
      BY <1>1 DEF Hilos
  <2>. QED
    BY <1>11, <1>2, <1>13, <2>1, <2>2
<1>12. CASE GuardarNumero(k)
  <2>1. \/ Pasar(k, [h EXCEPT !.pc = "encolar", !.aux = 0]) \/ Pasar(k, Hilo("fin"))
        \/ UNCHANGED hilos
    BY <1>12 DEF GuardarNumero, Indefinido
  <2>2. [h EXCEPT !.pc = "encolar", !.aux = 0].pc = "encolar"
    <3>. HIDE DEF h
    <3>. QED
      BY <1>1 DEF Hilos
  <2>. QED
    BY <1>12, <1>2, <1>3, <1>13, <2>1, <2>2
<1>. QED
  BY <1>4, <1>5, <1>6, <1>7, <1>8, <1>9, <1>10, <1>11, <1>12 DEF Lee

LEMMA PostearIgual ==
  ASSUME HilosBien, NEW k \in Consola, NEW h, Pasar(k, h), h.pc # "post",
         hilos[k].pc # "post"
  PROVE  PorPostear' = PorPostear
<1>1. hilos \in [Consola -> Hilos] /\ hilos' = [hilos EXCEPT ![k] = h]
  BY DEF HilosBien, Pasar
<1>2. \A j \in Consola : hilos'[j] = IF j = k THEN h ELSE hilos[j]
  BY <1>1
<1>. QED
  BY <1>2 DEF PorPostear

LEMMA CuentaPaso ==
  ASSUME HilosBien, ColasBien, CuentaBien, [Next]_vars
  PROVE  CuentaBien'
<1>0. /\ IsFiniteSet(PorPostear) /\ Cardinality(PorPostear) \in Nat
      /\ new \in Seq(PcbsBien) /\ Len(new) \in Nat /\ elementos_en_cola_new \in Nat
      /\ hilos \in [Consola -> Hilos]
  BY PorPostearFinito, LenProperties DEF ColasBien, HilosBien
<1>1. CASE UNCHANGED <<new, elementos_en_cola_new>> /\ PorPostear' = PorPostear
  BY <1>1 DEF CuentaBien
<1>2. UNCHANGED hilos => PorPostear' = PorPostear
  BY DEF PorPostear
<1>3. ASSUME NEW k \in Consola, EncolarNuevo(k)
      PROVE  CuentaBien'
  <2>1. /\ hilos[k].pc = "encolar" /\ hilos' = [hilos EXCEPT ![k] = Hilo("post")]
        /\ elementos_en_cola_new' = elementos_en_cola_new
        /\ new' = Append(new, hilos[k].proceso)
    BY <1>3 DEF EncolarNuevo, En, Pasar
  <2>2. Hilo("post").pc = "post"
    BY HiloNuevo DEF Lugares
  <2>3. PorPostear' = PorPostear \union {k} /\ k \notin PorPostear
    BY <1>0, <2>1, <2>2 DEF PorPostear
  <2>4. Cardinality(PorPostear') = Cardinality(PorPostear) + 1
    BY <1>0, <2>3, FS_AddElement
  <2>5. Len(new') = Len(new) + 1
    BY <1>0, <2>1
  <2>. QED
    BY <1>0, <2>1, <2>4, <2>5 DEF CuentaBien
<1>4. ASSUME NEW k \in Consola, PostNew(k)
      PROVE  CuentaBien'
  <2>1. /\ hilos[k].pc = "post" /\ hilos' = [hilos EXCEPT ![k] = Hilo("fin")]
        /\ elementos_en_cola_new' = elementos_en_cola_new + 1 /\ new' = new
    BY <1>4 DEF PostNew, En, Pasar
  <2>2. Hilo("fin").pc = "fin"
    BY HiloNuevo DEF Lugares
  <2>3. PorPostear' = PorPostear \ {k} /\ k \in PorPostear
    BY <1>0, <2>1, <2>2 DEF PorPostear
  <2>4. Cardinality(PorPostear') = Cardinality(PorPostear) - 1
    BY <1>0, <2>3, FS_RemoveElement
  <2>. QED
    BY <1>0, <2>1, <2>4 DEF CuentaBien
<1>5. CASE Admitir
  <2>1. /\ Len(new) > 0 /\ new' = Tail(new)
    BY <1>5, AdmitirHace
  <2>2. Len(new') = Len(new) - 1
    BY <1>0, <2>1, ConUnoMenos
  <2>3. elementos_en_cola_new' = elementos_en_cola_new - 1 /\ PorPostear' = PorPostear
    BY <1>2, <1>5, MarcoPlanifica DEF Admitir, Planifica, losHilos
  <2>. QED
    BY <1>0, <2>2, <2>3 DEF CuentaBien
<1>6. ASSUME NEW k \in Consola, Lee(k)
      PROVE  UNCHANGED <<new, elementos_en_cola_new>> /\ PorPostear' = PorPostear
  <2>1. UNCHANGED <<new, elementos_en_cola_new>>
    BY <1>6, MarcoLee DEF lasColas
  <2>2. PorPostear' = PorPostear
    BY <1>2, <1>6, LeeSigue, PostearIgual
  <2>. QED
    BY <2>1, <2>2
<1>7. CASE CrearHilo
  <2>1. UNCHANGED <<new, elementos_en_cola_new>>
    BY <1>7, MarcoMain DEF Main, lasColas
  <2>2. PICK k \in Consola :
          hilos[k].pc = "sin_crear" /\ Pasar(k, Hilo("conexion_1"))
    BY <1>7 DEF CrearHilo, Pasar
  <2>3. Hilo("conexion_1").pc = "conexion_1"
    BY HiloNuevo DEF Lugares
  <2>. QED
    BY <1>1, <2>1, <2>2, <2>3, PostearIgual
<1>8. Aceptar => UNCHANGED <<new, elementos_en_cola_new, hilos>>
  BY DEF Aceptar, colas
<1>9. ASSUME NEW c \in Consola,
             Conectar(c) \/ Enviar(c) \/ Caer(c) \/ RecibirRespuesta(c) \/ PerderConexion(c)
      PROVE  UNCHANGED <<new, elementos_en_cola_new, hilos>>
  BY <1>9, MarcoConsolas DEF losHilos, lasColas
<1>10. Despachar \/ Cpu \/ RecibirBloqueado \/ RecibirInterrumpido \/ TerminarIO
         \/ (\E t \in PasanAReady : PedirTabla(t) \/ RecibirTabla(t))
       => UNCHANGED <<new, elementos_en_cola_new, hilos>>
  <2>1. Despachar \/ Cpu \/ RecibirBloqueado \/ RecibirInterrumpido \/ TerminarIO
          \/ (\E t \in PasanAReady : PedirTabla(t) \/ RecibirTabla(t))
        => hilos' = hilos
    BY MarcoPlanifica DEF Planifica, Tabla, losHilos
  <2>2. Despachar \/ RecibirBloqueado \/ RecibirInterrumpido \/ TerminarIO
          \/ (\E t \in PasanAReady : PedirTabla(t) \/ RecibirTabla(t))
        => UNCHANGED <<new, elementos_en_cola_new>>
    BY DEF Despachar, RecibirBloqueado, RecibirInterrumpido, TerminarIO, PedirTabla,
           RecibirTabla
  <2>. QED
    BY <2>1, <2>2, MarcoCpu
<1>11. RecibirFinalizado \/ UNCHANGED vars => UNCHANGED <<new, elementos_en_cola_new, hilos>>
  BY MarcoFinalizado DEF losHilos, vars, colas
<1>. QED
  BY <1>1, <1>2, <1>3, <1>4, <1>5, <1>6, <1>7, <1>8, <1>9, <1>10, <1>11, Pasos
  DEF Cpu, CpuEjecuta

-----------------------------------------------------------------------------
(* Connections.                                                            *)

LEMMA ConexionesPaso ==
  ASSUME RedBien, ConexionesBien, [Next]_vars
  PROVE  ConexionesBien'
<1>0. pendientes \in Seq(Consola) /\ Len(pendientes) \in Nat
      /\ \A i \in 1..Len(pendientes) : pendientes[i] \in Consola
  BY ElementOfSeq, LenProperties DEF RedBien
<1>1. CASE UNCHANGED <<consola, pendientes, conexion_consola>>
  BY <1>1 DEF ConexionesBien
<1>2. ASSUME NEW c \in Consola, Conectar(c)
      PROVE  ConexionesBien'
  <2>1. /\ consola[c] = "nueva" /\ consola' = [consola EXCEPT ![c] = "conectada"]
        /\ pendientes' = Append(pendientes, c) /\ conexion_consola' = conexion_consola
    BY <1>2 DEF Conectar, Ir, SinTocarKernel, globales
  <2>2. \A d \in Consola : consola[d] # "nueva" \/ d = c => consola'[d] # "nueva"
    BY <2>1 DEF RedBien
  <2>3. /\ Len(pendientes') = Len(pendientes) + 1
        /\ \A i \in 1..(Len(pendientes) + 1) :
             pendientes'[i] = IF i <= Len(pendientes) THEN pendientes[i] ELSE c
    BY <1>0, <2>1, ConUnoMas
  <2>4. conexion_consola # c /\ \A i \in 1..Len(pendientes) : pendientes[i] # c
    BY <2>1 DEF ConexionesBien
  <2>5. ASSUME NEW i \in 1..Len(pendientes')
        PROVE  /\ \/ i \in 1..Len(pendientes) /\ pendientes'[i] = pendientes[i]
                  \/ i = Len(pendientes) + 1 /\ pendientes'[i] = c
    BY <1>0, <2>3
  <2>6. \A i \in 1..Len(pendientes') : /\ consola'[pendientes'[i]] # "nueva"
                                       /\ pendientes'[i] # conexion_consola'
    BY <1>0, <2>1, <2>2, <2>4, <2>5 DEF ConexionesBien
  <2>7. \A i, j \in 1..Len(pendientes') : pendientes'[i] = pendientes'[j] => i = j
    BY <2>4, <2>5 DEF ConexionesBien
  <2>8. conexion_consola' \in Consola => consola'[conexion_consola'] # "nueva"
    BY <2>1, <2>2 DEF ConexionesBien
  <2>. QED
    BY <2>6, <2>7, <2>8 DEF ConexionesBien
<1>3. ASSUME NEW c \in Consola, Enviar(c) \/ Caer(c) \/ RecibirRespuesta(c) \/ PerderConexion(c)
      PROVE  ConexionesBien'
  <2>1. PICK l \in {"esperando", "caida", "exito", "fallo"} : consola' = [consola EXCEPT ![c] = l]
    BY <1>3 DEF Enviar, Caer, RecibirRespuesta, PerderConexion, Ir
  <2>2. UNCHANGED <<pendientes, conexion_consola>>
    BY <1>3 DEF Enviar, Caer, RecibirRespuesta, PerderConexion, SinTocarKernel, globales
  <2>3. \A d \in Consola : consola[d] # "nueva" => consola'[d] # "nueva"
    BY <2>1 DEF RedBien
  <2>. QED
    BY <1>0, <2>2, <2>3 DEF ConexionesBien
<1>4. CASE Aceptar
  <2>1. /\ Len(pendientes) > 0 /\ conexion_consola' = Head(pendientes)
        /\ pendientes' = Tail(pendientes) /\ consola' = consola
    BY <1>0, <1>4, EmptySeq DEF Aceptar
  <2>2. /\ Head(pendientes) = pendientes[1] /\ Len(Tail(pendientes)) = Len(pendientes) - 1
        /\ \A i \in 1..(Len(pendientes) - 1) : Tail(pendientes)[i] = pendientes[i + 1]
    BY <1>0, <2>1, ConUnoMenos
  <2>3. ASSUME NEW i \in 1..Len(pendientes')
        PROVE  i + 1 \in 1..Len(pendientes) /\ pendientes'[i] = pendientes[i + 1] /\ i + 1 # 1
    BY <1>0, <2>1, <2>2
  <2>4. 1 \in 1..Len(pendientes)
    BY <1>0, <2>1
  <2>5. \A i \in 1..Len(pendientes') : /\ consola'[pendientes'[i]] # "nueva"
                                       /\ pendientes'[i] # conexion_consola'
    BY <2>1, <2>2, <2>3, <2>4 DEF ConexionesBien
  <2>6. \A i, j \in 1..Len(pendientes') : pendientes'[i] = pendientes'[j] => i = j
    <3>1. ASSUME NEW i \in 1..Len(pendientes'), NEW j \in 1..Len(pendientes'),
                 pendientes'[i] = pendientes'[j]
          PROVE  i = j
      <4>1. i + 1 = j + 1
        BY <2>3, <3>1 DEF ConexionesBien
      <4>. QED
        BY <4>1
    <3>. QED
      BY <3>1
  <2>7. consola'[conexion_consola'] # "nueva"
    BY <2>1, <2>2, <2>4 DEF ConexionesBien
  <2>. QED
    BY <2>5, <2>6, <2>7 DEF ConexionesBien
<1>5. CrearHilo => UNCHANGED <<consola, pendientes, conexion_consola>>
  BY DEF CrearHilo, conexiones
<1>6. ASSUME NEW k \in Consola, Lee(k) \/ EncolarNuevo(k) \/ PostNew(k)
      PROVE  UNCHANGED <<consola, pendientes, conexion_consola>>
  BY <1>6, MarcoLee, MarcoEncola
<1>7. Planifica \/ RecibirFinalizado \/ UNCHANGED vars
      => UNCHANGED <<consola, pendientes, conexion_consola>>
  BY MarcoPlanifica, MarcoFinalizado DEF losHilos, vars, conexiones, globales
<1>. QED
  BY <1>1, <1>2, <1>3, <1>4, <1>5, <1>6, <1>7, Pasos
  DEF Planifica, Cpu, CpuEjecuta, Tabla

-----------------------------------------------------------------------------
(* From the socket to the process.                                         *)

\* What recv takes from the socket of console c.
LEMMA ReciboDe ==
  ASSUME RedBien, NEW k \in Consola, NEW c \in Consola, hilos[k].socket = c,
         NEW n \in Nat, Recibir(k, n)
  PROVE  /\ entrada[c] \in Seq(Nat) /\ Len(entrada[c]) \in Nat /\ Len(entrada[c]) >= n
         /\ Recibido(k) = entrada[c]
         /\ entrada'[c] = SubSeq(entrada[c], n + 1, Len(entrada[c]))
         /\ \A d \in Consola \ {c} : entrada'[d] = entrada[d]
<1>1. entrada \in [Consola -> Seq(Nat)]
  BY DEF RedBien
<1>2. entrada[c] \in Seq(Nat) /\ Len(entrada[c]) \in Nat
  BY <1>1, LenProperties
<1>. QED
  BY <1>1, <1>2 DEF Recibir, Recibido

\* A step of the thread k that goes on as h.
LEMMA LecturaSigue ==
  ASSUME HilosBien, ConexionesBien, LecturaBien, NEW k \in Consola, NEW h, Pasar(k, h),
         UNCHANGED <<pcMain, conexion_consola, consola, pendientes>>,
         h.pc \in Mirando =>
           /\ MiraElGlobal(k)
           /\ Leyendo(h, conexion_consola, consola[conexion_consola],
                      entrada'[conexion_consola]),
         \/ entrada' = entrada
         \/ /\ MiraElGlobal(k)
            /\ \A d \in Consola \ {conexion_consola} : entrada'[d] = entrada[d],
         h.pc \in ConSocket => Suyo(h.proceso)
  PROVE  LecturaBien'
<1>1. \A j \in Consola : hilos'[j] = IF j = k THEN h ELSE hilos[j]
  BY DEF Pasar, HilosBien
<1>2. \A j \in Consola : MiraElGlobal(j)' => MiraElGlobal(j)
  BY <1>1 DEF MiraElGlobal, Mirando
<1>3. (\A i, j \in Consola : MiraElGlobal(i) /\ MiraElGlobal(j) => i = j)'
  BY <1>2 DEF LecturaBien
<1>4. (pcMain = "pthread_create" => \A j \in Consola : ~MiraElGlobal(j))'
  BY <1>2 DEF LecturaBien
<1>5. (\A c \in Consola :
         \/ consola[c] = "nueva" \/ \E i \in 1..Len(pendientes) : pendientes[i] = c
         \/ pcMain = "pthread_create" /\ conexion_consola = c
         => Virgen(c, consola[c], entrada[c]))'
  <2>1. ASSUME NEW c \in Consola,
               \/ consola[c] = "nueva" \/ \E i \in 1..Len(pendientes) : pendientes[i] = c
               \/ pcMain = "pthread_create" /\ conexion_consola = c
        PROVE  Virgen(c, consola[c], entrada'[c])
    <3>1. Virgen(c, consola[c], entrada[c])
      BY <2>1 DEF LecturaBien
    <3>2. entrada'[c] = entrada[c]
      <4>1. CASE MiraElGlobal(k)
        <5>1. c # conexion_consola
          BY <2>1, <4>1 DEF LecturaBien, ConexionesBien
        <5>. QED
          BY <5>1
      <4>. QED
        BY <4>1
    <3>. QED
      BY <3>1, <3>2
  <2>. QED
    BY <2>1
<1>6. ASSUME NEW j \in Consola, MiraElGlobal(j)'
      PROVE  Leyendo(hilos'[j], conexion_consola, consola[conexion_consola],
                     entrada'[conexion_consola])
  <2>1. CASE j = k
    BY <1>1, <1>6, <2>1 DEF MiraElGlobal, Mirando
  <2>2. CASE j # k
    <3>1. MiraElGlobal(j) /\ hilos'[j] = hilos[j]
      BY <1>1, <1>2, <1>6, <2>2
    <3>2. entrada' = entrada
      BY <2>2, <3>1 DEF LecturaBien
    <3>. QED
      BY <3>1, <3>2 DEF LecturaBien
  <2>. QED
    BY <2>1, <2>2
<1>7. (\A j \in Consola :
         MiraElGlobal(j) =>
           Leyendo(hilos[j], conexion_consola, consola[conexion_consola],
                   entrada[conexion_consola]))'
  BY <1>6
<1>8. (\A j \in Consola : hilos[j].pc \in ConSocket => Suyo(hilos[j].proceso))'
  BY <1>1 DEF LecturaBien, Suyo
<1>. QED
  BY <1>3, <1>4, <1>5, <1>7, <1>8 DEF LecturaBien

LEMMA LecturaQueda ==
  ASSUME LecturaBien,
         UNCHANGED <<hilos, pcMain, conexion_consola, consola, pendientes, entrada>>
  PROVE  LecturaBien'
  BY DEF LecturaBien, MiraElGlobal, Suyo

LEMMA LecturaLee ==
  ASSUME RedBien, HilosBien, ConexionesBien, LecturaBien, NEW k \in Consola, Lee(k)
  PROVE  LecturaBien'
<1>. DEFINE h == hilos[k]
            p == h.proceso
            c == conexion_consola
            m == Paquete(c)
            t == Stream(Programas[c])
            b == Buffer(Programas[c])
            q == <<Tamanio(c)>> \o b
<1>1. /\ h \in Hilos /\ p \in PcbsDeHilo
      /\ UNCHANGED <<pcMain, conexion_consola, consola, pendientes>>
  BY MarcoLee DEF HilosBien, Hilos
<1>2. h.pc \notin {"sin_crear", "encolar", "post", "fin"} /\ h.pc \in Lugares
  BY LeeSigue DEF HilosBien, Hilos
<1>3. c \in Consola
  BY <1>2 DEF HilosBien, HiloBien
<1>4. MiraElGlobal(k) <=> h.pc \in Mirando
  BY DEF MiraElGlobal, Mirando
<1>5. h.pc \in Mirando => Leyendo(h, c, consola[c], entrada[c])
  BY <1>4 DEF LecturaBien
<1>6. h.pc \in ConSocket => Suyo(p)
  BY DEF LecturaBien
<1>7. /\ Len(m) >= 1 /\ Head(m) = LISTA_DE_INSTRUCCIONES /\ SubSeq(m, 1 + 1, Len(m)) = q
      /\ Len(q) >= 1 /\ Head(q) = Tamanio(c) /\ SubSeq(q, 1 + 1, Len(q)) = b
      /\ Len(b) >= 1 /\ Head(b) = Len(t) /\ SubSeq(b, 1 + 1, Len(b)) = t
      /\ Len(t) \in Nat /\ SubSeq(t, 1, Len(t)) = t
      /\ Instrucciones(t) = Programas[c] /\ EsStream(t)
  BY <1>3, PaqueteSon
<1>8. Hilo("fin").pc \notin Mirando \union ConSocket
  BY HiloNuevo DEF Lugares, Mirando, ConSocket
<1>. HIDE DEF h, p, c, m, t, b, q
<1>9. CASE LeerConexion(k)
  <2>1. PICK o \in {<<"conexion_1", "operacion">>, <<"conexion_2", "tamanio">>} :
          h.pc = o[1] /\ Pasar(k, [h EXCEPT !.pc = o[2], !.socket = c])
    BY <1>9 DEF LeerConexion, En, h, c
  <2>. DEFINE r == [h EXCEPT !.pc = o[2], !.socket = c]
  <2>2. r.pc = o[2] /\ r.socket = c /\ r.pc \notin ConSocket
    BY <1>1 DEF Hilos, ConSocket
  <2>3. Pasar(k, r) /\ entrada' = entrada
    BY <1>9, <2>1 DEF LeerConexion, conexiones
  <2>. HIDE DEF r
  <2>4. h.pc \in Mirando /\ Leyendo(h, c, consola[c], entrada[c])
    BY <1>5, <2>1 DEF Mirando
  <2>5. Leyendo(r, c, consola[c], entrada'[c])
    BY <2>1, <2>2, <2>3, <2>4 DEF Leyendo
  <2>. QED
    BY <1>1, <1>4, <2>2, <2>3, <2>4, <2>5, LecturaSigue DEF c
<1>10. CASE RecibirOperacion(k)
  <2>1. h.pc = "operacion" /\ h.pc \in Mirando /\ h.socket = c
        /\ Virgen(c, consola[c], entrada[c])
    BY <1>5, <1>10 DEF RecibirOperacion, En, h, Mirando, Leyendo
  <2>2. CASE Recibir(k, 1)
    <3>1. /\ entrada[c] \in Seq(Nat) /\ Len(entrada[c]) >= 1 /\ Recibido(k) = entrada[c]
          /\ entrada'[c] = SubSeq(entrada[c], 1 + 1, Len(entrada[c]))
          /\ \A d \in Consola \ {c} : entrada'[d] = entrada[d]
      BY <1>3, <2>1, <2>2, ReciboDe DEF h
    <3>2. consola[c] \notin {"nueva", "conectada"} /\ entrada[c] = m
      <4>1. entrada[c] # <<>>
        BY <3>1, EmptySeq
      <4>. QED
        BY <2>1, <4>1 DEF Virgen, m
    <3>. DEFINE r == [h EXCEPT !.pc = "conexion_2"]
    <3>3. r.pc = "conexion_2"
      BY <1>1 DEF Hilos
    <3>4. Pasar(k, r) \/ (Pasar(k, Hilo("fin")) /\ entrada' = entrada)
      <4>1. Head(Recibido(k)) = LISTA_DE_INSTRUCCIONES
        BY <1>7, <3>1, <3>2
      <4>. QED
        BY <1>10, <4>1 DEF RecibirOperacion, h, Cerrar
    <3>. HIDE DEF r
    <3>5. entrada'[c] = q
      BY <1>7, <3>1, <3>2
    <3>6. Leyendo(r, c, consola[c], entrada'[c]) /\ r.pc \notin ConSocket
      BY <3>2, <3>3, <3>5 DEF Leyendo, q, b, ConSocket
    <3>7. CASE Pasar(k, r)
      BY <1>1, <1>4, <2>1, <3>1, <3>6, <3>7, LecturaSigue DEF c
    <3>8. CASE Pasar(k, Hilo("fin")) /\ entrada' = entrada
      BY <1>1, <1>8, <3>8, LecturaSigue
    <3>. QED
      BY <3>4, <3>7, <3>8
  <2>3. CASE Cerrar(k) /\ Pasar(k, Hilo("fin"))
    <3>1. entrada' = entrada
      BY <2>3 DEF Cerrar
    <3>. QED
      BY <1>1, <1>8, <2>3, <3>1, LecturaSigue
  <2>. QED
    BY <1>10, <2>2, <2>3 DEF RecibirOperacion
<1>11. CASE RecibirTamanio(k)
  <2>1. /\ h.pc = "tamanio" /\ h.pc \in Mirando /\ h.socket = c /\ entrada[c] = q
        /\ consola[c] \notin {"nueva", "conectada"}
    BY <1>5, <1>11 DEF RecibirTamanio, En, h, Mirando, Leyendo, q, b
  <2>2. Recibir(k, 1)
    <3>1. ~Cerrada(k, 1)
      <4>1. Len(entrada[c]) \in Nat
        BY <1>3, LenProperties DEF RedBien
      <4>. QED
        BY <1>7, <2>1, <4>1 DEF Cerrada, h
    <3>. QED
      BY <1>11, <3>1 DEF RecibirTamanio
  <2>3. /\ Recibido(k) = entrada[c] /\ Len(entrada[c]) \in Nat
        /\ entrada'[c] = SubSeq(entrada[c], 1 + 1, Len(entrada[c]))
        /\ \A d \in Consola \ {c} : entrada'[d] = entrada[d]
    BY <1>3, <2>1, <2>2, ReciboDe DEF h
  <2>4. entrada'[c] = b /\ Head(Recibido(k)) = Tamanio(c)
    BY <1>7, <2>1, <2>3
  <2>. DEFINE r == [h EXCEPT !.pc = "size", !.proceso.tamanio_proceso = Tamanio(c)]
  <2>5. r.pc = "size" /\ r.socket = c /\ r.proceso.tamanio_proceso = Tamanio(c)
    BY <1>1, <2>1 DEF Hilos, PcbsDeHilo, p
  <2>6. Pasar(k, r)
    <3>1. ~Cerrada(k, 1)
      BY <1>7, <2>1, <2>3 DEF Cerrada, h
    <3>. QED
      BY <1>11, <2>4, <3>1 DEF RecibirTamanio, h
  <2>. HIDE DEF r
  <2>7. Leyendo(r, c, consola[c], entrada'[c]) /\ r.pc \notin ConSocket
    BY <2>1, <2>4, <2>5 DEF Leyendo, b, ConSocket
  <2>. QED
    BY <1>1, <1>4, <2>1, <2>3, <2>6, <2>7, LecturaSigue DEF c
<1>12. CASE RecibirSize(k)
  <2>1. /\ h.pc = "size" /\ h.pc \in Mirando /\ h.socket = c /\ entrada[c] = b
        /\ consola[c] \notin {"nueva", "conectada"} /\ Recibir(k, 1)
        /\ h.proceso.tamanio_proceso = Tamanio(c)
    BY <1>5, <1>12 DEF RecibirSize, En, h, Mirando, Leyendo, b
  <2>3. /\ Recibido(k) = entrada[c] /\ Len(entrada[c]) \in Nat
        /\ entrada'[c] = SubSeq(entrada[c], 1 + 1, Len(entrada[c]))
        /\ \A d \in Consola \ {c} : entrada'[d] = entrada[d]
    BY <1>3, <2>1, ReciboDe DEF h
  <2>4. entrada'[c] = t /\ Head(Recibido(k)) = Len(t)
    BY <1>7, <2>1, <2>3
  <2>. DEFINE r == [h EXCEPT !.pc = "buffer", !.size = Len(t)]
  <2>5. r.pc = "buffer" /\ r.socket = c /\ r.proceso = h.proceso /\ r.size = Len(t)
    BY <1>1, <2>1 DEF Hilos
  <2>6. Pasar(k, r)
    BY <1>12, <2>4 DEF RecibirSize, h
  <2>. HIDE DEF r
  <2>7. Leyendo(r, c, consola[c], entrada'[c]) /\ r.pc \notin ConSocket
    BY <2>1, <2>4, <2>5 DEF Leyendo, t, ConSocket
  <2>. QED
    BY <1>1, <1>4, <2>1, <2>3, <2>6, <2>7, LecturaSigue DEF c
<1>13. CASE PerderBuffer(k)
  <2>1. Len(entrada[c]) \in Nat
    BY <1>3, LenProperties DEF RedBien
  <2>2. CASE h.pc = "size" /\ Cerrada(k, 1)
    <3>1. h.socket = c /\ entrada[c] = b
      BY <1>5, <2>2 DEF Mirando, Leyendo, b
    <3>. QED
      BY <1>7, <2>1, <2>2, <3>1 DEF Cerrada, h
  <2>3. CASE h.pc = "buffer" /\ Cerrada(k, h.size)
    <3>1. h.socket = c /\ entrada[c] = t /\ h.size = Len(t)
      BY <1>5, <2>3 DEF Mirando, Leyendo, t
    <3>. QED
      BY <1>7, <2>1, <2>3, <3>1 DEF Cerrada, h
  <2>. QED
    BY <1>13, <2>2, <2>3 DEF PerderBuffer, En, h
<1>14. CASE RecibirBuffer(k)
  <2>1. /\ h.pc = "buffer" /\ h.pc \in Mirando /\ h.socket = c /\ entrada[c] = t
        /\ consola[c] \notin {"nueva", "conectada"} /\ h.size = Len(t)
        /\ p.tamanio_proceso = Tamanio(c) /\ Recibir(k, Len(t))
    BY <1>5, <1>14 DEF RecibirBuffer, En, h, Mirando, Leyendo, t, p
  <2>2. /\ Recibido(k) = entrada[c]
        /\ \A d \in Consola \ {c} : entrada'[d] = entrada[d]
    BY <1>3, <1>7, <2>1, ReciboDe DEF h
  <2>. DEFINE r0 == [h EXCEPT !.pc = "conexion_3", !.size = 0]
  <2>7. PICK x \in Parseos(Programas[c]) : Pasar(k, [r0 EXCEPT !.proceso.instrucciones = x])
    <3>1. SubSeq(Recibido(k), 1, hilos[k].size) = t
      BY <1>7, <2>1, <2>2 DEF h
    <3>. QED
      BY <1>7, <1>14, <3>1 DEF RecibirBuffer, h
  <2>. DEFINE r == [r0 EXCEPT !.proceso.instrucciones = x]
  <2>3. Pasar(k, r)
    BY <2>7
  <2>4. r0.pc = "conexion_3" /\ r0 \in Hilos /\ r0.proceso = p
    BY <1>1 DEF Hilos, Lugares, p
  <2>. HIDE DEF r0
  <2>5. /\ r.pc = "conexion_3" /\ r.proceso.instrucciones = x
        /\ r.proceso.tamanio_proceso = Tamanio(c)
    BY <1>1, <2>1, <2>4 DEF Hilos, PcbsDeHilo
  <2>. HIDE DEF r
  <2>6. Leyendo(r, c, consola[c], entrada'[c]) /\ r.pc \notin ConSocket
    BY <2>1, <2>5, <2>7 DEF Leyendo, ConSocket
  <2>. QED
    BY <1>1, <1>4, <2>1, <2>2, <2>3, <2>6, LecturaSigue DEF c
<1>15. CASE LeerSocket(k)
  <2>1. /\ h.pc = "conexion_3" /\ p.tamanio_proceso = Tamanio(c)
        /\ p.instrucciones \in Parseos(Programas[c])
    BY <1>5, <1>15 DEF LeerSocket, En, h, Mirando, Leyendo, p
  <2>. DEFINE r == [h EXCEPT !.pc = "id", !.socket = Nadie, !.proceso.socket = c]
  <2>2. Pasar(k, r) /\ entrada' = entrada
    BY <1>15 DEF LeerSocket, h, c, conexiones
  <2>3. /\ r.pc = "id" /\ r.proceso.socket = c /\ r.proceso.instrucciones = p.instrucciones
        /\ r.proceso.tamanio_proceso = p.tamanio_proceso
    BY <1>1 DEF Hilos, PcbsDeHilo, p
  <2>. HIDE DEF r
  <2>4. Suyo(r.proceso) /\ r.pc \notin Mirando
    BY <2>1, <2>3 DEF Suyo, Mirando
  <2>. QED
    BY <1>1, <2>2, <2>4, LecturaSigue
<1>16. CASE AsignarId(k)
  <2>. DEFINE r == [h EXCEPT !.pc = "leer_numero", !.proceso.id = numero_proceso]
  <2>1. h.pc \in ConSocket /\ Pasar(k, r) /\ entrada' = entrada
    BY <1>16 DEF AsignarId, En, h, conexiones, ConSocket
  <2>2. /\ r.pc = "leer_numero" /\ r.proceso.socket = p.socket
        /\ r.proceso.instrucciones = p.instrucciones
        /\ r.proceso.tamanio_proceso = p.tamanio_proceso
    BY <1>1 DEF Hilos, PcbsDeHilo, p
  <2>. HIDE DEF r
  <2>3. Suyo(r.proceso) /\ r.pc \notin Mirando
    BY <1>6, <2>1, <2>2 DEF Suyo, Mirando
  <2>. QED
    BY <1>1, <2>1, <2>3, LecturaSigue
<1>17. CASE LeerNumero(k)
  <2>. DEFINE r == [h EXCEPT !.pc = "guardar_numero", !.aux = numero_proceso]
  <2>1. h.pc \in ConSocket /\ Pasar(k, r) /\ entrada' = entrada
    BY <1>17 DEF LeerNumero, En, h, conexiones, ConSocket
  <2>2. r.pc = "guardar_numero" /\ r.proceso = p
    BY <1>1 DEF Hilos, p
  <2>. HIDE DEF r
  <2>3. Suyo(r.proceso) /\ r.pc \notin Mirando
    BY <1>6, <2>1, <2>2 DEF Mirando
  <2>. QED
    BY <1>1, <2>1, <2>3, LecturaSigue
<1>18. CASE GuardarNumero(k)
  <2>. DEFINE r == [h EXCEPT !.pc = "encolar", !.aux = 0]
  <2>1. /\ h.pc \in ConSocket /\ entrada' = entrada
        /\ Pasar(k, r) \/ Pasar(k, Hilo("fin")) \/ UNCHANGED hilos
    BY <1>18 DEF GuardarNumero, En, h, conexiones, ConSocket, Indefinido
  <2>2. r.pc = "encolar" /\ r.proceso = p
    BY <1>1 DEF Hilos, p
  <2>. HIDE DEF r
  <2>3. Suyo(r.proceso) /\ r.pc \notin Mirando
    BY <1>6, <2>1, <2>2 DEF Mirando
  <2>4. CASE Pasar(k, r)
    BY <1>1, <2>1, <2>3, <2>4, LecturaSigue
  <2>5. CASE Pasar(k, Hilo("fin"))
    BY <1>1, <1>8, <2>1, <2>5, LecturaSigue
  <2>6. CASE UNCHANGED hilos
    BY <1>1, <2>1, <2>6, LecturaQueda
  <2>. QED
    BY <2>1, <2>4, <2>5, <2>6
<1>. QED
  BY <1>9, <1>10, <1>11, <1>12, <1>13, <1>14, <1>15, <1>16, <1>17, <1>18 DEF Lee

\* A step of console c.
LEMMA LecturaConsola ==
  ASSUME RedBien, HilosBien, ConexionesBien, LecturaBien, NEW c \in Consola,
         Conectar(c) \/ Enviar(c) \/ Caer(c) \/ RecibirRespuesta(c) \/ PerderConexion(c)
  PROVE  LecturaBien'
<1>. DEFINE l == consola'[c]
            e == entrada'[c]
<1>1. UNCHANGED <<pcMain, conexion_consola, numero_proceso, hilos>>
  BY MarcoConsolas DEF losHilos
<1>2. /\ \A d \in Consola \ {c} : consola'[d] = consola[d] /\ entrada'[d] = entrada[d]
      /\ l # "nueva"
      /\ consola[c] \notin {"nueva", "conectada"} =>
           l \notin {"nueva", "conectada"} /\ e = entrada[c]
      /\ Virgen(c, consola[c], entrada[c]) => Virgen(c, l, e)
  <2>1. CASE Conectar(c)
    BY <2>1 DEF Conectar, Ir, RedBien, Virgen
  <2>2. CASE Enviar(c)
    <3>1. /\ consola[c] = "conectada" /\ consola' = [consola EXCEPT ![c] = "esperando"]
          /\ entrada' = [entrada EXCEPT ![c] = entrada[c] \o Paquete(c)]
      BY <2>2 DEF Enviar, Ir, Paquete
    <3>2. l = "esperando" /\ e = entrada[c] \o Paquete(c)
      BY <3>1 DEF RedBien
    <3>3. <<>> \o Paquete(c) = Paquete(c)
      BY PaqueteSon
    <3>4. Virgen(c, consola[c], entrada[c]) => Virgen(c, l, e)
      BY <3>1, <3>2, <3>3 DEF Virgen
    <3>. QED
      BY <3>1, <3>2, <3>4 DEF RedBien
  <2>3. CASE Caer(c)
    BY <2>3 DEF Caer, Ir, RedBien, Virgen
  <2>4. CASE RecibirRespuesta(c) \/ PerderConexion(c)
    <3>1. PICK s \in {"exito", "fallo"} : consola' = [consola EXCEPT ![c] = s]
      BY <2>4 DEF RecibirRespuesta, PerderConexion, Ir
    <3>2. consola[c] = "esperando" /\ entrada' = entrada
      BY <2>4 DEF RecibirRespuesta, PerderConexion
    <3>. QED
      BY <3>1, <3>2 DEF RedBien, Virgen
  <2>. QED
    BY <2>1, <2>2, <2>3, <2>4
<1>3. \/ UNCHANGED pendientes
      \/ consola[c] = "nueva" /\ pendientes' = Append(pendientes, c)
  BY DEF Conectar, Enviar, Caer, RecibirRespuesta, PerderConexion
<1>. HIDE DEF l, e
<1>4. ASSUME NEW d \in Consola,
             \/ consola'[d] = "nueva" \/ \E i \in 1..Len(pendientes') : pendientes'[i] = d
             \/ pcMain' = "pthread_create" /\ conexion_consola' = d
      PROVE  Virgen(d, consola'[d], entrada'[d])
  <2>1. Virgen(d, consola[d], entrada[d])
    <3>1. CASE consola'[d] = "nueva"
      BY <1>2, <3>1 DEF LecturaBien, l
    <3>2. CASE \E i \in 1..Len(pendientes') : pendientes'[i] = d
      <4>1. CASE UNCHANGED pendientes
        BY <3>2, <4>1 DEF LecturaBien
      <4>2. CASE consola[c] = "nueva" /\ pendientes' = Append(pendientes, c)
        <5>1. /\ Len(pendientes) \in Nat /\ Len(pendientes') = Len(pendientes) + 1
              /\ \A i \in 1..(Len(pendientes) + 1) :
                   pendientes'[i] = IF i <= Len(pendientes) THEN pendientes[i] ELSE c
          BY <4>2, ConUnoMas DEF RedBien
        <5>2. PICK i \in 1..(Len(pendientes) + 1) : pendientes'[i] = d
          BY <3>2, <5>1
        <5>3. d = c \/ (i \in 1..Len(pendientes) /\ pendientes[i] = d)
          BY <5>1, <5>2
        <5>. QED
          BY <4>2, <5>3 DEF LecturaBien
      <4>. QED
        BY <1>3, <4>1, <4>2
    <3>3. CASE pcMain' = "pthread_create" /\ conexion_consola' = d
      BY <1>1, <3>3 DEF LecturaBien
    <3>. QED
      BY <1>4, <3>1, <3>2, <3>3
  <2>. QED
    BY <1>2, <2>1 DEF l, e
<1>5. ASSUME NEW k \in Consola, MiraElGlobal(k)
      PROVE  Leyendo(hilos[k], conexion_consola, consola'[conexion_consola],
                     entrada'[conexion_consola])
  <2>1. /\ conexion_consola \in Consola
        /\ Leyendo(hilos[k], conexion_consola, consola[conexion_consola],
                   entrada[conexion_consola])
    BY <1>5 DEF LecturaBien, MiraElGlobal, HilosBien, HiloBien
  <2>2. CASE conexion_consola = c
    <3>1. Leyendo(hilos[k], c, consola[c], entrada[c])
      BY <2>1, <2>2
    <3>2. Leyendo(hilos[k], c, l, e)
      BY <1>2, <1>5, <3>1 DEF Leyendo, MiraElGlobal
    <3>. QED
      BY <2>2, <3>2 DEF l, e
  <2>3. CASE conexion_consola # c
    BY <1>2, <2>1, <2>3
  <2>. QED
    BY <2>2, <2>3
<1>6. \A k \in Consola : MiraElGlobal(k)' <=> MiraElGlobal(k)
  BY <1>1 DEF MiraElGlobal
<1>7. (\A k \in Consola :
         MiraElGlobal(k) => Leyendo(hilos[k], conexion_consola, consola[conexion_consola],
                                    entrada[conexion_consola]))'
  BY <1>1, <1>5, <1>6
<1>8. (\A d \in Consola :
         \/ consola[d] = "nueva" \/ \E i \in 1..Len(pendientes) : pendientes[i] = d
         \/ pcMain = "pthread_create" /\ conexion_consola = d
         => Virgen(d, consola[d], entrada[d]))'
  BY <1>4
<1>. QED
  BY <1>1, <1>6, <1>7, <1>8 DEF LecturaBien, Suyo

LEMMA LecturaPaso ==
  ASSUME RedBien, HilosBien, ConexionesBien, LecturaBien, ~cruzada', [Next]_vars
  PROVE  LecturaBien'
<1>1. ASSUME NEW c \in Consola,
             Conectar(c) \/ Enviar(c) \/ Caer(c) \/ RecibirRespuesta(c) \/ PerderConexion(c)
      PROVE  LecturaBien'
  BY <1>1, LecturaConsola
<1>2. CASE Aceptar
  <2>1. /\ pendientes # <<>> /\ conexion_consola' = Head(pendientes)
        /\ pendientes' = Tail(pendientes) /\ \A k \in Consola : ~MiraElGlobal(k)
        /\ UNCHANGED <<consola, entrada, hilos>>
    BY <1>2 DEF Aceptar
  <2>2. Len(pendientes) > 0 /\ Len(pendientes) \in Nat
    <3>1. Len(pendientes) \in Nat /\ pendientes \in Seq(Consola)
      BY LenProperties DEF RedBien
    <3>. QED
      BY <2>1, <3>1, EmptySeq
  <2>3. /\ Head(pendientes) = pendientes[1] /\ Len(Tail(pendientes)) = Len(pendientes) - 1
        /\ \A i \in 1..(Len(pendientes) - 1) : Tail(pendientes)[i] = pendientes[i + 1]
    BY <2>2, ConUnoMenos DEF RedBien
  <2>4. ASSUME NEW d \in Consola,
               \/ consola'[d] = "nueva" \/ \E i \in 1..Len(pendientes') : pendientes'[i] = d
               \/ pcMain' = "pthread_create" /\ conexion_consola' = d
        PROVE  Virgen(d, consola'[d], entrada'[d])
    <3>1. consola[d] = "nueva" \/ \E i \in 1..Len(pendientes) : pendientes[i] = d
      <4>1. CASE \E i \in 1..Len(pendientes') : pendientes'[i] = d
        <5>1. PICK i \in 1..(Len(pendientes) - 1) : pendientes[i + 1] = d
          BY <2>1, <2>3, <4>1
        <5>2. i + 1 \in 1..Len(pendientes)
          BY <2>2
        <5>. QED
          BY <5>1, <5>2
      <4>2. CASE conexion_consola' = d
        <5>1. 1 \in 1..Len(pendientes)
          BY <2>2
        <5>. QED
          BY <2>1, <2>3, <4>2, <5>1
      <4>. QED
        BY <2>1, <2>4, <4>1, <4>2
    <3>. QED
      BY <2>1, <3>1 DEF LecturaBien
  <2>5. \A k \in Consola : ~MiraElGlobal(k)'
    BY <2>1 DEF MiraElGlobal
  <2>6. (\A d \in Consola :
           \/ consola[d] = "nueva" \/ \E i \in 1..Len(pendientes) : pendientes[i] = d
           \/ pcMain = "pthread_create" /\ conexion_consola = d
           => Virgen(d, consola[d], entrada[d]))'
    BY <2>4
  <2>. QED
    BY <2>1, <2>5, <2>6 DEF LecturaBien, Suyo
<1>3. CASE CrearHilo
  <2>1. /\ pcMain = "pthread_create" /\ pcMain' = "accept"
        /\ UNCHANGED <<consola, entrada, pendientes, conexion_consola>>
    BY <1>3 DEF CrearHilo, conexiones
  <2>2. PICK k \in Consola : hilos' = [hilos EXCEPT ![k] = Hilo("conexion_1")]
    BY <1>3 DEF CrearHilo
  <2>. DEFINE h == Hilo("conexion_1")
  <2>3. h.pc = "conexion_1"
    BY HiloNuevo DEF Lugares
  <2>. HIDE DEF h
  <2>4. \A j \in Consola : hilos'[j] = IF j = k THEN h ELSE hilos[j]
    BY <2>2 DEF HilosBien, h
  <2>5. \A j \in Consola : MiraElGlobal(j)' => j = k
    BY <2>1, <2>4 DEF LecturaBien, MiraElGlobal
  <2>6. conexion_consola \in Consola
    BY <2>1 DEF HilosBien
  <2>7. Leyendo(h, conexion_consola, consola[conexion_consola], entrada[conexion_consola])
    <3>1. Virgen(conexion_consola, consola[conexion_consola], entrada[conexion_consola])
      BY <2>1, <2>6 DEF LecturaBien
    <3>. QED
      BY <2>3, <3>1 DEF Leyendo
  <2>8. (\A j \in Consola :
           MiraElGlobal(j) =>
             Leyendo(hilos[j], conexion_consola, consola[conexion_consola],
                     entrada[conexion_consola]))'
    BY <2>1, <2>4, <2>5, <2>7
  <2>9. (\A j \in Consola : hilos[j].pc \in ConSocket => Suyo(hilos[j].proceso))'
    BY <2>3, <2>4 DEF LecturaBien, ConSocket, Suyo
  <2>10. (\A i, j \in Consola : MiraElGlobal(i) /\ MiraElGlobal(j) => i = j)'
    BY <2>5
  <2>11. (\A d \in Consola :
           \/ consola[d] = "nueva" \/ \E i \in 1..Len(pendientes) : pendientes[i] = d
           \/ pcMain = "pthread_create" /\ conexion_consola = d
           => Virgen(d, consola[d], entrada[d]))'
    BY <2>1 DEF LecturaBien
  <2>12. (pcMain = "pthread_create" => \A j \in Consola : ~MiraElGlobal(j))'
    BY <2>1
  <2>. QED
    BY <2>8, <2>9, <2>10, <2>11, <2>12 DEF LecturaBien
<1>4. ASSUME NEW k \in Consola, Lee(k)
      PROVE  LecturaBien'
  BY <1>4, LecturaLee
<1>5. ASSUME NEW k \in Consola, EncolarNuevo(k) \/ PostNew(k)
      PROVE  LecturaBien'
  <2>1. PICK l \in {"post", "fin"} : Pasar(k, Hilo(l))
    BY <1>5 DEF EncolarNuevo, PostNew
  <2>2. Hilo(l).pc \notin Mirando \union ConSocket
    BY HiloNuevo DEF Lugares, Mirando, ConSocket
  <2>3. UNCHANGED <<pcMain, conexion_consola, consola, pendientes, entrada>>
    BY <1>5, MarcoEncola
  <2>. QED
    BY <2>1, <2>2, <2>3, LecturaSigue
<1>6. CASE Planifica \/ RecibirFinalizado \/ UNCHANGED vars
  <2>1. UNCHANGED <<hilos, pcMain, conexion_consola, consola, pendientes, entrada>>
    BY <1>6, MarcoPlanifica, MarcoFinalizado DEF losHilos, vars, conexiones, globales
  <2>. QED
    BY <2>1, LecturaQueda
<1>. QED
  BY <1>1, <1>2, <1>3, <1>4, <1>5, <1>6, Pasos
  DEF Planifica, Cpu, CpuEjecuta, Tabla

-----------------------------------------------------------------------------
(* From the process to the answer.                                         *)

LEMMA TerminoSigue ==
  ASSUME NEW c, Termino(c), finalizados \subseteq finalizados'
  PROVE  Termino(c)'
  BY DEF Termino

LEMMA ProcesosPaso ==
  ASSUME RedBien, HilosBien, ColasBien, PasaBien, TestigoBien, CuentaBien, LecturaBien,
         ProcesosBien, [Next]_vars
  PROVE  ProcesosBien'
<1>. DEFINE Colas == new \in Seq(Suyos) /\ ready \in Seq(Suyos) /\ blocked \in Seq(Suyos)
            Envio == EnVuelo => Suyo(enviado)
            Respuestas == \A c \in Consola :
                            respuesta[c] # <<>> \/ consola[c] = "exito" => Termino(c)
<1>0. Colas /\ Envio /\ Respuestas
  BY DEF ProcesosBien
\* The queues.
<1>1. Colas'
  <2>1. CASE UNCHANGED <<new, ready, blocked>>
    BY <1>0, <2>1
  <2>2. ASSUME NEW k \in Consola, EncolarNuevo(k) PROVE Colas'
    <3>. DEFINE p == hilos[k].proceso
    <3>1. new' = Append(new, p) /\ UNCHANGED <<ready, blocked>>
      BY <2>2, MarcoEncola DEF EncolarNuevo
    <3>2. p \in PcbsBien
      <4>1. /\ p \in PcbsDeHilo /\ p.socket \in Consola /\ p.id \in Nat
            /\ p.tamanio_proceso \in Nat
        BY <2>2 DEF EncolarNuevo, En, HilosBien, HiloBien, Hilos
      <4>. QED
        BY <4>1, PcbNuevo
    <3>3. Suyo(p)
      BY <2>2 DEF EncolarNuevo, En, LecturaBien, ConSocket
    <3>. HIDE DEF p
    <3>4. Append(new, p) \in Seq(Suyos)
      <4>1. p \in Suyos
        BY <3>2, <3>3 DEF Suyos
      <4>. QED
        BY <1>0, <4>1, ConUnoMas
    <3>. QED
      BY <1>0, <3>1, <3>4
  <2>3. CASE Admitir
    <3>. DEFINE p == new[1]
    <3>1. /\ Len(new) > 0 /\ new' = Tail(new) /\ ready' = Append(ready, p)
          /\ blocked' = blocked
      BY <2>3, AdmitirHace
    <3>2. Head(new) \in Suyos /\ Head(new) = p /\ Tail(new) \in Seq(Suyos)
      BY <1>0, <3>1, ConUnoMenos
    <3>. HIDE DEF p
    <3>3. Append(ready, p) \in Seq(Suyos)
      BY <1>0, <3>2, ConUnoMas
    <3>. QED
      BY <1>0, <3>1, <3>2, <3>3
  <2>4. CASE Despachar
    <3>1. PICK k \in DOMAIN ready : ready' = RemoveAt(ready, k)
      BY <2>4 DEF Despachar
    <3>2. k \in 1..Len(ready)
      BY <1>0, <3>1, LenProperties
    <3>3. RemoveAt(ready, k) \in Seq(Suyos)
      BY <1>0, <3>2, QuitarUno
    <3>4. UNCHANGED <<new, blocked>>
      BY <2>4 DEF Despachar
    <3>. QED
      BY <1>0, <3>1, <3>3, <3>4
  <2>5. CASE RecibirBloqueado
    <3>1. PICK r \in PcbsBien :
            /\ blocked' = Append(blocked, r) /\ EnVuelo
            /\ r.socket = enviado.socket /\ r.tamanio_proceso = enviado.tamanio_proceso
            /\ r.instrucciones = enviado.instrucciones
      BY <2>5, BloqueadoHace
    <3>2. r \in Suyos
      BY <1>0, <3>1 DEF Suyos, Suyo
    <3>3. Append(blocked, r) \in Seq(Suyos)
      BY <1>0, <3>2, ConUnoMas
    <3>4. UNCHANGED <<new, ready>>
      BY <2>5 DEF RecibirBloqueado
    <3>. QED
      BY <1>0, <3>1, <3>3, <3>4
  <2>6. CASE RecibirInterrumpido
    <3>1. PICK r \in PcbsBien :
            /\ ready' = Append(ready, r) /\ EnVuelo
            /\ r.socket = enviado.socket /\ r.tamanio_proceso = enviado.tamanio_proceso
            /\ r.instrucciones = enviado.instrucciones
      BY <2>6, InterrumpidoHace
    <3>2. r \in Suyos
      BY <1>0, <3>1 DEF Suyos, Suyo
    <3>3. Append(ready, r) \in Seq(Suyos)
      BY <1>0, <3>2, ConUnoMas
    <3>4. UNCHANGED <<new, blocked>>
      BY <2>6 DEF RecibirInterrumpido
    <3>. QED
      BY <1>0, <3>1, <3>3, <3>4
  <2>7. CASE TerminarIO
    <3>1. /\ blocked # <<>> /\ ready' = Append(ready, Head(blocked))
          /\ blocked' = Tail(blocked) /\ new' = new
      BY <2>7 DEF TerminarIO, PasarAReady
    <3>2. Len(blocked) > 0
      <4>1. Len(blocked) \in Nat /\ blocked \in Seq(Suyos)
        BY <1>0, LenProperties
      <4>. QED
        BY <3>1, <4>1, EmptySeq
    <3>3. Head(blocked) \in Suyos /\ Tail(blocked) \in Seq(Suyos)
      BY <1>0, <3>2, ConUnoMenos
    <3>4. Append(ready, Head(blocked)) \in Seq(Suyos)
      BY <1>0, <3>3, ConUnoMas
    <3>. QED
      BY <1>0, <3>1, <3>3, <3>4
  <2>8. Cpu => UNCHANGED <<new, ready, blocked>>
    BY MarcoCpu
  <2>9. RecibirFinalizado \/ Main \/ UNCHANGED vars => UNCHANGED <<new, ready, blocked>>
    BY MarcoFinalizado, MarcoMain DEF lasColas, vars, colas
  <2>10. ASSUME NEW k \in Consola, Lee(k) \/ PostNew(k)
         PROVE  UNCHANGED <<new, ready, blocked>>
    BY <2>10, MarcoLee, MarcoEncola DEF lasColas, PostNew
  <2>11. ASSUME NEW c \in Consola,
                Conectar(c) \/ Enviar(c) \/ Caer(c) \/ RecibirRespuesta(c) \/ PerderConexion(c)
         PROVE  UNCHANGED <<new, ready, blocked>>
    BY <2>11, MarcoConsolas DEF lasColas
  <2>12. ASSUME NEW u \in PasanAReady, PedirTabla(u)
         PROVE  UNCHANGED <<new, ready, blocked>>
    BY <2>12 DEF PedirTabla
  <2>13. ASSUME NEW u \in PasanAReady, RecibirTabla(u) PROVE Colas'
    <3>1. ready \in Seq(PcbsBien)
      BY DEF ColasBien
    <3>2. /\ ready' \in Seq(PcbsBien) /\ Len(ready') = Len(ready) /\ Len(ready) \in Nat
          /\ \A i \in 1..Len(ready) :
               /\ i # pasa[u].lugar => ready'[i] = ready[i]
               /\ i = pasa[u].lugar =>
                    ready'[i] = [ready[i] EXCEPT !.tablas_paginas = respuestas[1]]
          /\ UNCHANGED <<new, blocked>>
      BY <2>13, <3>1, RecibirHace
    <3>3. ASSUME NEW i \in 1..Len(ready) PROVE ready'[i] \in Suyos
      <4>1. ready[i] \in Suyos /\ ready[i] \in PcbsDeCola /\ ready'[i] \in PcbsBien
        BY <1>0, <3>1, <3>2, ElementOfSeq DEF PcbsBien
      <4>2. CASE i # pasa[u].lugar
        BY <3>2, <4>1, <4>2
      <4>3. CASE i = pasa[u].lugar
        <5>. DEFINE p == ready[i]
        <5>1. ready'[i] = [p EXCEPT !.tablas_paginas = respuestas[1]]
          BY <3>2, <4>3
        <5>2. p \in PcbsDeCola /\ Suyo(p)
          BY <4>1 DEF Suyos
        <5>. HIDE DEF p
        <5>3. /\ ready'[i].instrucciones = p.instrucciones /\ ready'[i].socket = p.socket
              /\ ready'[i].tamanio_proceso = p.tamanio_proceso
          BY <5>1, <5>2 DEF PcbsDeCola
        <5>. QED
          BY <4>1, <5>2, <5>3 DEF Suyos, Suyo
      <4>. QED
        BY <4>2, <4>3
    <3>4. ready' \in Seq(Suyos)
      <4>1. \A i \in 1..Len(ready') : ready'[i] \in Suyos
        BY <3>2, <3>3
      <4>. QED
        BY <3>2, <4>1, ElementosEnSeq
    <3>. QED
      BY <1>0, <3>2, <3>4
  <2>. HIDE DEF Colas
  <2>. QED
    BY <2>1, <2>2, <2>3, <2>4, <2>5, <2>6, <2>7, <2>8, <2>9, <2>10, <2>11, <2>12,
       <2>13, Pasos DEF Cpu, CpuEjecuta, Main
\* The PCB on the dispatch socket.
<1>2. Envio'
  <2>1. CASE Despachar
    <3>1. PICK k \in DOMAIN ready : enviado' = [ready[k] EXCEPT !.inicio_rafaga = Ahora]
      BY <2>1 DEF Despachar
    <3>2. k \in 1..Len(ready)
      BY <1>0, <3>1, LenProperties
    <3>3. ready[k] \in Suyos
      BY <1>0, <3>2, ElementOfSeq
    <3>. DEFINE p == ready[k]
    <3>4. Suyo(p) /\ p \in PcbsDeCola
      BY <3>3 DEF Suyos, PcbsBien
    <3>. HIDE DEF p
    <3>5. Suyo([p EXCEPT !.inicio_rafaga = Ahora])
      BY <3>4 DEF Suyo, PcbsDeCola
    <3>. QED
      BY <3>1, <3>5 DEF p, Suyo
  <2>2. CASE ~EnVuelo'
    BY <2>2
  <2>3. CASE UNCHANGED elTestigo
    BY <1>0, <2>3 DEF elTestigo, EnVuelo, Suyo
  <2>4. CASE Cpu
    <3>1. enviado' = enviado
      BY <2>4, MarcoCpu
    <3>2. EnVuelo' => EnVuelo
      BY <2>4 DEF Cpu, CpuRecibir, CpuSigue, CpuDevuelve, CpuInterrumpe, CpuPierde,
                  HayInterrupcion, CpuAbandonar, EnVuelo
    <3>. QED
      BY <1>0, <3>1, <3>2 DEF Suyo
  <2>5. CASE RecibirBloqueado \/ RecibirInterrumpido \/ RecibirFinalizado
    <3>1. PICK op : Devuelve(op)
      BY <2>5 DEF RecibirBloqueado, RecibirInterrumpido, RecibirFinalizado
    <3>2. dispatch = <<>> /\ cpu = <<>>
      BY <3>1 DEF Devuelve, TestigoBien, Unico
    <3>. QED
      BY <2>2, <3>1, <3>2 DEF Devuelve, EnVuelo
  <2>6. ASSUME NEW u \in PasanAReady, PedirTabla(u) \/ RecibirTabla(u)
        PROVE  UNCHANGED <<dispatch, devuelto, cpu, enviado>>
    BY <2>6 DEF PedirTabla, RecibirTabla, despacho
  <2>7. CASE UNCHANGED <<dispatch, devuelto, cpu, enviado>>
    BY <1>0, <2>7 DEF EnVuelo, Suyo
  <2>8. Admitir \/ TerminarIO \/ UNCHANGED vars => UNCHANGED elTestigo
    BY DEF Admitir, TerminarIO, despacho, vars, elTestigo
  <2>9. Aceptar \/ CrearHilo => UNCHANGED elTestigo
    BY MarcoMain DEF Main
  <2>10. ASSUME NEW c \in Consola,
                Conectar(c) \/ Enviar(c) \/ Caer(c) \/ RecibirRespuesta(c) \/ PerderConexion(c)
         PROVE  UNCHANGED elTestigo
    BY <2>10, MarcoConsolas
  <2>11. ASSUME NEW k \in Consola, Lee(k) \/ EncolarNuevo(k) \/ PostNew(k)
         PROVE  UNCHANGED elTestigo
    BY <2>11, MarcoLee, MarcoEncola
  <2>. HIDE DEF Envio
  <2>. QED
    BY <2>1, <2>3, <2>4, <2>5, <2>6, <2>7, <2>8, <2>9, <2>10, <2>11, Pasos
    DEF Cpu, CpuEjecuta
\* The answers.
<1>3. Respuestas'
  <2>1. CASE UNCHANGED <<respuesta, consola>> /\ finalizados \subseteq finalizados'
    BY <1>0, <2>1, TerminoSigue
  <2>2. ASSUME NEW c \in Consola,
               Conectar(c) \/ Enviar(c) \/ Caer(c) \/ PerderConexion(c)
        PROVE  Respuestas'
    <3>1. PICK l \in {"conectada", "esperando", "caida", "fallo"} :
            consola' = [consola EXCEPT ![c] = l] /\ UNCHANGED <<respuesta, finalizados>>
      BY <2>2 DEF Conectar, Enviar, Caer, PerderConexion, Ir, SinTocarKernel
    <3>2. \A d \in Consola : consola'[d] = "exito" => consola[d] = "exito"
      BY <3>1 DEF RedBien
    <3>3. finalizados \subseteq finalizados'
      BY <3>1
    <3>. QED
      BY <1>0, <3>1, <3>2, <3>3, TerminoSigue
  <2>3. ASSUME NEW c \in Consola, RecibirRespuesta(c)
        PROVE  Respuestas'
    <3>1. PICK l \in {"exito", "fallo"} :
            /\ consola' = [consola EXCEPT ![c] = l]
            /\ respuesta' = [respuesta EXCEPT ![c] = Tail(respuesta[c])]
            /\ respuesta[c] # <<>> /\ finalizados' = finalizados
      BY <2>3 DEF RecibirRespuesta, Ir, SinTocarKernel
    <3>2. ASSUME NEW d \in Consola, respuesta'[d] # <<>> \/ consola'[d] = "exito"
          PROVE  respuesta[d] # <<>> \/ consola[d] = "exito"
      BY <3>1, <3>2 DEF RedBien
    <3>3. finalizados \subseteq finalizados'
      BY <3>1
    <3>. QED
      BY <1>0, <3>2, <3>3, TerminoSigue
  <2>4. CASE RecibirFinalizado
    <3>1. PICK p \in PcbsDeCola :
            /\ finalizados' = finalizados \union {Ejecucion(p)} /\ EnVuelo /\ Responder(p.socket)
            /\ p.program_counter \in 1..Len(p.instrucciones)
            /\ p.socket = enviado.socket /\ p.tamanio_proceso = enviado.tamanio_proceso
            /\ p.instrucciones = enviado.instrucciones
            /\ SinSalida(p, p.program_counter - 1)
            /\ Op(p.instrucciones[p.program_counter]) = SALIR
      BY <2>4, FinalizadoHace
    <3>2. consola' = consola /\ finalizados \subseteq finalizados' /\ Ejecucion(p) \in finalizados'
          /\ Ejecucion(p).tamanio_proceso = p.tamanio_proceso
          /\ Ejecucion(p).instrucciones = p.instrucciones
          /\ Ejecucion(p).program_counter = p.program_counter
      BY <2>4, <3>1, MarcoFinalizado DEF Ejecucion
    <3>3. Suyo(p)
      BY <1>0, <3>1 DEF Suyo
    <3>4. Termino(p.socket)'
      <4>1. p.program_counter \in DOMAIN p.instrucciones
        BY <3>1, LenProperties DEF PcbsDeCola
      <4>. QED
        BY <3>1, <3>2, <3>3, <4>1 DEF Termino, Suyo, SinSalida
    <3>5. ASSUME NEW c \in Consola, respuesta'[c] # <<>>
          PROVE  respuesta[c] # <<>> \/ c = p.socket
      BY <3>1, <3>5 DEF Responder, RedBien
    <3>. QED
      BY <1>0, <3>2, <3>4, <3>5, TerminoSigue
  <2>5. ASSUME NEW k \in Consola, Lee(k) \/ EncolarNuevo(k) \/ PostNew(k)
        PROVE  UNCHANGED <<respuesta, consola>> /\ finalizados \subseteq finalizados'
    BY <2>5, MarcoLee, MarcoEncola DEF lasColas
  <2>6. Aceptar \/ CrearHilo
        => UNCHANGED <<respuesta, consola>> /\ finalizados \subseteq finalizados'
    BY MarcoMain DEF Main, lasColas
  <2>7. Planifica \/ UNCHANGED vars
        => UNCHANGED <<respuesta, consola>> /\ finalizados \subseteq finalizados'
    BY MarcoPlanifica DEF vars, conexiones, historia
  <2>. HIDE DEF Respuestas
  <2>. QED
    BY <2>1, <2>2, <2>3, <2>4, <2>5, <2>6, <2>7, Pasos
  DEF Planifica, Cpu, CpuEjecuta, Tabla
<1>. QED
  BY <1>1, <1>2, <1>3 DEF ProcesosBien

-----------------------------------------------------------------------------
(* The ids.                                                                *)

LEMMA NumeroQueda ==
  ASSUME NEW n \in Nat, NumeroBien(n), UNCHANGED <<hilos, new, numero_proceso>>
  PROVE  NumeroBien(n)'
  BY DEF NumeroBien, ProximoId, EntreIdYCola

\* The first of new goes to ready.
LEMMA NumeroAdmite ==
  ASSUME NEW n \in Nat, ColasBien, CuentaBien, NumeroBien(n), Admitir
  PROVE  NumeroBien(n + 1)' /\ new[1].id = n /\ new[1].tablas_paginas = SinTabla
<1>1. /\ Len(new) > 0 /\ new' = Tail(new)
  BY AdmitirHace
<1>2. new \in Seq(PcbsBien) /\ Len(new) \in Nat
  BY LenProperties DEF ColasBien
<1>3. /\ Len(new') = Len(new) - 1
      /\ \A i \in 1..(Len(new) - 1) : new'[i] = new[i + 1]
  BY <1>1, <1>2, ConUnoMenos
<1>4. UNCHANGED <<hilos, numero_proceso>>
  BY MarcoPlanifica DEF Planifica, losHilos
<1>5. ProximoId(n + 1)' = ProximoId(n)
  <2>1. ProximoId(n + 1)' = (n + 1) + Len(new')
    BY DEF ProximoId
  <2>2. (n + 1) + Len(new') = n + Len(new)
    BY <1>2, <1>3
  <2>. QED
    BY <2>1, <2>2 DEF ProximoId
<1>6. ASSUME NEW j \in 1..Len(new')
      PROVE  new'[j].id = (n + 1) + j - 1 /\ new'[j].tablas_paginas = SinTabla
  <2>1. j + 1 \in 1..Len(new) /\ new'[j] = new[j + 1]
    BY <1>2, <1>3
  <2>2. new[j + 1].id = n + (j + 1) - 1 /\ new[j + 1].tablas_paginas = SinTabla
    BY <2>1 DEF NumeroBien
  <2>. QED
    BY <2>1, <2>2
<1>7. new[1].id = n /\ new[1].tablas_paginas = SinTabla
  <2>1. 1 \in 1..Len(new) /\ n + 1 - 1 = n
    BY <1>1, <1>2
  <2>. QED
    BY <2>1 DEF NumeroBien
<1>8. NumeroBien(n + 1)'
  BY <1>4, <1>5, <1>6 DEF NumeroBien, EntreIdYCola
<1>. QED
  BY <1>7, <1>8

\* A step of the thread k that goes on as h, far from the ids.
LEMMA NumeroSigue ==
  ASSUME NEW n \in Nat, HilosBien, NumeroBien(n), NEW k \in Consola, NEW h, Pasar(k, h),
         UNCHANGED <<new, numero_proceso>>, hilos[k].pc \notin EntreMedio,
         h.pc \notin EntreMedio
  PROVE  NumeroBien(n)'
<1>1. \A j \in Consola : hilos'[j] = IF j = k THEN h ELSE hilos[j]
  BY DEF Pasar, HilosBien
<1>2. \A j \in Consola : hilos'[j].pc \in EntreMedio => hilos'[j] = hilos[j]
  BY <1>1
<1>3. \A j \in Consola : hilos[j].pc \in EntreMedio => hilos'[j] = hilos[j]
  BY <1>1
<1>4. \A j \in Consola : EntreIdYCola(j)' => EntreIdYCola(j) /\ hilos'[j] = hilos[j]
  BY <1>2 DEF EntreIdYCola, EntreMedio
<1>5. ProximoId(n)' = ProximoId(n)
  BY DEF ProximoId
<1>6. (\E j \in Consola : hilos'[j].pc = "encolar") <=> \E j \in Consola : hilos[j].pc = "encolar"
  BY <1>2, <1>3 DEF EntreMedio
<1>7. \A j \in Consola : hilos'[j].pc = "guardar_numero" => hilos'[j] = hilos[j]
  BY <1>2 DEF EntreMedio
<1>8. (\A i, j \in Consola : EntreIdYCola(i) /\ EntreIdYCola(j) => i = j)'
  BY <1>4 DEF NumeroBien
<1>9. (\A j \in Consola : EntreIdYCola(j) => hilos[j].proceso.id = ProximoId(n))'
  BY <1>4, <1>5 DEF NumeroBien
<1>10. (\A j \in Consola : hilos[j].pc = "guardar_numero" => hilos[j].aux = ProximoId(n))'
  BY <1>5, <1>7 DEF NumeroBien
<1>11. (numero_proceso = IF \E j \in Consola : hilos[j].pc = "encolar" THEN ProximoId(n) + 1
                                                                      ELSE ProximoId(n))'
  BY <1>5, <1>6 DEF NumeroBien
<1>12. (\A j \in 1..Len(new) : new[j].id = n + j - 1 /\ new[j].tablas_paginas = SinTabla)'
  BY DEF NumeroBien
<1>. QED
  BY <1>8, <1>9, <1>10, <1>11, <1>12 DEF NumeroBien

\* A step of the one thread that is between taking its id and the queue, with the
\* id that is next; n is the next one after it.
LEMMA NumeroAvanza ==
  ASSUME NEW n \in Nat, HilosBien, NumeroBien(n), NEW k \in Consola, NEW h, Pasar(k, h),
         \A j \in Consola : EntreIdYCola(j) => j = k,
         h.pc \in EntreMedio => h.proceso.id = ProximoId(n)',
         h.pc = "guardar_numero" => h.aux = ProximoId(n)',
         numero_proceso' = IF h.pc = "encolar" THEN ProximoId(n)' + 1 ELSE ProximoId(n)',
         \A j \in 1..Len(new') :
           new'[j].id = n + j - 1 /\ new'[j].tablas_paginas = SinTabla
  PROVE  NumeroBien(n)'
<1>1. \A j \in Consola : hilos'[j] = IF j = k THEN h ELSE hilos[j]
  BY DEF Pasar, HilosBien
<1>2. \A j \in Consola : hilos'[j].pc \in EntreMedio => j = k /\ hilos'[j] = h
  BY <1>1 DEF EntreIdYCola, EntreMedio
<1>3. \A j \in Consola : EntreIdYCola(j)' => j = k /\ hilos'[j] = h /\ h.pc \in EntreMedio
  BY <1>2 DEF EntreIdYCola, EntreMedio
<1>4. (\E j \in Consola : hilos'[j].pc = "encolar") <=> h.pc = "encolar"
  BY <1>1, <1>2 DEF EntreMedio
<1>5. (\A i, j \in Consola : EntreIdYCola(i) /\ EntreIdYCola(j) => i = j)'
  BY <1>3
<1>6. (\A j \in Consola : EntreIdYCola(j) => hilos[j].proceso.id = ProximoId(n))'
  BY <1>3
<1>7. (\A j \in Consola : hilos[j].pc = "guardar_numero" => hilos[j].aux = ProximoId(n))'
  BY <1>2 DEF EntreMedio
<1>8. (numero_proceso = IF \E j \in Consola : hilos[j].pc = "encolar" THEN ProximoId(n) + 1
                                                                     ELSE ProximoId(n))'
  BY <1>4
<1>. QED
  BY <1>5, <1>6, <1>7, <1>8 DEF NumeroBien

LEMMA NumeroPaso ==
  ASSUME NEW n \in Nat, HilosBien, ColasBien, LecturaBien, NumeroBien(n), ~solapada', ~Admitir,
         [Next]_vars
  PROVE  NumeroBien(n)'
<1>0. /\ new \in Seq(PcbsBien) /\ Len(new) \in Nat /\ ProximoId(n) \in Nat
      /\ ProximoId(n) = n + Len(new)
  BY LenProperties DEF ColasBien, ProximoId
<1>1. ASSUME NEW k \in Consola, AsignarId(k) PROVE NumeroBien(n)'
  <2>. DEFINE h == hilos[k]
              r == [h EXCEPT !.pc = "leer_numero", !.proceso.id = numero_proceso]
  <2>1. /\ Pasar(k, r) /\ \A j \in Consola : ~EntreIdYCola(j)
        /\ numero_proceso' = numero_proceso
    BY <1>1 DEF AsignarId
  <2>2. new' = new /\ ProximoId(n)' = ProximoId(n)
    BY <1>1, MarcoLee DEF Lee, lasColas, ProximoId
  <2>3. numero_proceso = ProximoId(n)
    BY <2>1 DEF NumeroBien, EntreIdYCola
  <2>4. h \in Hilos
    BY DEF HilosBien
  <2>. HIDE DEF h
  <2>5. r.pc = "leer_numero" /\ r.proceso.id = ProximoId(n)
    BY <2>3, <2>4 DEF Hilos, PcbsDeHilo
  <2>. HIDE DEF r
  <2>6. \A j \in 1..Len(new') :
          new'[j].id = n + j - 1 /\ new'[j].tablas_paginas = SinTabla
    BY <2>2 DEF NumeroBien
  <2>. QED
    BY <2>1, <2>2, <2>3, <2>5, <2>6, NumeroAvanza
<1>2. ASSUME NEW k \in Consola, LeerNumero(k) PROVE NumeroBien(n)'
  <2>. DEFINE h == hilos[k]
              r == [h EXCEPT !.pc = "guardar_numero", !.aux = numero_proceso]
  <2>1. Pasar(k, r) /\ h.pc = "leer_numero" /\ numero_proceso' = numero_proceso
    BY <1>2 DEF LeerNumero, En
  <2>2. new' = new /\ ProximoId(n)' = ProximoId(n)
    BY <1>2, MarcoLee DEF Lee, lasColas, ProximoId
  <2>3. EntreIdYCola(k) /\ \A j \in Consola : EntreIdYCola(j) => j = k
    BY <2>1 DEF NumeroBien, EntreIdYCola
  <2>4. numero_proceso = ProximoId(n) /\ h.proceso.id = ProximoId(n)
    BY <2>1, <2>3 DEF NumeroBien, EntreIdYCola
  <2>5. h \in Hilos
    BY DEF HilosBien
  <2>. HIDE DEF h
  <2>6. r.pc = "guardar_numero" /\ r.proceso.id = ProximoId(n) /\ r.aux = ProximoId(n)
    BY <2>4, <2>5 DEF Hilos
  <2>. HIDE DEF r
  <2>7. \A j \in 1..Len(new') :
          new'[j].id = n + j - 1 /\ new'[j].tablas_paginas = SinTabla
    BY <2>2 DEF NumeroBien
  <2>. QED
    BY <2>1, <2>2, <2>3, <2>4, <2>6, <2>7, NumeroAvanza
<1>3. ASSUME NEW k \in Consola, GuardarNumero(k) PROVE NumeroBien(n)'
  <2>. DEFINE h == hilos[k]
              r == [h EXCEPT !.pc = "encolar", !.aux = 0]
  <2>1. h.pc = "guardar_numero" /\ numero_proceso' = h.aux + 1
    BY <1>3 DEF GuardarNumero, En
  <2>2. new' = new /\ ProximoId(n)' = ProximoId(n)
    BY <1>3, MarcoLee DEF Lee, lasColas, ProximoId
  <2>3. EntreIdYCola(k) /\ \A j \in Consola : EntreIdYCola(j) => j = k
    BY <2>1 DEF NumeroBien, EntreIdYCola
  <2>4. h.aux = ProximoId(n) /\ h.proceso.id = ProximoId(n)
    BY <2>1, <2>3 DEF NumeroBien
  <2>5. h \in Hilos
    BY DEF HilosBien
  <2>6. h.proceso.tamanio_proceso # -1
    <3>1. Suyo(h.proceso) /\ h.proceso.socket \in Consola
      BY <2>1 DEF LecturaBien, ConSocket, HilosBien, HiloBien
    <3>2. h.proceso.tamanio_proceso \in Nat
      BY <3>1, ConsolaTipo DEF Suyo
    <3>. QED
      BY <3>2
  <2>7. Pasar(k, r)
    BY <1>3, <2>6 DEF GuardarNumero
  <2>. HIDE DEF h
  <2>8. r.pc = "encolar" /\ r.proceso.id = ProximoId(n)
    BY <2>4, <2>5 DEF Hilos
  <2>. HIDE DEF r
  <2>9. \A j \in 1..Len(new') :
          new'[j].id = n + j - 1 /\ new'[j].tablas_paginas = SinTabla
    BY <2>2 DEF NumeroBien
  <2>. QED
    BY <2>1, <2>2, <2>3, <2>4, <2>7, <2>8, <2>9, NumeroAvanza
<1>4. ASSUME NEW k \in Consola, EncolarNuevo(k) PROVE NumeroBien(n)'
  <2>. DEFINE p == hilos[k].proceso
  <2>1. /\ hilos[k].pc = "encolar" /\ Pasar(k, Hilo("post")) /\ new' = Append(new, p)
        /\ numero_proceso' = numero_proceso
    BY <1>4, MarcoEncola DEF EncolarNuevo, En
  <2>2. EntreIdYCola(k) /\ \A j \in Consola : EntreIdYCola(j) => j = k
    BY <2>1 DEF NumeroBien, EntreIdYCola
  <2>3. /\ p.id = ProximoId(n) /\ numero_proceso = ProximoId(n) + 1
        /\ p.tablas_paginas = SinTabla
    <3>1. p.tablas_paginas = SinTabla
      BY DEF HilosBien, Hilos, PcbsDeHilo
    <3>. QED
      BY <2>1, <2>2, <3>1 DEF NumeroBien
  <2>4. Hilo("post").pc = "post"
    BY HiloNuevo DEF Lugares
  <2>. HIDE DEF p
  <2>5. /\ Len(new') = Len(new) + 1 /\ new'[Len(new) + 1] = p
        /\ \A j \in 1..Len(new) : new'[j] = new[j]
    BY <1>0, <2>1, AppendProperties
  <2>6. ProximoId(n)' = ProximoId(n) + 1
    BY <1>0, <2>1, <2>5 DEF ProximoId
  <2>7. ASSUME NEW j \in 1..Len(new') 
        PROVE  new'[j].id = n + j - 1 /\ new'[j].tablas_paginas = SinTabla
    <3>1. CASE j \in 1..Len(new)
      BY <2>1, <2>5, <3>1 DEF NumeroBien
    <3>2. CASE j = Len(new) + 1
      BY <1>0, <2>1, <2>3, <2>5, <3>2
    <3>. QED
      BY <1>0, <2>5, <3>1, <3>2
  <2>. QED
    BY <2>1, <2>2, <2>3, <2>4, <2>6, <2>7, NumeroAvanza DEF EntreMedio
<1>5. CASE \/ Despachar \/ RecibirBloqueado \/ RecibirInterrumpido \/ TerminarIO \/ Cpu
           \/ \E t \in PasanAReady : Tabla(t)
  <2>1. UNCHANGED <<hilos, numero_proceso>>
    BY <1>5, MarcoPlanifica DEF Planifica, losHilos
  <2>2. Cpu => new' = new
    BY MarcoCpu
  <2>3. Despachar \/ RecibirBloqueado \/ RecibirInterrumpido \/ TerminarIO => new' = new
    BY DEF Despachar, RecibirBloqueado, RecibirInterrumpido, TerminarIO
  <2>4. ASSUME NEW t \in PasanAReady, Tabla(t) PROVE new' = new
    BY <2>4 DEF Tabla, PedirTabla, RecibirTabla
  <2>5. new' = new
    BY <1>5, <2>2, <2>3, <2>4
  <2>. QED
    BY <2>1, <2>5, NumeroQueda
<1>6. ASSUME NEW k \in Consola, Lee(k), ~AsignarId(k), ~LeerNumero(k), ~GuardarNumero(k)
      PROVE  NumeroBien(n)'
  <2>1. hilos[k].pc \in Mirando /\ UNCHANGED <<new, numero_proceso>>
    <3>1. CASE \/ LeerConexion(k) \/ RecibirOperacion(k) \/ RecibirTamanio(k)
               \/ RecibirSize(k) \/ PerderBuffer(k)
      <4>1. hilos[k].pc \in Mirando /\ numero_proceso' = numero_proceso
        BY <3>1 DEF LeerConexion, RecibirOperacion, RecibirTamanio, RecibirSize,
                    PerderBuffer, En, Mirando
      <4>. QED
        BY <1>6, <4>1, MarcoLee DEF lasColas
    <3>2. CASE RecibirBuffer(k) \/ LeerSocket(k)
      <4>1. (En(k, "buffer") \/ En(k, "conexion_3")) /\ numero_proceso' = numero_proceso
        BY <3>2 DEF RecibirBuffer, LeerSocket
      <4>. QED
        BY <1>6, <4>1, MarcoLee DEF lasColas, En, Mirando
    <3>. QED
      BY <1>6, <3>1, <3>2 DEF Lee
  <2>2. CASE UNCHANGED hilos
    BY <2>1, <2>2, NumeroQueda
  <2>3. ASSUME NEW h, Pasar(k, h), h.pc \notin EntreMedio PROVE NumeroBien(n)'
    BY <2>1, <2>3, NumeroSigue DEF Mirando, EntreMedio
  <2>. QED
    BY <1>6, <2>1, <2>2, <2>3, LeeSigue
<1>7. ASSUME NEW k \in Consola, PostNew(k) PROVE NumeroBien(n)'
  <2>1. /\ hilos[k].pc = "post" /\ Pasar(k, Hilo("fin")) /\ UNCHANGED <<new, numero_proceso>>
    BY <1>7, MarcoEncola DEF PostNew, En
  <2>2. Hilo("fin").pc = "fin"
    BY HiloNuevo DEF Lugares
  <2>. QED
    BY <2>1, <2>2, NumeroSigue DEF EntreMedio
<1>8. CASE CrearHilo
  <2>1. PICK k \in Consola : hilos[k].pc = "sin_crear" /\ Pasar(k, Hilo("conexion_1"))
    BY <1>8 DEF CrearHilo, Pasar
  <2>2. UNCHANGED <<new, numero_proceso>>
    BY <1>8, MarcoMain DEF Main, lasColas
  <2>3. Hilo("conexion_1").pc = "conexion_1"
    BY HiloNuevo DEF Lugares
  <2>. QED
    BY <2>1, <2>2, <2>3, NumeroSigue DEF EntreMedio
<1>9. CASE Aceptar
  BY <1>9, NumeroQueda DEF Aceptar, colas, memoria
<1>10. ASSUME NEW c \in Consola,
              Conectar(c) \/ Enviar(c) \/ Caer(c) \/ RecibirRespuesta(c) \/ PerderConexion(c)
       PROVE  NumeroBien(n)'
  BY <1>10, MarcoConsolas, NumeroQueda DEF losHilos, lasColas
<1>11. CASE RecibirFinalizado
  BY <1>11, MarcoFinalizado, NumeroQueda DEF losHilos
<1>12. CASE UNCHANGED vars
  BY <1>12, NumeroQueda DEF vars, colas, memoria, globales
<1>. QED
  BY <1>1, <1>2, <1>3, <1>4, <1>5, <1>6, <1>7, <1>8, <1>9, <1>10, <1>11, <1>12, Pasos
  DEF Cpu, CpuEjecuta, Tabla

-----------------------------------------------------------------------------
(* Swap files.                                                             *)

LEMMA ElementosMas ==
  ASSUME NEW S, NEW q \in Seq(S), NEW e \in S
  PROVE  /\ Elementos(Append(q, e)) = Elementos(q) \union {e}
         /\ IdsDistintos(q) /\ (\A p \in Elementos(q) : p.id # e.id)
              => IdsDistintos(Append(q, e))
<1>1. /\ Len(q) \in Nat /\ Len(Append(q, e)) = Len(q) + 1
      /\ Append(q, e)[Len(q) + 1] = e
      /\ \A i \in 1..Len(q) : Append(q, e)[i] = q[i]
  BY AppendProperties, LenProperties
<1>. DEFINE r == Append(q, e)
<1>2. \A i \in 1..Len(r) : \/ i \in 1..Len(q) /\ r[i] = q[i]
                           \/ i = Len(q) + 1 /\ r[i] = e
  BY <1>1
<1>3. 1..Len(q) \subseteq 1..Len(r) /\ Len(q) + 1 \in 1..Len(r)
  BY <1>1
<1>. HIDE DEF r
<1>4. Elementos(r) = Elementos(q) \union {e}
  BY <1>1, <1>2, <1>3 DEF Elementos, r
<1>5. ASSUME IdsDistintos(q), \A p \in Elementos(q) : p.id # e.id
      PROVE  IdsDistintos(r)
  BY <1>2, <1>5 DEF IdsDistintos, Elementos
<1>. QED
  BY <1>4, <1>5 DEF r

LEMMA ElementosMenos ==
  ASSUME NEW S, NEW q \in Seq(S), NEW k \in 1..Len(q), NEW r, Len(r) = Len(q) - 1,
         \A i \in 1..(Len(q) - 1) : r[i] = IF i < k THEN q[i] ELSE q[i + 1]
  PROVE  /\ q[k] \in Elementos(q) /\ Elementos(r) \subseteq Elementos(q)
         /\ IdsDistintos(q) =>
              IdsDistintos(r) /\ \A p \in Elementos(r) : p.id # q[k].id
<1>. DEFINE l == Len(q)
            n == Len(r)
            f(i) == IF i < k THEN i ELSE i + 1
<1>1. l \in Nat /\ n = l - 1 /\ k \in 1..l
  BY LenProperties
<1>2. \A i \in 1..n : r[i] = q[f(i)]
  BY <1>1
<1>. HIDE DEF l, n
<1>3. /\ \A i \in 1..n : f(i) \in 1..l /\ f(i) # k
      /\ \A i, j \in 1..n : f(i) = f(j) => i = j
  BY <1>1
<1>. HIDE DEF f
<1>4. /\ Elementos(q) = {q[i] : i \in 1..l} /\ Elementos(r) = {r[i] : i \in 1..n}
      /\ IdsDistintos(q) <=> \A i, j \in 1..l : q[i].id = q[j].id => i = j
      /\ IdsDistintos(r) <=> \A i, j \in 1..n : r[i].id = r[j].id => i = j
  BY DEF Elementos, IdsDistintos, l, n
<1>5. q[k] \in Elementos(q) /\ Elementos(r) \subseteq Elementos(q)
  BY <1>1, <1>2, <1>3, <1>4
<1>6. ASSUME IdsDistintos(q)
      PROVE  IdsDistintos(r)
  <2>1. ASSUME NEW i \in 1..n, NEW j \in 1..n, r[i].id = r[j].id PROVE i = j
    <3>1. q[f(i)].id = q[f(j)].id
      BY <1>2, <2>1
    <3>2. f(i) = f(j)
      BY <1>3, <1>4, <1>6, <3>1
    <3>. QED
      BY <1>3, <3>2
  <2>. QED
    BY <1>4, <2>1
<1>7. ASSUME IdsDistintos(q), NEW p \in Elementos(r)
      PROVE  p.id # q[k].id
  <2>1. PICK i \in 1..n : p = q[f(i)]
    BY <1>2, <1>4
  <2>. QED
    BY <1>1, <1>3, <1>4, <1>7, <2>1
<1>. QED
  BY <1>5, <1>6, <1>7

\* The same process, with the same table.
MismaTabla(p, q) ==
  p.id = q.id /\ p.tamanio_proceso = q.tamanio_proceso /\ p.tablas_paginas = q.tablas_paginas

LEMMA TodosTipo ==
  ASSUME ColasBien, TestigoBien
  PROVE  /\ ready \in Seq(PcbsBien) /\ blocked \in Seq(PcbsBien) /\ Len(ready) \in Nat
         /\ Len(blocked) \in Nat /\ \A p \in Todos : p \in PcbsDeCola /\ p.id \in Nat
<1>1. ready \in Seq(PcbsBien) /\ blocked \in Seq(PcbsBien)
  BY DEF ColasBien
<1>2. (\A i \in 1..Len(ready) : ready[i] \in PcbsBien)
      /\ \A i \in 1..Len(blocked) : blocked[i] \in PcbsBien
  BY <1>1, ElementOfSeq
<1>3. \A p \in Todos : p \in PcbsBien
  BY <1>2 DEF Elementos, Afuera, TestigoBien, Todos
<1>4. Len(blocked) \in Nat /\ Len(ready) \in Nat
  BY <1>1, LenProperties
<1>. QED
  BY <1>1, <1>3, <1>4 DEF PcbsBien, PcbsDeCola

LEMMA SonDistintos ==
  ASSUME Distintos, NEW p \in Todos, NEW q \in Todos, p.id = q.id
  PROVE  p = q
<1>1. CASE p \in Elementos(ready) /\ q \in Elementos(ready)
  BY <1>1 DEF Distintos, IdsDistintos, Elementos
<1>2. CASE p \in Elementos(blocked) /\ q \in Elementos(blocked)
  BY <1>2 DEF Distintos, IdsDistintos, Elementos
<1>3. CASE p \in Afuera /\ q \in Afuera
  BY <1>3 DEF Afuera
<1>. QED
  BY <1>1, <1>2, <1>3 DEF Distintos, Ajenos, Todos

\* A step that takes processes from one place to another.
LEMMA SwapSigue ==
  ASSUME NEW n \in Nat, SwapBien(n), Distintos', archivos' = archivos,
         \A p \in Todos' : \E q \in Todos : MismaTabla(p, q),
         \A t \in PasanAReady : pasa'[t].pc # "fuera" =>
           \/ /\ pasa'[t].pc # "recibir_tabla"
              /\ \E q \in Todos : pasa'[t].id = q.id
                                  /\ pasa'[t].tamanio_proceso = q.tamanio_proceso
           \/ /\ pasa'[t].pc = pasa[t].pc /\ pasa'[t].id = pasa[t].id
              /\ pasa'[t].tamanio_proceso = pasa[t].tamanio_proceso
              /\ pasa'[t].lugar # 0 => pasa[t].lugar # 0
  PROVE  SwapBien(n)'
<1>1. ASSUME NEW p \in Todos'
      PROVE  p.id < n /\ (p.tablas_paginas # SinTabla => ConArchivo(p)')
  <2>1. PICK q \in Todos : MismaTabla(p, q)
    OBVIOUS
  <2>. QED
    BY <2>1 DEF SwapBien, MismaTabla, ConArchivo
<1>2. ASSUME NEW t \in PasanAReady PROVE PideBien(n, t)'
  <2>1. CASE /\ pasa'[t].pc # "recibir_tabla"
             /\ \E q \in Todos : pasa'[t].id = q.id
                                 /\ pasa'[t].tamanio_proceso = q.tamanio_proceso
    <3>1. PICK q \in Todos : pasa'[t].id = q.id /\ pasa'[t].tamanio_proceso = q.tamanio_proceso
      BY <2>1
    <3>2. q.id < n
      BY DEF SwapBien
    <3>3. ASSUME NEW p \in Todos', p.id = pasa'[t].id
          PROVE  p.tamanio_proceso = pasa'[t].tamanio_proceso
      <4>1. PICK r \in Todos : MismaTabla(p, r)
        OBVIOUS
      <4>2. r = q
        <5>1. Distintos /\ r.id = q.id
          BY <3>1, <3>3, <4>1 DEF MismaTabla, SwapBien
        <5>. QED
          BY <5>1, SonDistintos
      <4>. QED
        BY <3>1, <4>1, <4>2 DEF MismaTabla
    <3>. QED
      BY <2>1, <3>1, <3>2, <3>3 DEF PideBien
  <2>2. CASE /\ pasa'[t].pc # "fuera" /\ pasa'[t].pc = pasa[t].pc /\ pasa'[t].id = pasa[t].id
             /\ pasa'[t].tamanio_proceso = pasa[t].tamanio_proceso
             /\ pasa'[t].lugar # 0 => pasa[t].lugar # 0
    <3>1. PideBien(n, t)
      BY DEF SwapBien
    <3>2. ASSUME NEW p \in Todos', p.id = pasa'[t].id
          PROVE  p.tamanio_proceso = pasa'[t].tamanio_proceso
      <4>1. PICK r \in Todos : MismaTabla(p, r)
        OBVIOUS
      <4>. QED
        BY <2>2, <3>1, <3>2, <4>1 DEF MismaTabla, PideBien
    <3>. QED
      BY <2>2, <3>1, <3>2 DEF PideBien, ConArchivo
  <2>3. CASE pasa'[t].pc = "fuera"
    BY <2>3 DEF PideBien
  <2>. QED
    BY <2>1, <2>2, <2>3
<1>. QED
  BY <1>1, <1>2 DEF SwapBien

\* Places left alone, or one that is empty now.
LEMMA SwapQueda ==
  ASSUME NEW n \in Nat, SwapBien(n), UNCHANGED <<ready, blocked, archivos, enviado, pasa>>,
         EnVuelo' => EnVuelo
  PROVE  SwapBien(n)'
<1>1. Afuera' \subseteq Afuera
  BY DEF Afuera
<1>2. Todos' \subseteq Todos
  BY <1>1 DEF Todos
<1>3. Distintos'
  BY <1>1 DEF SwapBien, Distintos, IdsDistintos, Ajenos
<1>4. \A p \in Todos' : \E q \in Todos : MismaTabla(p, q)
  BY <1>2 DEF MismaTabla
<1>5. archivos' = archivos /\ pasa' = pasa
  OBVIOUS
<1>. QED
  BY <1>3, <1>4, <1>5, SwapSigue

\* e, which is nowhere else by then, is queued in ready by t.
LEMMA SwapEncola ==
  ASSUME NEW n \in Nat, SwapBien(n), PasaBien, ready \in Seq(PcbsBien),
         NEW t \in PasanAReady, NEW e \in PcbsBien, PasarAReady(t, e), archivos' = archivos,
         IdsDistintos(blocked'), Elementos(blocked') \subseteq Elementos(blocked),
         Afuera' \subseteq Afuera,
         \A p \in Elementos(ready) \union Elementos(blocked') \union Afuera' : p.id # e.id,
         \E q \in Todos : MismaTabla(e, q)
  PROVE  SwapBien(n)'
<1>. DEFINE R == Elementos(ready)
            B == Elementos(blocked)
<1>1. /\ ready' = Append(ready, e)
      /\ \A u \in PasanAReady : u # t => pasa'[u] = pasa[u]
      /\ e.tablas_paginas # SinTabla => pasa' = pasa
      /\ e.tablas_paginas = SinTabla =>
              pasa'[t] = [pc |-> "pedir_tabla", id |-> e.id,
                          tamanio_proceso |-> e.tamanio_proceso, lugar |-> Len(ready) + 1]
  BY PasarHace
<1>2. Elementos(ready') = R \union {e} /\ IdsDistintos(ready')
  <2>1. IdsDistintos(ready) /\ \A x \in Elementos(ready) : x.id # e.id
    BY DEF SwapBien, Distintos
  <2>. QED
    BY <1>1, <2>1, ElementosMas
<1>3. Distintos'
  <2>1. Ajenos(R, B) /\ Ajenos(R, Afuera) /\ Ajenos(B, Afuera)
    BY DEF SwapBien, Distintos
  <2>. HIDE DEF R, B
  <2>2. \A p \in R \union Elementos(blocked') \union Afuera' : p.id # e.id
    BY DEF R
  <2>3. Elementos(blocked') \subseteq B
    BY DEF B
  <2>4. /\ Ajenos(R \union {e}, Elementos(blocked')) /\ Ajenos(R \union {e}, Afuera')
        /\ Ajenos(Elementos(blocked'), Afuera')
    BY <2>1, <2>2, <2>3 DEF Ajenos
  <2>. QED
    BY <1>2, <2>4 DEF Distintos, Elementos, IdsDistintos, Ajenos
<1>4. ASSUME NEW p \in Todos' PROVE \E q \in Todos : MismaTabla(p, q)
  <2>1. Todos' = Elementos(ready') \union Elementos(blocked') \union Afuera'
    BY DEF Todos, Elementos
  <2>2. CASE p \in R \union Elementos(blocked') \union Afuera'
    <3>1. p \in Todos
      BY <2>2 DEF Todos
    <3>. QED
      BY <3>1 DEF MismaTabla
  <2>3. CASE p = e
    BY <2>3
  <2>. QED
    BY <1>2, <2>1, <2>2, <2>3
<1>5. ASSUME NEW u \in PasanAReady, pasa'[u].pc # "fuera"
      PROVE  \/ /\ pasa'[u].pc # "recibir_tabla"
                /\ \E q \in Todos : pasa'[u].id = q.id
                                    /\ pasa'[u].tamanio_proceso = q.tamanio_proceso
             \/ /\ pasa'[u].pc = pasa[u].pc /\ pasa'[u].id = pasa[u].id
                /\ pasa'[u].tamanio_proceso = pasa[u].tamanio_proceso
                /\ pasa'[u].lugar # 0 => pasa[u].lugar # 0
  <2>1. CASE u # t \/ e.tablas_paginas # SinTabla
    <3>1. pasa'[u] = pasa[u]
      BY <1>1, <2>1
    <3>. QED
      BY <3>1
  <2>2. CASE u = t /\ e.tablas_paginas = SinTabla
    <3>1. pasa'[u] = [pc |-> "pedir_tabla", id |-> e.id,
                      tamanio_proceso |-> e.tamanio_proceso, lugar |-> Len(ready) + 1]
      BY <1>1, <2>2
    <3>2. /\ pasa'[u].pc = "pedir_tabla" /\ pasa'[u].id = e.id
          /\ pasa'[u].tamanio_proceso = e.tamanio_proceso
      BY <3>1
    <3>. QED
      BY <3>2 DEF MismaTabla
  <2>. QED
    BY <2>1, <2>2
<1>. QED
  BY <1>3, <1>4, <1>5, SwapSigue

LEMMA SwapAdmite ==
  ASSUME NEW n \in Nat, ColasBien, PasaBien, TestigoBien, CuentaBien, NumeroBien(n),
         SwapBien(n), Admitir
  PROVE  SwapBien(n + 1)'
<1>. DEFINE e == new[1]
            v == [pc |-> "pedir_tabla", id |-> e.id,
                  tamanio_proceso |-> e.tamanio_proceso, lugar |-> Len(ready) + 1]
<1>1. /\ e \in PcbsBien /\ PasarAReady("ltp", e)
      /\ UNCHANGED <<blocked, archivos, elTestigo>>
  BY AdmitirHace
<1>2. e.id = n /\ e.tablas_paginas = SinTabla
  BY NumeroAdmite
<1>3. /\ ready \in Seq(PcbsBien) /\ \A p \in Todos : p.id \in Nat /\ p.id < n
      /\ "ltp" \in PasanAReady
  BY TodosTipo DEF SwapBien, PasanAReady
<1>. HIDE DEF e
<1>4. /\ ready' = Append(ready, e)
      /\ \A u \in PasanAReady : u # "ltp" => pasa'[u] = pasa[u]
      /\ pasa'["ltp"] = v
  BY <1>1, <1>2, <1>3, PasarHace
<1>5. v.pc = "pedir_tabla" /\ v.id = n /\ v.tamanio_proceso = e.tamanio_proceso
  BY <1>2
<1>. HIDE DEF v
<1>6. blocked' = blocked /\ Afuera' = Afuera /\ \A p \in Todos : p.id # n
  BY <1>1, <1>3 DEF Afuera, EnVuelo, elTestigo
<1>7. Elementos(ready') = Elementos(ready) \union {e} /\ IdsDistintos(ready')
  <2>1. IdsDistintos(ready) /\ \A x \in Elementos(ready) : x.id # e.id
    BY <1>2, <1>6 DEF SwapBien, Distintos, Todos
  <2>. QED
    BY <1>1, <1>3, <1>4, <2>1, ElementosMas
<1>8. Todos' = Todos \union {e}
  BY <1>6, <1>7 DEF Todos, Elementos
<1>9. Distintos'
  <2>. DEFINE R == Elementos(ready)
              B == Elementos(blocked)
  <2>1. Ajenos(R, B) /\ Ajenos(R, Afuera) /\ Ajenos(B, Afuera) /\ IdsDistintos(blocked)
    BY DEF SwapBien, Distintos
  <2>2. \A p \in R \union B \union Afuera : p.id # e.id
    BY <1>2, <1>6 DEF Todos
  <2>. HIDE DEF R, B
  <2>3. Ajenos(R \union {e}, B) /\ Ajenos(R \union {e}, Afuera)
    BY <2>1, <2>2 DEF Ajenos
  <2>4. Elementos(ready') = R \union {e} /\ Elementos(blocked') = B /\ IdsDistintos(blocked')
    BY <1>6, <1>7, <2>1 DEF R, B
  <2>5. /\ Ajenos(Elementos(ready'), Elementos(blocked')) /\ Ajenos(Elementos(ready'), Afuera')
        /\ Ajenos(Elementos(blocked'), Afuera')
    BY <1>6, <2>1, <2>3, <2>4
  <2>. QED
    BY <1>7, <2>4, <2>5 DEF Distintos, Elementos, IdsDistintos, Ajenos
<1>10. ASSUME NEW p \in Todos'
       PROVE  p.id < n + 1 /\ (p.tablas_paginas # SinTabla => ConArchivo(p)')
  <2>1. CASE p = e
    BY <1>2, <2>1
  <2>2. CASE p \in Todos
    BY <1>1, <1>3, <2>2 DEF SwapBien, ConArchivo
  <2>. QED
    BY <1>8, <2>1, <2>2
<1>11. ASSUME NEW t \in PasanAReady PROVE PideBien(n + 1, t)'
  <2>1. CASE t = "ltp"
    <3>1. ASSUME NEW p \in Todos', p.id = n PROVE p.tamanio_proceso = e.tamanio_proceso
      BY <1>6, <1>8, <3>1
    <3>. QED
      BY <1>4, <1>5, <2>1, <3>1 DEF PideBien
  <2>2. CASE t # "ltp"
    <3>1. pasa'[t] = pasa[t] /\ PideBien(n, t) /\ pasa[t].id \in Nat
      BY <1>4, <2>2 DEF SwapBien, PasaBien, Pasando
    <3>2. CASE pasa[t].pc # "fuera"
      <4>1. pasa[t].id < n /\ pasa[t].id < n + 1 /\ pasa[t].id # n
        BY <3>1, <3>2 DEF PideBien
      <4>2. \A p \in Todos' : p.id = pasa[t].id => p.tamanio_proceso = pasa[t].tamanio_proceso
        BY <1>2, <1>8, <3>1, <3>2, <4>1 DEF PideBien
      <4>. QED
        BY <1>1, <3>1, <3>2, <4>1, <4>2 DEF PideBien, ConArchivo
    <3>3. CASE pasa[t].pc = "fuera"
      BY <3>1, <3>3 DEF PideBien
    <3>. QED
      BY <3>2, <3>3
  <2>. QED
    BY <2>1, <2>2
<1>. QED
  BY <1>9, <1>10, <1>11 DEF SwapBien

LEMMA SwapPide ==
  ASSUME NEW n \in Nat, PasaBien, SwapBien(n), NEW t \in PasanAReady, PedirTabla(t)
  PROVE  SwapBien(n)'
<1>1. /\ pasa[t].pc = "pedir_tabla" /\ pasa'[t].pc = "recibir_tabla"
      /\ pasa'[t].id = pasa[t].id
      /\ pasa'[t].tamanio_proceso = pasa[t].tamanio_proceso
      /\ \A u \in PasanAReady : u # t => pasa'[u] = pasa[u]
      /\ archivos' = [i \in DOMAIN archivos \union {pasa[t].id} |->
                        IF i = pasa[t].id THEN pasa[t].tamanio_proceso ELSE archivos[i]]
      /\ UNCHANGED <<ready, blocked, elTestigo>>
  BY PedirHace
<1>2. Todos' = Todos /\ (Distintos <=> Distintos')
  BY <1>1 DEF Todos, Distintos, Elementos, IdsDistintos, Ajenos, Afuera, EnVuelo, elTestigo
<1>3. PideBien(n, t)
  BY DEF SwapBien
<1>4. ASSUME NEW p \in Todos, p.tablas_paginas # SinTabla PROVE ConArchivo(p)'
  <2>1. ConArchivo(p) /\ (p.id = pasa[t].id => p.tamanio_proceso = pasa[t].tamanio_proceso)
    BY <1>1, <1>3, <1>4 DEF SwapBien, PideBien
  <2>. QED
    BY <1>1, <2>1 DEF ConArchivo
<1>5. ASSUME NEW u \in PasanAReady PROVE PideBien(n, u)'
  <2>1. CASE u = t
    <3>1. ConArchivo(pasa[t])'
      BY <1>1 DEF ConArchivo
    <3>. QED
      BY <1>1, <1>2, <1>3, <2>1, <3>1 DEF PideBien
  <2>2. CASE u # t
    <3>1. pasa'[u] = pasa[u] /\ PideBien(n, u)
      BY <1>1, <2>2 DEF SwapBien
    <3>2. ASSUME pasa[u].pc = "recibir_tabla", pasa[u].lugar # 0 PROVE ConArchivo(pasa[u])'
      <4>1. LugarBien(u) /\ ConArchivo(pasa[u])
        BY <3>1, <3>2 DEF PasaBien, PideBien
      <4>2. ready[pasa[u].lugar] \in Todos /\ ready[pasa[u].lugar].id = pasa[u].id
            /\ ready[pasa[u].lugar].tamanio_proceso = pasa[u].tamanio_proceso
        BY <3>2, <4>1 DEF LugarBien, Todos, Elementos
      <4>3. pasa[u].id = pasa[t].id => pasa[u].tamanio_proceso = pasa[t].tamanio_proceso
        BY <1>1, <1>3, <4>2 DEF PideBien
      <4>. QED
        BY <1>1, <3>1, <4>1, <4>3 DEF ConArchivo
    <3>. QED
      BY <1>2, <3>1, <3>2 DEF PideBien
  <2>. QED
    BY <2>1, <2>2
<1>. QED
  BY <1>2, <1>4, <1>5 DEF SwapBien

LEMMA SwapRecibe ==
  ASSUME NEW n \in Nat, ColasBien, PasaBien, TestigoBien, SwapBien(n),
         NEW t \in PasanAReady, RecibirTabla(t)
  PROVE  SwapBien(n)'
<1>. DEFINE l == pasa[t].lugar
<1>0. ready \in Seq(PcbsBien) /\ \A p \in Todos : p \in PcbsDeCola
  BY TodosTipo
<1>1. /\ pasa[t].pc = "recibir_tabla" /\ LugarBien(t) /\ pasa'[t].pc = "fuera"
      /\ \A u \in PasanAReady : u # t => pasa'[u] = pasa[u]
      /\ UNCHANGED <<blocked, archivos, dispatch, cpu, devuelto, enviado>>
      /\ Len(ready') = Len(ready)
      /\ \A i \in 1..Len(ready) :
           /\ i # pasa[t].lugar => ready'[i] = ready[i]
           /\ i = pasa[t].lugar =>
                ready'[i] = [ready[i] EXCEPT !.tablas_paginas = respuestas[1]]
  BY <1>0, RecibirHace DEF Fuera
<1>2. \A i \in 1..Len(ready) : ready[i] \in Todos /\ ready[i] \in PcbsDeCola
  BY <1>0 DEF Todos, Elementos
<1>3. \A i \in 1..Len(ready) :
        /\ ready'[i].id = ready[i].id
        /\ ready'[i].tamanio_proceso = ready[i].tamanio_proceso
        /\ i # l => ready'[i].tablas_paginas = ready[i].tablas_paginas
  BY <1>1, <1>2 DEF PcbsDeCola
<1>4. Afuera' = Afuera /\ blocked' = blocked
  BY <1>1 DEF Afuera, EnVuelo
<1>. HIDE DEF l
<1>5. ASSUME NEW p \in Todos'
      PROVE  \E q \in Todos : /\ p.id = q.id /\ p.tamanio_proceso = q.tamanio_proceso
                              /\ \/ p.tablas_paginas = q.tablas_paginas
                                 \/ l \in 1..Len(ready) /\ q = ready[l]
  <2>1. CASE p \in Elementos(blocked) \union Afuera
    BY <2>1 DEF Todos
  <2>2. CASE p \in Elementos(ready')
    <3>1. PICK i \in 1..Len(ready) : p = ready'[i]
      BY <1>1, <2>2 DEF Elementos
    <3>. QED
      BY <1>2, <1>3, <3>1
  <2>. QED
    BY <1>4, <2>1, <2>2 DEF Todos, Elementos
<1>6. Distintos'
  <2>1. \A i, j \in 1..Len(ready') : ready'[i].id = ready'[j].id => i = j
    BY <1>1, <1>3 DEF SwapBien, Distintos, IdsDistintos
  <2>2. \A p \in Elementos(ready') : \E q \in Elementos(ready) : p.id = q.id
    BY <1>1, <1>3 DEF Elementos
  <2>3. /\ Ajenos(Elementos(ready), Elementos(blocked)) /\ IdsDistintos(blocked)
        /\ Ajenos(Elementos(ready), Afuera) /\ Ajenos(Elementos(blocked), Afuera)
    BY DEF SwapBien, Distintos
  <2>4. /\ Ajenos(Elementos(ready'), Elementos(blocked)) /\ Ajenos(Elementos(ready'), Afuera)
    <3>. DEFINE R == Elementos(ready)
                Q == Elementos(ready')
                B == Elementos(blocked)
    <3>. HIDE DEF R, Q, B
    <3>1. Ajenos(Q, B) /\ Ajenos(Q, Afuera)
      <4>1. (\A p \in Q : \E q \in R : p.id = q.id) /\ Ajenos(R, B) /\ Ajenos(R, Afuera)
        BY <2>2, <2>3 DEF R, Q, B
      <4>. QED
        BY <4>1 DEF Ajenos
    <3>. QED
      BY <3>1 DEF Q, B
  <2>. QED
    BY <1>4, <2>1, <2>3, <2>4 DEF Distintos, IdsDistintos, Ajenos, Elementos
<1>7. l \in 1..Len(ready) => ready[l].id \in DOMAIN archivos
                             /\ archivos[ready[l].id] = ready[l].tamanio_proceso
  <2>1. ASSUME l \in 1..Len(ready) PROVE ConArchivo(pasa[t])
    <3>1. l # 0
      BY <2>1
    <3>. QED
      BY <1>1, <3>1 DEF SwapBien, PideBien, l
  <2>2. ASSUME l \in 1..Len(ready)
        PROVE  ready[l].id = pasa[t].id /\ ready[l].tamanio_proceso = pasa[t].tamanio_proceso
    <3>1. l # 0
      BY <2>2
    <3>. QED
      BY <1>1, <3>1 DEF LugarBien, l
  <2>. QED
    BY <2>1, <2>2 DEF ConArchivo
<1>8. ASSUME NEW p \in Todos'
      PROVE  p.id < n /\ (p.tablas_paginas # SinTabla => ConArchivo(p)')
  <2>1. PICK q \in Todos : /\ p.id = q.id /\ p.tamanio_proceso = q.tamanio_proceso
                           /\ \/ p.tablas_paginas = q.tablas_paginas
                              \/ l \in 1..Len(ready) /\ q = ready[l]
    BY <1>5
  <2>. QED
    BY <1>1, <1>7, <2>1 DEF SwapBien, ConArchivo
<1>9. ASSUME NEW u \in PasanAReady PROVE PideBien(n, u)'
  <2>1. CASE u = t
    BY <1>1, <2>1 DEF PideBien
  <2>2. CASE u # t
    <3>1. pasa'[u] = pasa[u] /\ PideBien(n, u) /\ archivos' = archivos
      BY <1>1, <2>2 DEF SwapBien
    <3>2. ASSUME NEW p \in Todos', pasa[u].pc # "fuera", p.id = pasa[u].id
          PROVE  p.tamanio_proceso = pasa[u].tamanio_proceso
      BY <1>5, <3>1, <3>2 DEF PideBien
    <3>. QED
      BY <3>1, <3>2 DEF PideBien, ConArchivo
  <2>. QED
    BY <2>1, <2>2
<1>. QED
  BY <1>6, <1>8, <1>9 DEF SwapBien

LEMMA SwapFinaliza ==
  ASSUME NEW n \in Nat, ColasBien, PasaBien, TestigoBien, SwapBien(n), RecibirFinalizado
  PROVE  SwapBien(n)'
<1>1. PICK r \in PcbsDeCola :
        /\ EnVuelo /\ r.id = enviado.id
        /\ archivos' = [i \in DOMAIN archivos \ {r.id} |-> archivos[i]]
  BY FinalizadoHace
<1>2. Afuera' = {}
  BY DEF RecibirFinalizado, Devuelve, TestigoBien, Unico, Afuera, EnVuelo
<1>3. UNCHANGED <<ready, blocked, pasa>>
  BY MarcoFinalizado DEF losPasos
<1>4. Afuera = {enviado}
  BY <1>1 DEF Afuera
<1>5. Todos' = Elementos(ready) \union Elementos(blocked) /\ Todos' \subseteq Todos
  BY <1>2, <1>3 DEF Todos, Elementos
<1>6. \A p \in Todos' : p.id # enviado.id
  BY <1>4, <1>5 DEF SwapBien, Distintos, Ajenos
<1>7. Distintos'
  BY <1>2, <1>3 DEF SwapBien, Distintos, IdsDistintos, Ajenos, Elementos
<1>8. ASSUME NEW p \in Todos'
      PROVE  p.id < n /\ (p.tablas_paginas # SinTabla => ConArchivo(p)')
  BY <1>1, <1>5, <1>6 DEF SwapBien, ConArchivo
<1>9. ASSUME NEW t \in PasanAReady PROVE PideBien(n, t)'
  <2>1. PideBien(n, t) /\ LugarBien(t) /\ pasa' = pasa
    BY <1>3 DEF SwapBien, PasaBien
  <2>2. pasa[t].lugar # 0 => pasa[t].id # enviado.id
    <3>1. \A i \in 1..Len(ready) : ready[i].id # enviado.id
      BY <1>5, <1>6 DEF Elementos
    <3>. QED
      BY <2>1, <3>1 DEF LugarBien
  <2>. QED
    BY <1>1, <1>5, <2>1, <2>2 DEF PideBien, ConArchivo
<1>. QED
  BY <1>7, <1>8, <1>9 DEF SwapBien

LEMMA SwapDespacha ==
  ASSUME NEW n \in Nat, ColasBien, PasaBien, TestigoBien, SwapBien(n), Despachar
  PROVE  SwapBien(n)'
<1>. DEFINE R == Elementos(ready)
            B == Elementos(blocked)
<1>0. ready \in Seq(PcbsBien) /\ \A p \in Todos : p \in PcbsDeCola
  BY TodosTipo
<1>1. PICK k \in 1..Len(ready) :
        /\ ready[k] \in PcbsBien /\ ready' = RemoveAt(ready, k)
        /\ enviado' = [ready[k] EXCEPT !.inicio_rafaga = Ahora]
        /\ \A t \in PasanAReady :
             /\ pasa'[t].pc = pasa[t].pc /\ pasa'[t].id = pasa[t].id
             /\ pasa'[t].tamanio_proceso = pasa[t].tamanio_proceso
             /\ pasa'[t].lugar = SinEl(k, pasa[t].lugar)
  BY <1>0, DespacharHace
<1>2. /\ Len(ready') = Len(ready) - 1
      /\ \A i \in 1..(Len(ready) - 1) : ready'[i] = IF i < k THEN ready[i] ELSE ready[i + 1]
  BY <1>0, <1>1, QuitarUno
<1>3. /\ ready[k] \in R /\ Elementos(ready') \subseteq R
      /\ IdsDistintos(ready') /\ \A p \in Elementos(ready') : p.id # ready[k].id
  <2>1. IdsDistintos(ready)
    BY DEF SwapBien, Distintos
  <2>. QED
    BY <1>0, <1>2, <2>1, ElementosMenos
<1>4. UNCHANGED <<blocked, archivos>>
  BY DEF Despachar, memoria
<1>. DEFINE e == ready[k]
<1>5. MismaTabla(enviado', e)
  BY <1>1 DEF PcbsBien, PcbsDeCola, MismaTabla
<1>6. Afuera' \subseteq {enviado'}
  BY DEF Afuera
<1>7. Distintos'
  <2>1. Ajenos(R, B) /\ Ajenos(R, Afuera) /\ Ajenos(B, Afuera) /\ IdsDistintos(blocked)
    BY DEF SwapBien, Distintos
  <2>. HIDE DEF R, B, e
  <2>2. e \in R /\ \A p \in Elementos(ready') : p \in R /\ p.id # e.id
    BY <1>3 DEF e
  <2>3. Elementos(blocked') = B
    BY <1>4 DEF B
  <2>4. /\ Ajenos(Elementos(ready'), Elementos(blocked')) /\ Ajenos(Elementos(ready'), Afuera')
        /\ Ajenos(Elementos(blocked'), Afuera')
    BY <1>5, <1>6, <2>1, <2>2, <2>3 DEF Ajenos, MismaTabla
  <2>. QED
    BY <1>3, <1>4, <2>1, <2>4 DEF Distintos, Elementos, IdsDistintos, Ajenos
<1>8. ASSUME NEW p \in Todos' PROVE \E q \in Todos : MismaTabla(p, q)
  <2>1. Todos' \subseteq Todos \union {enviado'}
    BY <1>3, <1>4, <1>6 DEF Todos, Elementos
  <2>2. e \in Todos
    BY <1>3 DEF Todos
  <2>3. CASE p \in Todos
    BY <2>3 DEF MismaTabla
  <2>. QED
    BY <1>5, <2>1, <2>2, <2>3
<1>9. \A t \in PasanAReady : pasa'[t].lugar # 0 => pasa[t].lugar # 0
  BY <1>1 DEF SinEl
<1>. QED
  BY <1>1, <1>4, <1>7, <1>8, <1>9, SwapSigue

LEMMA SwapBloquea ==
  ASSUME NEW n \in Nat, ColasBien, PasaBien, TestigoBien, SwapBien(n), RecibirBloqueado
  PROVE  SwapBien(n)'
<1>. DEFINE R == Elementos(ready)
            B == Elementos(blocked)
<1>0. blocked \in Seq(PcbsBien)
  BY TodosTipo
<1>1. PICK r \in PcbsBien :
        /\ blocked' = Append(blocked, r) /\ EnVuelo
        /\ r.id = enviado.id /\ r.tamanio_proceso = enviado.tamanio_proceso
        /\ r.tablas_paginas = enviado.tablas_paginas
  BY BloqueadoHace
<1>2. Afuera' = {} /\ Afuera = {enviado}
  BY <1>1 DEF RecibirBloqueado, Devuelve, TestigoBien, Unico, Afuera, EnVuelo
<1>3. UNCHANGED <<ready, archivos, pasa>>
  BY DEF RecibirBloqueado, memoria
<1>4. MismaTabla(r, enviado)
  BY <1>1 DEF MismaTabla
<1>5. Ajenos(R, B) /\ Ajenos(R, {enviado}) /\ Ajenos(B, {enviado}) /\ IdsDistintos(ready)
      /\ IdsDistintos(blocked)
  BY <1>2 DEF SwapBien, Distintos
<1>6. Elementos(blocked') = B \union {r} /\ IdsDistintos(blocked')
  <2>1. \A x \in Elementos(blocked) : x.id # r.id
    BY <1>1, <1>5 DEF Ajenos
  <2>. QED
    BY <1>0, <1>1, <1>5, <2>1, ElementosMas
<1>7. Distintos'
  <2>. HIDE DEF R, B
  <2>1. Elementos(ready') = R
    BY <1>3 DEF R
  <2>2. Ajenos(R, B \union {r})
    BY <1>1, <1>5 DEF Ajenos
  <2>. QED
    BY <1>2, <1>3, <1>5, <1>6, <2>1, <2>2 DEF Distintos, Elementos, IdsDistintos, Ajenos
<1>8. ASSUME NEW p \in Todos' PROVE \E q \in Todos : MismaTabla(p, q)
  <2>1. Todos' = R \union B \union {r}
    BY <1>2, <1>3, <1>6 DEF Todos, Elementos
  <2>2. enviado \in Todos
    BY <1>2 DEF Todos
  <2>3. CASE p \in R \union B
    BY <2>3 DEF MismaTabla, Todos
  <2>. QED
    BY <1>4, <2>1, <2>2, <2>3
<1>. QED
  BY <1>3, <1>7, <1>8, SwapSigue

\* One of blocked, or the one that came back, is queued in ready.
LEMMA SwapVuelve ==
  ASSUME NEW n \in Nat, ColasBien, PasaBien, TestigoBien, SwapBien(n),
         RecibirInterrumpido \/ TerminarIO
  PROVE  SwapBien(n)'
<1>0. ready \in Seq(PcbsBien) /\ blocked \in Seq(PcbsBien) /\ Len(blocked) \in Nat
  BY TodosTipo
<1>1. CASE RecibirInterrumpido
  <2>1. PICK r \in PcbsBien :
          /\ PasarAReady("disp", r) /\ EnVuelo
          /\ r.id = enviado.id /\ r.tamanio_proceso = enviado.tamanio_proceso
          /\ r.tablas_paginas = enviado.tablas_paginas
    BY <1>1, InterrumpidoHace
  <2>2. Afuera' = {} /\ Afuera = {enviado}
    BY <1>1, <2>1 DEF RecibirInterrumpido, Devuelve, TestigoBien, Unico, Afuera, EnVuelo
  <2>3. UNCHANGED <<blocked, archivos>> /\ "disp" \in PasanAReady
    BY <1>1 DEF RecibirInterrumpido, memoria, PasanAReady
  <2>4. IdsDistintos(blocked') /\ Elementos(blocked') \subseteq Elementos(blocked)
    BY <2>3 DEF SwapBien, Distintos
  <2>5. \A p \in Elementos(ready) \union Elementos(blocked') \union Afuera' : p.id # r.id
    BY <2>1, <2>2, <2>3 DEF SwapBien, Distintos, Ajenos
  <2>6. \E q \in Todos : MismaTabla(r, q)
    BY <2>1, <2>2 DEF Todos, MismaTabla
  <2>7. archivos' = archivos /\ Afuera' \subseteq Afuera
    BY <2>2, <2>3
  <2>. QED
    BY <1>0, <2>1, <2>3, <2>4, <2>5, <2>6, <2>7, SwapEncola
<1>2. CASE TerminarIO
  <2>1. /\ blocked # <<>> /\ PasarAReady("io", Head(blocked)) /\ blocked' = Tail(blocked)
        /\ archivos' = archivos /\ Afuera' = Afuera /\ "io" \in PasanAReady
    BY <1>2 DEF TerminarIO, memoria, despacho, Afuera, EnVuelo, PasanAReady
  <2>2. Len(blocked) > 0
    BY <1>0, <2>1, EmptySeq
  <2>. DEFINE e == blocked[1]
  <2>3. /\ Head(blocked) = e /\ e \in PcbsBien /\ Len(Tail(blocked)) = Len(blocked) - 1
        /\ \A i \in 1..(Len(blocked) - 1) : Tail(blocked)[i] = blocked[i + 1]
    BY <1>0, <2>2, ConUnoMenos
  <2>4. /\ e \in Elementos(blocked) /\ Elementos(blocked') \subseteq Elementos(blocked)
        /\ IdsDistintos(blocked') /\ \A p \in Elementos(blocked') : p.id # e.id
    <3>1. 1 \in 1..Len(blocked) /\ Len(blocked') = Len(blocked) - 1
      BY <1>0, <2>1, <2>2, <2>3
    <3>2. \A i \in 1..(Len(blocked) - 1) :
            blocked'[i] = IF i < 1 THEN blocked[i] ELSE blocked[i + 1]
      BY <1>0, <2>1, <2>3
    <3>3. IdsDistintos(blocked)
      BY DEF SwapBien, Distintos
    <3>. QED
      BY <1>0, <3>1, <3>2, <3>3, ElementosMenos
  <2>. HIDE DEF e
  <2>5. \A p \in Elementos(ready) \union Elementos(blocked') \union Afuera' : p.id # e.id
    BY <2>1, <2>4 DEF SwapBien, Distintos, Ajenos
  <2>6. \E q \in Todos : MismaTabla(e, q)
    BY <2>4 DEF Todos, MismaTabla
  <2>7. PasarAReady("io", e) /\ archivos' = archivos /\ Afuera' \subseteq Afuera
    BY <2>1, <2>3
  <2>. QED
    BY <1>0, <2>1, <2>3, <2>4, <2>5, <2>6, <2>7, SwapEncola
<1>. QED
  BY <1>1, <1>2

LEMMA SwapPaso ==
  ASSUME NEW n \in Nat, ColasBien, PasaBien, TestigoBien, SwapBien(n), ~Admitir, [Next]_vars
  PROVE  SwapBien(n)'
<1>. DEFINE Q == UNCHANGED <<ready, blocked, archivos, enviado, pasa>> /\ (EnVuelo' => EnVuelo)
<1>1. CpuRecibir \/ CpuEjecuta \/ CpuAbandonar => Q
  <2>1. CpuRecibir \/ CpuEjecuta \/ CpuAbandonar
        => UNCHANGED <<ready, blocked, archivos, enviado, pasa>>
    BY MarcoCpu DEF Cpu, CpuEjecuta
  <2>2. CpuRecibir \/ CpuEjecuta \/ CpuAbandonar => EnVuelo
    BY DEF CpuRecibir, CpuEjecuta, CpuSigue, CpuDevuelve, CpuInterrumpe, CpuPierde,
           HayInterrupcion, CpuAbandonar, EnVuelo
  <2>. QED
    BY <2>1, <2>2
<1>2. UNCHANGED <<lasColas, losPasos, elTestigo>> => Q
  BY DEF lasColas, losPasos, elTestigo, EnVuelo
<1>3. UNCHANGED vars => Q
  BY <1>2 DEF vars, colas, memoria, despacho, historia, lasColas, losPasos, elTestigo
<1>4. Aceptar \/ CrearHilo => Q
  BY <1>2, MarcoMain DEF Main
<1>5. ASSUME NEW c \in Consola,
             Conectar(c) \/ Enviar(c) \/ Caer(c) \/ RecibirRespuesta(c) \/ PerderConexion(c)
      PROVE  Q
  BY <1>2, <1>5, MarcoConsolas
<1>6. ASSUME NEW k \in Consola, Lee(k) PROVE Q
  BY <1>2, <1>6, MarcoLee
<1>7. ASSUME NEW k \in Consola, EncolarNuevo(k) \/ PostNew(k) PROVE Q
  BY <1>7, MarcoEncola DEF elTestigo, losPasos, EnVuelo
<1>8. Q => SwapBien(n)'
  BY SwapQueda
<1>. HIDE DEF Q
<1>. QED
  BY <1>1, <1>3, <1>4, <1>5, <1>6, <1>7, <1>8, SwapDespacha, SwapBloquea, SwapVuelve,
     SwapPide, SwapRecibe, SwapFinaliza, Pasos

-----------------------------------------------------------------------------
(* The order of the numbers.                                               *)

ConNumero(p) == p.tablas_paginas # SinTabla /\ p.id = p.tablas_paginas

\* A step that asks for no number and takes processes from one place to another.
LEMMA OrdenSigue ==
  ASSUME NEW n \in Nat, OrdenBien(n), UNCHANGED <<tablas, respuestas>>,
         \A t \in PasanAReady : pasa'[t].pc = pasa[t].pc /\ pasa'[t].id = pasa[t].id,
         \A p \in Elementos(blocked') \union Afuera' : ConNumero(p),
         \A i \in 1..Len(ready') :
           \/ ConNumero(ready'[i])
           \/ /\ ready'[i].tablas_paginas = SinTabla
              /\ pasa["ltp"].pc # "fuera" /\ pasa'["ltp"].lugar = i
  PROVE  OrdenBien(n)'
<1>1. "ltp" \in PasanAReady /\ "io" \in PasanAReady /\ "disp" \in PasanAReady
  BY DEF PasanAReady
<1>2. \A p \in Todos' : p.tablas_paginas # SinTabla => p.id = p.tablas_paginas
  BY DEF Todos, Elementos, ConNumero
<1>3. \A p \in Elementos(blocked') \union Afuera' : p.tablas_paginas # SinTabla
  BY DEF ConNumero
<1>4. \A i \in 1..Len(ready') :
        ready'[i].tablas_paginas = SinTabla
        => pasa'["ltp"].pc # "fuera" /\ pasa'["ltp"].lugar = i
  BY <1>1 DEF ConNumero
<1>. QED
  BY <1>1, <1>2, <1>3, <1>4 DEF OrdenBien, Elementos

\* Where the processes are that have their numbers.
LEMMA OrdenDonde ==
  ASSUME NEW n \in Nat, OrdenBien(n)
  PROVE  /\ \A p \in Elementos(blocked) \union Afuera : ConNumero(p)
         /\ \A i \in 1..Len(ready) :
              \/ ConNumero(ready[i])
              \/ /\ ready[i].tablas_paginas = SinTabla
                 /\ pasa["ltp"].pc # "fuera" /\ pasa["ltp"].lugar = i
<1>1. \A p \in Elementos(blocked) \union Afuera : p \in Todos
  BY DEF Todos
<1>2. \A i \in 1..Len(ready) : ready[i] \in Todos
  BY DEF Todos, Elementos
<1>. QED
  BY <1>1, <1>2 DEF OrdenBien, ConNumero

LEMMA OrdenQueda ==
  ASSUME NEW n \in Nat, OrdenBien(n),
         UNCHANGED <<ready, blocked, pasa, tablas, respuestas>>, Afuera' \subseteq Afuera
  PROVE  OrdenBien(n)'
<1>1. \A p \in Elementos(blocked') \union Afuera' : ConNumero(p)
  BY OrdenDonde
<1>2. \A i \in 1..Len(ready') :
        \/ ConNumero(ready'[i])
        \/ /\ ready'[i].tablas_paginas = SinTabla
           /\ pasa["ltp"].pc # "fuera" /\ pasa'["ltp"].lugar = i
  BY OrdenDonde
<1>. QED
  BY <1>1, <1>2, OrdenSigue

\* A process that has its number is queued in ready.
LEMMA OrdenEncola ==
  ASSUME NEW n \in Nat, OrdenBien(n), PasaBien, ready \in Seq(PcbsBien),
         NEW t \in PasanAReady, NEW e \in PcbsBien, PasarAReady(t, e), ConNumero(e),
         UNCHANGED <<tablas, respuestas>>, Elementos(blocked') \subseteq Elementos(blocked),
         Afuera' \subseteq Afuera
  PROVE  OrdenBien(n)'
<1>1. ready' = Append(ready, e) /\ pasa' = pasa
  BY PasarHace DEF ConNumero
<1>2. /\ Len(ready) \in Nat /\ Len(Append(ready, e)) = Len(ready) + 1
      /\ \A i \in 1..(Len(ready) + 1) :
           Append(ready, e)[i] = IF i <= Len(ready) THEN ready[i] ELSE e
  BY ConUnoMas
<1>3. ASSUME NEW i \in 1..Len(ready')
      PROVE  ready'[i] = e \/ (i \in 1..Len(ready) /\ ready'[i] = ready[i])
  <2>1. Len(ready') = Len(ready) + 1
    BY <1>1, <1>2
  <2>2. i \in 1..(Len(ready) + 1) /\ (i <= Len(ready) => i \in 1..Len(ready))
    BY <1>2, <2>1
  <2>3. ready'[i] = IF i <= Len(ready) THEN ready[i] ELSE e
    BY <1>1, <1>2, <2>2
  <2>. QED
    BY <2>2, <2>3
<1>4. \A i \in 1..Len(ready') :
        \/ ConNumero(ready'[i])
        \/ /\ ready'[i].tablas_paginas = SinTabla
           /\ pasa["ltp"].pc # "fuera" /\ pasa'["ltp"].lugar = i
  BY <1>1, <1>3, OrdenDonde
<1>5. \A p \in Elementos(blocked') \union Afuera' : ConNumero(p)
  BY OrdenDonde
<1>. QED
  BY <1>1, <1>4, <1>5, OrdenSigue

LEMMA OrdenDespacha ==
  ASSUME NEW n \in Nat, OrdenBien(n), ColasBien, PasaBien, ~apurado', Despachar
  PROVE  OrdenBien(n)'
<1>0. ready \in Seq(PcbsBien) /\ Len(ready) \in Nat /\ "ltp" \in PasanAReady
  BY LenProperties DEF ColasBien, PasanAReady
<1>1. PICK k \in 1..Len(ready) :
        /\ ready[k] \in PcbsBien /\ ready' = RemoveAt(ready, k)
        /\ enviado' = [ready[k] EXCEPT !.inicio_rafaga = Ahora]
        /\ apurado' = (apurado \/ ready[k].tablas_paginas = SinTabla)
        /\ \A t \in PasanAReady :
             /\ pasa'[t].pc = pasa[t].pc /\ pasa'[t].id = pasa[t].id
             /\ pasa'[t].lugar = SinEl(k, pasa[t].lugar)
  BY <1>0, DespacharHace
<1>2. /\ Len(ready') = Len(ready) - 1
      /\ \A i \in 1..(Len(ready) - 1) : ready'[i] = IF i < k THEN ready[i] ELSE ready[i + 1]
  BY <1>0, <1>1, QuitarUno
<1>3. UNCHANGED <<blocked, tablas, respuestas>>
  BY DEF Despachar, memoria
<1>4. ConNumero(ready[k])
  BY <1>1, OrdenDonde
<1>5. ConNumero(enviado')
  BY <1>1, <1>4 DEF PcbsBien, PcbsDeCola, ConNumero
<1>6. \A p \in Elementos(blocked') \union Afuera' : ConNumero(p)
  <2>1. Afuera' \subseteq {enviado'}
    BY DEF Afuera
  <2>. QED
    BY <1>3, <1>5, <2>1, OrdenDonde
<1>7. ASSUME NEW i \in 1..Len(ready')
      PROVE  \/ ConNumero(ready'[i])
             \/ /\ ready'[i].tablas_paginas = SinTabla
                /\ pasa["ltp"].pc # "fuera" /\ pasa'["ltp"].lugar = i
  <2>. DEFINE j == IF i < k THEN i ELSE i + 1
  <2>1. j \in 1..Len(ready) /\ ready'[i] = ready[j] /\ SinEl(k, j) = i
    BY <1>0, <1>2 DEF SinEl
  <2>. HIDE DEF j
  <2>2. \/ ConNumero(ready[j])
        \/ /\ ready[j].tablas_paginas = SinTabla
           /\ pasa["ltp"].pc # "fuera" /\ pasa["ltp"].lugar = j
    BY <2>1, OrdenDonde
  <2>3. pasa'["ltp"].lugar = SinEl(k, pasa["ltp"].lugar)
    BY <1>0, <1>1
  <2>. QED
    BY <2>1, <2>2, <2>3
<1>. QED
  BY <1>1, <1>3, <1>6, <1>7, OrdenSigue

\* The process admitted asks for the next number ...
LEMMA OrdenAdmite ==
  ASSUME NEW n \in Nat, ColasBien, PasaBien, TestigoBien, CuentaBien, NumeroBien(n),
         OrdenBien(n), Admitir
  PROVE  OrdenBien(n + 1)'
<1>. DEFINE e == new[1]
            v == [pc |-> "pedir_tabla", id |-> e.id,
                  tamanio_proceso |-> e.tamanio_proceso, lugar |-> Len(ready) + 1]
<1>1. /\ e \in PcbsBien /\ PasarAReady("ltp", e)
      /\ UNCHANGED <<blocked, tablas, respuestas, elTestigo>>
  BY AdmitirHace
<1>2. e.id = n /\ e.tablas_paginas = SinTabla
  BY NumeroAdmite
<1>3. ready \in Seq(PcbsBien) /\ {"ltp", "io", "disp"} \subseteq PasanAReady
  BY DEF ColasBien, PasanAReady
<1>. HIDE DEF e
<1>4. /\ ready' = Append(ready, e) /\ pasa["ltp"].pc = "fuera"
      /\ \A u \in PasanAReady : u # "ltp" => pasa'[u] = pasa[u]
      /\ pasa'["ltp"] = v
  BY <1>1, <1>2, <1>3, PasarHace
<1>5. v.pc = "pedir_tabla" /\ v.id = n /\ v.lugar = Len(ready) + 1
  BY <1>2
<1>. HIDE DEF v
<1>6. /\ Len(ready) \in Nat /\ Len(ready') = Len(ready) + 1
      /\ \A i \in 1..(Len(ready) + 1) :
           ready'[i] = IF i <= Len(ready) THEN ready[i] ELSE e
  <2>1. /\ Len(ready) \in Nat /\ Len(Append(ready, e)) = Len(ready) + 1
        /\ \A i \in 1..(Len(ready) + 1) :
             Append(ready, e)[i] = IF i <= Len(ready) THEN ready[i] ELSE e
    BY <1>1, <1>3, ConUnoMas
  <2>. QED
    BY <1>4, <2>1
<1>7. \A i \in 1..Len(ready') :
        \/ ConNumero(ready'[i])
        \/ ready'[i].tablas_paginas = SinTabla /\ i = Len(ready) + 1
  <2>1. \A i \in 1..Len(ready') :
          \/ i \in 1..Len(ready) /\ ready'[i] = ready[i]
          \/ i = Len(ready) + 1 /\ ready'[i] = e
    BY <1>6
  <2>2. \A i \in 1..Len(ready) : ConNumero(ready[i])
    BY <1>4, OrdenDonde
  <2>. QED
    BY <1>2, <2>1, <2>2
<1>8. \A p \in Elementos(blocked') \union Afuera' : ConNumero(p)
  <2>1. blocked' = blocked /\ Afuera' = Afuera
    BY <1>1 DEF Afuera, EnVuelo, elTestigo
  <2>. QED
    BY <2>1, OrdenDonde
<1>9. /\ \A p \in Todos' : p.tablas_paginas # SinTabla => p.id = p.tablas_paginas
      /\ \A p \in Elementos(blocked') \union Afuera' : p.tablas_paginas # SinTabla
      /\ \A i \in 1..Len(ready') :
           ready'[i].tablas_paginas = SinTabla
           => pasa'["ltp"].pc # "fuera" /\ pasa'["ltp"].lugar = i
  <2>1. \A p \in Todos' : p.tablas_paginas # SinTabla => p.id = p.tablas_paginas
    BY <1>7, <1>8 DEF Todos, Elementos, ConNumero
  <2>2. \A p \in Elementos(blocked') \union Afuera' : p.tablas_paginas # SinTabla
    BY <1>8 DEF ConNumero
  <2>3. \A i \in 1..Len(ready') :
          ready'[i].tablas_paginas = SinTabla
          => pasa'["ltp"].pc # "fuera" /\ pasa'["ltp"].lugar = i
    BY <1>4, <1>5, <1>7 DEF ConNumero
  <2>. QED
    BY <2>1, <2>2, <2>3
<1>10. /\ pasa'["io"].pc = "fuera" /\ pasa'["disp"].pc = "fuera"
       /\ pasa'["ltp"].pc = "pedir_tabla" /\ pasa'["ltp"].id = tablas'
       /\ n + 1 = tablas' + 1 /\ respuestas' = <<>>
  BY <1>1, <1>3, <1>4, <1>5 DEF OrdenBien
<1>. QED
  BY <1>9, <1>10 DEF OrdenBien, Elementos

\* ... and gets it.
LEMMA OrdenPide ==
  ASSUME NEW n \in Nat, PasaBien, ColasBien, OrdenBien(n), NEW t \in PasanAReady, PedirTabla(t)
  PROVE  OrdenBien(n)'
<1>1. /\ pasa[t].pc = "pedir_tabla" /\ pasa'[t].pc = "recibir_tabla"
      /\ pasa'[t].id = pasa[t].id /\ pasa'[t].lugar = pasa[t].lugar
      /\ \A u \in PasanAReady : u # t => pasa'[u] = pasa[u]
      /\ tablas' = tablas + 1 /\ respuestas' = Append(respuestas, tablas)
      /\ UNCHANGED <<ready, blocked, elTestigo>>
  BY PedirHace
<1>2. {"ltp", "io", "disp"} \subseteq PasanAReady /\ tablas \in Nat
  BY DEF PasanAReady, ColasBien
<1>3. t = "ltp"
  BY <1>1, <1>2 DEF OrdenBien, PasanAReady
<1>4. /\ pasa["ltp"].id = tablas /\ n = tablas + 1 /\ respuestas = <<>>
      /\ pasa["io"].pc = "fuera" /\ pasa["disp"].pc = "fuera"
  BY <1>1, <1>3 DEF OrdenBien
<1>5. respuestas' = <<pasa'["ltp"].id>>
  <2>1. Append(<<>>, tablas) = <<tablas>>
    OBVIOUS
  <2>. QED
    BY <1>1, <1>3, <1>4, <2>1
<1>6. Todos' = Todos /\ Afuera' = Afuera
  BY <1>1 DEF Todos, Elementos, Afuera, EnVuelo, elTestigo
<1>7. /\ \A p \in Todos' : p.tablas_paginas # SinTabla => p.id = p.tablas_paginas
      /\ \A p \in Elementos(blocked') \union Afuera' : p.tablas_paginas # SinTabla
  BY <1>1, <1>6 DEF OrdenBien
<1>8. \A i \in 1..Len(ready') :
        ready'[i].tablas_paginas = SinTabla
        => pasa'["ltp"].pc # "fuera" /\ pasa'["ltp"].lugar = i
  BY <1>1, <1>3 DEF OrdenBien
<1>9. /\ pasa'["io"].pc = "fuera" /\ pasa'["disp"].pc = "fuera"
      /\ pasa'["ltp"].pc = "recibir_tabla" /\ n = tablas'
  BY <1>1, <1>2, <1>3, <1>4
<1>. QED
  BY <1>5, <1>7, <1>8, <1>9 DEF OrdenBien, Elementos

LEMMA OrdenRecibe ==
  ASSUME NEW n \in Nat, PasaBien, ColasBien, OrdenBien(n), NEW t \in PasanAReady,
         RecibirTabla(t)
  PROVE  OrdenBien(n)'
<1>1. /\ pasa[t].pc = "recibir_tabla" /\ LugarBien(t) /\ pasa'[t].pc = "fuera"
      /\ respuestas[1] \in Nat /\ respuestas' = Tail(respuestas)
      /\ \A u \in PasanAReady : u # t => pasa'[u] = pasa[u]
      /\ UNCHANGED <<blocked, tablas, dispatch, cpu, devuelto, enviado>>
      /\ Len(ready') = Len(ready) /\ Len(ready) \in Nat
      /\ \A i \in 1..Len(ready) :
           /\ i # pasa[t].lugar => ready'[i] = ready[i]
           /\ i = pasa[t].lugar =>
                ready'[i] = [ready[i] EXCEPT !.tablas_paginas = respuestas[1]]
  <2>1. ready \in Seq(PcbsBien)
    BY DEF ColasBien
  <2>. QED
    BY <2>1, RecibirHace DEF Fuera
<1>2. {"ltp", "io", "disp"} \subseteq PasanAReady
  BY DEF PasanAReady
<1>3. t = "ltp"
  BY <1>1, <1>2 DEF OrdenBien, PasanAReady
<1>4. /\ n = tablas /\ respuestas = <<pasa["ltp"].id>>
      /\ pasa["io"].pc = "fuera" /\ pasa["disp"].pc = "fuera"
  BY <1>1, <1>3 DEF OrdenBien
<1>5. respuestas[1] = pasa["ltp"].id /\ respuestas' = <<>>
  <2>1. \A x : <<x>>[1] = x /\ Tail(<<x>>) = <<>>
    OBVIOUS
  <2>. QED
    BY <1>1, <1>4, <2>1
<1>6. \A i \in 1..Len(ready') : ConNumero(ready'[i])
  <2>1. ASSUME NEW i \in 1..Len(ready), i # pasa[t].lugar PROVE ConNumero(ready'[i])
    BY <1>1, <1>3, <2>1, OrdenDonde
  <2>2. ASSUME NEW i \in 1..Len(ready), i = pasa[t].lugar PROVE ConNumero(ready'[i])
    <3>1. ready[i].id = respuestas[1] /\ ready[i] \in PcbsDeCola
      <4>1. ready[i].id = pasa[t].id
        BY <1>1, <2>2 DEF LugarBien
      <4>2. ready[i] \in PcbsBien
        BY ElementOfSeq DEF ColasBien
      <4>. QED
        BY <1>3, <1>5, <4>1, <4>2 DEF PcbsBien
    <3>2. ready'[i] = [ready[i] EXCEPT !.tablas_paginas = respuestas[1]]
      BY <1>1, <2>2
    <3>3. ready'[i].id = respuestas[1] /\ ready'[i].tablas_paginas = respuestas[1]
      BY <3>1, <3>2 DEF PcbsDeCola
    <3>. QED
      BY <1>1, <3>3 DEF ConNumero, SinTabla
  <2>. QED
    BY <1>1, <2>1, <2>2
<1>7. \A p \in Elementos(blocked') \union Afuera' : ConNumero(p)
  <2>1. blocked' = blocked /\ Afuera' = Afuera
    BY <1>1 DEF Afuera, EnVuelo
  <2>. QED
    BY <2>1, OrdenDonde
<1>8. \A p \in Todos' : ConNumero(p)
  BY <1>6, <1>7 DEF Todos, Elementos
<1>9. pasa'["io"].pc = "fuera" /\ pasa'["disp"].pc = "fuera" /\ pasa'["ltp"].pc = "fuera"
  BY <1>1, <1>2, <1>3, <1>4
<1>. QED
  BY <1>1, <1>4, <1>5, <1>6, <1>7, <1>8, <1>9 DEF OrdenBien, Elementos, ConNumero

LEMMA OrdenVuelve ==
  ASSUME NEW n \in Nat, OrdenBien(n), ColasBien, PasaBien, TestigoBien,
         RecibirBloqueado \/ RecibirInterrumpido \/ TerminarIO
  PROVE  OrdenBien(n)'
<1>0. ready \in Seq(PcbsBien) /\ blocked \in Seq(PcbsBien) /\ Len(blocked) \in Nat
  BY LenProperties DEF ColasBien
<1>1. CASE RecibirInterrumpido
  <2>1. PICK r \in PcbsBien :
          /\ PasarAReady("disp", r) /\ EnVuelo
          /\ r.id = enviado.id /\ r.tablas_paginas = enviado.tablas_paginas
    BY <1>1, InterrumpidoHace
  <2>2. Afuera' = {} /\ Afuera = {enviado}
    BY <1>1, <2>1 DEF RecibirInterrumpido, Devuelve, TestigoBien, Unico, Afuera, EnVuelo
  <2>3. UNCHANGED <<blocked, tablas, respuestas>> /\ "disp" \in PasanAReady
    BY <1>1 DEF RecibirInterrumpido, memoria, PasanAReady
  <2>4. ConNumero(r)
    BY <2>1, <2>2, OrdenDonde DEF ConNumero
  <2>5. Elementos(blocked') \subseteq Elementos(blocked) /\ Afuera' \subseteq Afuera
    BY <2>2, <2>3
  <2>. QED
    BY <1>0, <2>1, <2>3, <2>4, <2>5, OrdenEncola
<1>2. CASE TerminarIO
  <2>1. /\ blocked # <<>> /\ PasarAReady("io", Head(blocked)) /\ blocked' = Tail(blocked)
        /\ UNCHANGED <<tablas, respuestas>> /\ Afuera' = Afuera /\ "io" \in PasanAReady
    BY <1>2 DEF TerminarIO, memoria, despacho, Afuera, EnVuelo, PasanAReady
  <2>2. Len(blocked) > 0
    BY <1>0, <2>1, EmptySeq
  <2>3. /\ Head(blocked) = blocked[1] /\ Head(blocked) \in PcbsBien
        /\ Len(Tail(blocked)) = Len(blocked) - 1
        /\ \A i \in 1..(Len(blocked) - 1) : Tail(blocked)[i] = blocked[i + 1]
    BY <1>0, <2>2, ConUnoMenos
  <2>4. /\ Head(blocked) \in Elementos(blocked) /\ Elementos(blocked') \subseteq Elementos(blocked)
    <3>1. 1 \in 1..Len(blocked) /\ Len(blocked') = Len(blocked) - 1
      BY <1>0, <2>1, <2>2, <2>3
    <3>2. \A i \in 1..(Len(blocked) - 1) :
            blocked'[i] = IF i < 1 THEN blocked[i] ELSE blocked[i + 1]
      BY <1>0, <2>1, <2>3
    <3>. QED
      BY <1>0, <2>3, <3>1, <3>2, ElementosMenos
  <2>5. ConNumero(Head(blocked))
    BY <2>4, OrdenDonde
  <2>6. UNCHANGED <<tablas, respuestas>> /\ Afuera' \subseteq Afuera
    BY <2>1
  <2>. QED
    BY <1>0, <2>1, <2>3, <2>4, <2>5, <2>6, OrdenEncola
<1>3. CASE RecibirBloqueado
  <2>1. PICK r \in PcbsBien :
          /\ blocked' = Append(blocked, r) /\ EnVuelo
          /\ r.id = enviado.id /\ r.tablas_paginas = enviado.tablas_paginas
    BY <1>3, BloqueadoHace
  <2>2. Afuera' = {} /\ Afuera = {enviado}
    BY <1>3, <2>1 DEF RecibirBloqueado, Devuelve, TestigoBien, Unico, Afuera, EnVuelo
  <2>3. UNCHANGED <<ready, pasa, tablas, respuestas>>
    BY <1>3 DEF RecibirBloqueado, memoria
  <2>4. Elementos(blocked') = Elementos(blocked) \union {r}
    BY <1>0, <2>1, ElementosMas
  <2>5. \A p \in Elementos(blocked') \union Afuera' : ConNumero(p)
    <3>1. ConNumero(r)
      BY <2>1, <2>2, OrdenDonde DEF ConNumero
    <3>. QED
      BY <2>2, <2>4, <3>1, OrdenDonde
  <2>6. \A i \in 1..Len(ready') :
          \/ ConNumero(ready'[i])
          \/ /\ ready'[i].tablas_paginas = SinTabla
             /\ pasa["ltp"].pc # "fuera" /\ pasa'["ltp"].lugar = i
    BY <2>3, OrdenDonde
  <2>. QED
    BY <2>3, <2>5, <2>6, OrdenSigue
<1>. QED
  BY <1>1, <1>2, <1>3

LEMMA OrdenPaso ==
  ASSUME NEW n \in Nat, OrdenBien(n), ColasBien, PasaBien, TestigoBien, ~apurado', ~Admitir,
         [Next]_vars
  PROVE  OrdenBien(n)'
<1>. DEFINE Q == UNCHANGED <<ready, blocked, pasa, tablas, respuestas>> /\ Afuera' \subseteq Afuera
<1>1. CpuRecibir \/ CpuEjecuta \/ CpuAbandonar => Q
  <2>1. CpuRecibir \/ CpuEjecuta \/ CpuAbandonar
        => UNCHANGED <<ready, blocked, enviado, pasa, tablas, respuestas>>
    BY MarcoCpu DEF Cpu, CpuEjecuta
  <2>2. CpuRecibir \/ CpuEjecuta \/ CpuAbandonar => EnVuelo
    BY DEF CpuRecibir, CpuEjecuta, CpuSigue, CpuDevuelve, CpuInterrumpe, CpuPierde,
           HayInterrupcion, CpuAbandonar, EnVuelo
  <2>. QED
    BY <2>1, <2>2 DEF Afuera
<1>2. UNCHANGED <<lasColas, losPasos, elTestigo>> => Q
  BY DEF lasColas, losPasos, elTestigo, EnVuelo, Afuera
<1>3. UNCHANGED vars => Q
  BY <1>2 DEF vars, colas, memoria, despacho, historia, lasColas, losPasos, elTestigo
<1>4. Aceptar \/ CrearHilo => Q
  BY <1>2, MarcoMain DEF Main
<1>5. ASSUME NEW c \in Consola,
             Conectar(c) \/ Enviar(c) \/ Caer(c) \/ RecibirRespuesta(c) \/ PerderConexion(c)
      PROVE  Q
  BY <1>2, <1>5, MarcoConsolas
<1>6. ASSUME NEW k \in Consola, Lee(k) PROVE Q
  BY <1>2, <1>6, MarcoLee
<1>7. ASSUME NEW k \in Consola, EncolarNuevo(k) \/ PostNew(k) PROVE Q
  BY <1>7, MarcoEncola DEF elTestigo, losPasos, EnVuelo, Afuera
<1>8. RecibirFinalizado => Q
  <2>1. RecibirFinalizado => UNCHANGED <<ready, blocked, pasa, tablas, respuestas>>
    BY MarcoFinalizado DEF losPasos
  <2>2. RecibirFinalizado => Afuera' = {}
    BY DEF RecibirFinalizado, Devuelve, TestigoBien, Unico, Afuera, EnVuelo
  <2>. QED
    BY <2>1, <2>2
<1>9. Q => OrdenBien(n)'
  BY OrdenQueda
<1>. HIDE DEF Q
<1>. QED
  BY <1>1, <1>3, <1>4, <1>5, <1>6, <1>7, <1>8, <1>9, OrdenDespacha, OrdenVuelve, OrdenPide,
     OrdenRecibe, Pasos

-----------------------------------------------------------------------------
(* The invariant.                                                          *)

LEMMA Inicio ==
  ASSUME Init
  PROVE  Inv
<1>1. /\ consola = [c \in Consola |-> "nueva"]
      /\ entrada = [c \in Consola |-> <<>>] /\ respuesta = [c \in Consola |-> <<>>]
      /\ cerrados = [consola |-> {}, kernel |-> {}, reset |-> {}] /\ pendientes = <<>>
      /\ pcMain = "accept" /\ conexion_consola = Nadie /\ numero_proceso = 0
      /\ hilos = [k \in Consola |-> Hilo("sin_crear")] /\ caido = FALSE
      /\ new = <<>> /\ elementos_en_cola_new = 0 /\ multiprogramacion = Grado
      /\ ready = <<>> /\ blocked = <<>> /\ sem_planificacion = 1
      /\ dispatch = <<>> /\ devuelto = <<>> /\ cpu = <<>>
      /\ tablas = 0 /\ archivos = [i \in {} |-> 0] /\ respuestas = <<>>
      /\ elementos_en_cola_ready = 0 /\ pasa = [t \in PasanAReady |-> Fuera]
      /\ apurado = FALSE /\ perdido = FALSE
      /\ interrupciones = 0 /\ caidas = 0
      /\ cruzada = FALSE /\ solapada = FALSE /\ finalizados = {}
  BY DEF Init
<1>2. Hilo("sin_crear") \in Hilos /\ Hilo("sin_crear").pc = "sin_crear"
  BY HiloNuevo DEF Lugares
<1>3. \A k \in Consola : hilos[k] \in Hilos /\ hilos[k].pc = "sin_crear"
  BY <1>1, <1>2
<1>4. Nadie \notin Consola
  BY ConsolaTipo
<1>5. RedBien
  <2>1. \A S : <<>> \in Seq(S)
    BY EmptySeq
  <2>2. entrada \in [Consola -> Seq(Nat)] /\ respuesta \in [Consola -> Seq({RESPUESTA_EXITO})]
    BY <1>1, <2>1
  <2>3. cerrados \in [Lados -> SUBSET Consola]
    <3>. DEFINE r == [consola |-> {}, kernel |-> {}, reset |-> {}]
    <3>1. r \in [consola : {{}}, kernel : {{}}, reset : {{}}]
      OBVIOUS
    <3>2. DOMAIN r = {"consola", "kernel", "reset"}
      OBVIOUS
    <3>3. r.consola = {} /\ r.kernel = {} /\ r.reset = {}
      OBVIOUS
    <3>4. r = [l \in DOMAIN r |-> r[l]]
      OBVIOUS
    <3>. HIDE DEF r
    <3>5. \A l \in DOMAIN r : r[l] = {}
      BY <3>2, <3>3
    <3>6. r \in [DOMAIN r -> SUBSET Consola]
      BY <3>4, <3>5
    <3>7. cerrados = r
      BY <1>1 DEF r
    <3>. QED
      BY <3>2, <3>6, <3>7 DEF Lados
  <2>4. consola \in [Consola -> {"nueva", "conectada", "esperando", "exito", "fallo", "caida"}]
    BY <1>1
  <2>5. pendientes \in Seq(Consola)
    BY <1>1, <2>1
  <2>6. caidas \in Nat /\ caido \in BOOLEAN /\ cruzada \in BOOLEAN /\ solapada \in BOOLEAN
    BY <1>1
  <2>. QED
    BY <2>2, <2>3, <2>4, <2>5, <2>6 DEF RedBien
<1>6. HilosBien
  <2>1. hilos \in [Consola -> Hilos]
    BY <1>1, <1>2
  <2>. QED
    BY <1>1, <1>3, <2>1 DEF HilosBien, HiloBien
<1>7. ColasBien
  BY <1>1, EmptySeq, ConstantesOK DEF ColasBien
<1>8. TestigoBien
  <2>1. "disp" \in PasanAReady
    BY DEF PasanAReady
  <2>2. pasa["disp"].pc = "fuera"
    BY <1>1, <2>1 DEF Fuera
  <2>. QED
    BY <1>1, <2>2 DEF TestigoBien, Unico, EnVuelo
<1>9. CuentaBien
  <2>1. PorPostear = {}
    BY <1>3 DEF PorPostear
  <2>. QED
    BY <1>1, <2>1, FS_EmptySet DEF CuentaBien
<1>10. ConexionesBien
  BY <1>1, <1>4 DEF ConexionesBien
<1>11. LecturaBien
  <2>1. \A k \in Consola : ~MiraElGlobal(k) /\ hilos[k].pc \notin ConSocket
    BY <1>3 DEF MiraElGlobal, ConSocket
  <2>2. \A c \in Consola : Virgen(c, consola[c], entrada[c])
    BY <1>1 DEF Virgen
  <2>. QED
    BY <2>1, <2>2 DEF LecturaBien
<1>12. ProcesosBien
  BY <1>1, EmptySeq DEF ProcesosBien, EnVuelo
<1>13. PasaBien
  <2>1. Fuera \in Pasando /\ Fuera.pc = "fuera" /\ Fuera.lugar = 0
    BY DEF Fuera, Pasando
  <2>2. \A t \in PasanAReady : pasa[t] = Fuera
    BY <1>1
  <2>3. pasa \in [PasanAReady -> Pasando]
    BY <1>1, <2>1
  <2>. QED
    BY <1>1, <2>1, <2>2, <2>3, EmptySeq DEF PasaBien, LugarBien
<1>14. NumeroBien(0)
  <2>1. ProximoId(0) = 0
    BY <1>1 DEF ProximoId
  <2>. QED
    BY <1>1, <1>3, <2>1 DEF NumeroBien, EntreIdYCola
<1>15. Todos = {} /\ Elementos(blocked) = {} /\ Afuera = {} /\ Distintos
  BY <1>1 DEF Todos, Elementos, Afuera, EnVuelo, Distintos, IdsDistintos, Ajenos
<1>16. SwapBien(0)
  <2>1. \A t \in PasanAReady : pasa[t].pc = "fuera"
    BY <1>1 DEF Fuera
  <2>. QED
    BY <1>15, <2>1 DEF SwapBien, PideBien
<1>17. OrdenBien(0)
  <2>1. \A t \in PasanAReady : pasa[t].pc = "fuera"
    BY <1>1 DEF Fuera
  <2>2. "ltp" \in PasanAReady /\ "io" \in PasanAReady /\ "disp" \in PasanAReady
    BY DEF PasanAReady
  <2>. QED
    BY <1>1, <1>15, <2>1, <2>2 DEF OrdenBien
<1>18. IdsBien
  BY <1>14, <1>16, <1>17 DEF IdsBien
<1>. QED
  BY <1>5, <1>6, <1>7, <1>8, <1>9, <1>10, <1>11, <1>12, <1>13, <1>18
     DEF Inv, Bien, PropioBien

\* What was crossed, or overlapped, stays so.
LEMMA HistoriaQueda ==
  ASSUME RedBien, [Next]_vars
  PROVE  (~cruzada' => ~cruzada) /\ (~solapada' => ~solapada)
<1>1. CASE UNCHANGED <<cruzada, solapada>>
  BY <1>1
<1>2. ASSUME NEW c \in Consola,
             Conectar(c) \/ Enviar(c) \/ Caer(c) \/ RecibirRespuesta(c) \/ PerderConexion(c)
      PROVE  UNCHANGED <<cruzada, solapada>>
  BY <1>2, MarcoConsolas
<1>3. CASE Aceptar
  BY <1>3, MarcoMain DEF Aceptar, Main
<1>4. ASSUME NEW k \in Consola, Lee(k)
      PROVE  cruzada' = cruzada /\ (~solapada' => ~solapada)
  <2>1. cruzada' = cruzada
    BY <1>4, MarcoLee
  <2>2. ~solapada' => ~solapada
    BY <1>4 DEF Lee, LeerConexion, RecibirOperacion, RecibirTamanio, RecibirSize,
                PerderBuffer, RecibirBuffer, LeerSocket, AsignarId, LeerNumero, GuardarNumero
  <2>. QED
    BY <2>1, <2>2
<1>5. ASSUME NEW k \in Consola, EncolarNuevo(k) \/ PostNew(k)
      PROVE  UNCHANGED <<cruzada, solapada>>
  BY <1>5, MarcoEncola
<1>6. CrearHilo \/ Planifica \/ RecibirFinalizado \/ UNCHANGED vars
      => UNCHANGED <<cruzada, solapada>>
  BY MarcoPlanifica, MarcoFinalizado DEF CrearHilo, vars, historia
<1>. QED
  BY <1>1, <1>2, <1>3, <1>4, <1>5, <1>6, Pasos
  DEF Planifica, Cpu, CpuEjecuta, Tabla

\* Nor is a number that came too late forgotten.
LEMMA ApuradoQueda ==
  ASSUME PasaBien, ready \in Seq(PcbsBien), [Next]_vars
  PROVE  ~apurado' => ~apurado
<1>1. UNCHANGED losPasos => (~apurado' => ~apurado)
  BY DEF losPasos
<1>2. ASSUME NEW c \in Consola,
             Conectar(c) \/ Enviar(c) \/ Caer(c) \/ RecibirRespuesta(c) \/ PerderConexion(c)
      PROVE  UNCHANGED losPasos
  BY <1>2, MarcoConsolas
<1>3. Aceptar \/ CrearHilo \/ RecibirFinalizado \/ UNCHANGED vars => UNCHANGED losPasos
  BY MarcoMain, MarcoFinalizado DEF Main, vars, colas, memoria, historia, losPasos
<1>4. ASSUME NEW k \in Consola, Lee(k) \/ EncolarNuevo(k) \/ PostNew(k)
      PROVE  UNCHANGED losPasos
  BY <1>4, MarcoLee, MarcoEncola
<1>5. CASE Despachar
  BY <1>5, DespacharHace
<1>6. Cpu => apurado' = apurado
  BY MarcoCpu
<1>7. Admitir \/ RecibirBloqueado \/ RecibirInterrumpido \/ TerminarIO => apurado' = apurado
  BY DEF Admitir, RecibirBloqueado, RecibirInterrumpido, TerminarIO, Devuelve
<1>8. ASSUME NEW t \in PasanAReady, PedirTabla(t) \/ RecibirTabla(t) PROVE apurado' = apurado
  BY <1>8 DEF PedirTabla, RecibirTabla
<1>. QED
  BY <1>1, <1>2, <1>3, <1>4, <1>5, <1>6, <1>7, <1>8, Pasos DEF Cpu, CpuEjecuta

LEMMA IdsPaso ==
  ASSUME HilosBien, ColasBien, PasaBien, TestigoBien, CuentaBien, LecturaBien, ~solapada',
         NEW n \in Nat, NumeroBien(n), SwapBien(n), ~apurado => OrdenBien(n), [Next]_vars
  PROVE  \E m \in Nat : (NumeroBien(m) /\ SwapBien(m) /\ (~apurado => OrdenBien(m)))'
<1>1. ~apurado' => ~apurado
  BY ApuradoQueda DEF ColasBien
<1>2. CASE Admitir
  <2>1. n + 1 \in Nat /\ NumeroBien(n + 1)' /\ SwapBien(n + 1)'
    BY <1>2, NumeroAdmite, SwapAdmite
  <2>2. ~apurado' => OrdenBien(n + 1)'
    BY <1>1, <1>2, OrdenAdmite
  <2>. QED
    BY <2>1, <2>2
<1>3. CASE ~Admitir
  <2>1. NumeroBien(n)' /\ SwapBien(n)'
    BY <1>3, NumeroPaso, SwapPaso
  <2>2. ~apurado' => OrdenBien(n)'
    BY <1>1, <1>3, OrdenPaso
  <2>. QED
    BY <2>1, <2>2
<1>. QED
  BY <1>2, <1>3

LEMMA InvPaso ==
  ASSUME Inv, [Next]_vars
  PROVE  Inv'
<1>1. /\ RedBien /\ HilosBien /\ ColasBien /\ PasaBien /\ TestigoBien /\ CuentaBien
      /\ ConexionesBien
  BY DEF Inv, Bien
<1>2. /\ RedBien' /\ HilosBien' /\ ColasBien' /\ PasaBien' /\ TestigoBien' /\ CuentaBien'
      /\ ConexionesBien'
  BY <1>1, RedPaso, HilosPaso, ColasPaso, PasaPaso, TestigoPaso, CuentaPaso, ConexionesPaso
<1>3. (~cruzada' => ~cruzada) /\ (~solapada' => ~solapada)
  BY <1>1, HistoriaQueda
<1>4. ASSUME ~cruzada' PROVE LecturaBien' /\ ProcesosBien'
  <2>1. LecturaBien /\ ProcesosBien
    BY <1>3, <1>4 DEF Inv, PropioBien
  <2>. QED
    BY <1>1, <1>4, <2>1, LecturaPaso, ProcesosPaso
<1>5. ASSUME ~cruzada', ~solapada'
      PROVE  \E m \in Nat : (NumeroBien(m) /\ SwapBien(m) /\ (~apurado => OrdenBien(m)))'
  <2>1. LecturaBien
    BY <1>3, <1>5 DEF Inv, PropioBien
  <2>2. PICK n \in Nat : NumeroBien(n) /\ SwapBien(n) /\ (~apurado => OrdenBien(n))
    BY <1>3, <1>5 DEF Inv, IdsBien
  <2>. QED
    BY <1>1, <1>5, <2>1, <2>2, IdsPaso
<1>. QED
  BY <1>2, <1>4, <1>5 DEF Inv, Bien, PropioBien, IdsBien

\* The inductive invariant holds in every state.
THEOREM Invariante == Spec => []Inv
<1>1. Init => Inv
  BY Inicio
<1>2. Inv /\ [Next]_vars => Inv'
  BY InvPaso
<1>. QED
  BY <1>1, <1>2, PTL DEF Spec

-----------------------------------------------------------------------------
(* What it implies.                                                        *)

\* The type of every variable: every PCB that comes out of a socket, out of a
\* thread or out of a queue is one (kernel.h, cpu.h).
THEOREM ConsolasTypeOK == Spec => []TypeOK
<1>1. Inv => TypeOK
  <2>. SUFFICES ASSUME Inv PROVE TypeOK
    OBVIOUS
  <2>1. RedBien /\ HilosBien /\ ColasBien /\ PasaBien /\ TestigoBien
    BY DEF Inv, Bien
  <2>2. \A q \in {new, ready, blocked, cpu} : \A j \in DOMAIN q : EsPcb(q[j])
    <3>1. cpu \in Seq(PcbsBien)
      <4>1. CASE cpu = <<>>
        BY <4>1, EmptySeq
      <4>2. CASE cpu # <<>>
        BY <2>1, <4>2 DEF TestigoBien
      <4>. QED
        BY <4>1, <4>2
    <3>2. ASSUME NEW q \in Seq(PcbsBien), NEW j \in DOMAIN q PROVE EsPcb(q[j])
      <4>1. q[j] \in PcbsBien
        BY <3>2, ElementOfSeq, LenProperties
      <4>. QED
        BY <4>1, PcbsBienTipo
    <3>. QED
      BY <2>1, <3>1, <3>2 DEF ColasBien
  <2>3. ASSUME NEW p \in finalizados PROVE p.program_counter \in 0..Len(p.instrucciones)
    <3>1. p \in Ejecuciones /\ p.program_counter \in 1..Len(p.instrucciones)
      BY <2>1 DEF ColasBien
    <3>2. Len(p.instrucciones) \in Nat
      BY <3>1, LenProperties DEF Ejecuciones
    <3>. QED
      BY <3>1, <3>2
  <2>4. dispatch \in Seq(Int)
    <3>1. CASE dispatch = <<>>
      BY <3>1, EmptySeq
    <3>2. CASE dispatch # <<>>
      <4>1. dispatch = PcbDelKernel(enviado) /\ enviado \in Pcbs
        BY <2>1, <3>2, PcbsBienTipo DEF TestigoBien, EnVuelo
      <4>. QED
        BY <4>1, PcbLlegaALaCpu
    <3>. QED
      BY <3>1, <3>2
  <2>5. devuelto \in Seq(Int)
    <3>1. CASE devuelto = <<>>
      BY <3>1, EmptySeq
    <3>2. CASE devuelto # <<>>
      <4>1. PICK n, p : LlegaDevuelto(n, p)
        BY <2>1, <3>2, DevueltoLlega
      <4>. QED
        BY <4>1 DEF LlegaDevuelto
    <3>. QED
      BY <3>1, <3>2
  <2>6. sem_planificacion \in 0..1 /\ Len(cpu) <= 1
    <3>1. Len(cpu) <= 1
      <4>1. CASE cpu = <<>>
        BY <4>1
      <4>2. CASE cpu # <<>>
        <5>1. Len(cpu) = 1
          BY <2>1, <4>2 DEF TestigoBien
        <5>. QED
          BY <5>1
      <4>. QED
        BY <4>1, <4>2
    <3>2. sem_planificacion \in 0..1
      <4>1. sem_planificacion = 0 \/ sem_planificacion = 1
        BY <2>1 DEF TestigoBien, Unico
      <4>. QED
        BY <4>1
    <3>. QED
      BY <3>1, <3>2
  <2>7. \A k \in Consola : hilos[k].socket \in Consola \union {Nadie} /\ hilos[k].size \in Nat
    BY <2>1 DEF HilosBien, Hilos
  <2>8. ASSUME NEW t \in PasanAReady
        PROVE  pasa[t].pc \in {"fuera", "pedir_tabla", "recibir_tabla"}
               /\ pasa[t].lugar \in 0..Len(ready)
    <3>1. LugarBien(t) /\ pasa[t] \in Pasando /\ Len(ready) \in Nat
      BY <2>1, LenProperties DEF PasaBien, ColasBien
    <3>. QED
      BY <3>1 DEF LugarBien, Pasando
  <2>9. /\ {elementos_en_cola_new, multiprogramacion, tablas, interrupciones, caidas,
            elementos_en_cola_ready} \subseteq Nat
        /\ {caido, cruzada, solapada, apurado, perdido} \subseteq BOOLEAN
        /\ respuestas \in Seq(Nat)
    BY <2>1 DEF RedBien, ColasBien, PasaBien
  <2>10. /\ consola \in [Consola -> {"nueva", "conectada", "esperando", "exito", "fallo", "caida"}]
         /\ entrada \in [Consola -> Seq(Nat)]
         /\ respuesta \in [Consola -> Seq({RESPUESTA_EXITO})]
         /\ cerrados \in [{"consola", "kernel", "reset"} -> SUBSET Consola]
         /\ pendientes \in Seq(Consola) /\ pcMain \in {"accept", "pthread_create"}
         /\ conexion_consola \in Consola \union {Nadie} /\ numero_proceso \in Nat
         /\ \A i \in DOMAIN archivos : i \in Nat /\ archivos[i] \in Nat
    BY <2>1 DEF RedBien, HilosBien, ColasBien, Lados
  <2>. QED
    BY <2>2, <2>3, <2>4, <2>5, <2>6, <2>7, <2>8, <2>9, <2>10 DEF TypeOK
<1>. QED
  BY <1>1, Invariante, PTL

\* Every message of the dispatch socket arrives whole: its reader, in the other
\* program, takes from it the PCB that was put there and stops where it ends,
\* whatever the instructions (utils_kernel.c:138-258, clientServ.c:150-411).
THEOREM ConsolasLlegaEntero == Spec => []LlegaEntero
<1>1. Inv => LlegaEntero
  <2>. SUFFICES ASSUME Inv PROVE LlegaEntero
    OBVIOUS
  <2>1. TestigoBien
    BY DEF Inv, Bien
  <2>2. ASSUME dispatch # <<>>
        PROVE  /\ dispatch[1] = OpCpu.PCB
               /\ Len(dispatch) = 1 + LargoPcb(Tail(dispatch), 6)
               /\ PcbEnCpu(Tail(dispatch)) = enviado
    <3>1. dispatch = PcbDelKernel(enviado) /\ enviado \in Pcbs
      BY <2>1, <2>2, PcbsBienTipo DEF TestigoBien, EnVuelo
    <3>. QED
      BY <3>1, PcbLlegaALaCpu DEF PCB, OpCpu
  <2>3. ASSUME devuelto # <<>>
        PROVE  LET s == Tail(devuelto)
                   bloqueado == devuelto[1] = BLOQUEO_IO
                   p == IF bloqueado THEN PcbBloqueadoEnKernel(s).proceso ELSE PcbEnKernel(s)
               IN /\ devuelto[1] \in {BLOQUEO_IO, EXIT, INTERRUPCION}
                  /\ Len(devuelto) = 1 + LargoPcb(s, IF bloqueado THEN 7 ELSE 6)
                  /\ p.program_counter > enviado.program_counter
                  /\ p = [enviado EXCEPT !.program_counter = p.program_counter]
                  /\ Op(p.instrucciones[p.program_counter]) =
                       (CASE devuelto[1] = BLOQUEO_IO -> IO
                          [] devuelto[1] = EXIT -> SALIR
                          [] OTHER -> Op(p.instrucciones[p.program_counter]))
    <3>. DEFINE s == Tail(devuelto)
    <3>1. PICK n, r : LlegaDevuelto(n, r)
      BY <2>1, <2>3, DevueltoLlega
    <3>2. enviado \in PcbsDeCola
      BY <2>1, <2>3, PcbsBienTipo DEF TestigoBien, EnVuelo
    <3>3. /\ r = [enviado EXCEPT !.program_counter = n] /\ n > enviado.program_counter
          /\ r.program_counter = n
      BY <3>1, <3>2 DEF LlegaDevuelto, PcbsDeCola
    <3>4. BLOQUEO_IO # EXIT /\ BLOQUEO_IO # INTERRUPCION /\ EXIT # INTERRUPCION
      BY DEF BLOQUEO_IO, EXIT, INTERRUPCION
    <3>5. CASE /\ Op(r.instrucciones[n]) = IO /\ devuelto[1] = BLOQUEO_IO
               /\ PcbBloqueadoEnKernel(s).proceso = r /\ Len(devuelto) = 1 + LargoPcb(s, 7)
      <4>. DEFINE b == PcbBloqueadoEnKernel(s).proceso
                  f == PcbEnKernel(s)
      <4>1. b = r
        BY <3>5
      <4>. HIDE DEF b, f
      <4>2. /\ b.program_counter > enviado.program_counter
            /\ b = [enviado EXCEPT !.program_counter = b.program_counter]
            /\ Op(b.instrucciones[b.program_counter]) = IO
        BY <3>3, <3>5, <4>1
      <4>3. /\ devuelto[1] \in {BLOQUEO_IO, EXIT, INTERRUPCION}
            /\ Len(devuelto) = 1 + LargoPcb(s, IF devuelto[1] = BLOQUEO_IO THEN 7 ELSE 6)
        BY <3>5
      <4>5. /\ (IF devuelto[1] = BLOQUEO_IO THEN b ELSE f) = b
            /\ Op(b.instrucciones[b.program_counter]) =
                 (CASE devuelto[1] = BLOQUEO_IO -> IO
                    [] devuelto[1] = EXIT -> SALIR
                    [] OTHER -> Op(b.instrucciones[b.program_counter]))
        BY <3>4, <3>5, <4>2
      <4>. QED
        BY <4>2, <4>3, <4>5 DEF b, f
    <3>6. CASE /\ Op(r.instrucciones[n]) = SALIR /\ devuelto[1] = EXIT
               /\ PcbEnKernel(s) = r /\ Len(devuelto) = 1 + LargoPcb(s, 6)
      BY <3>3, <3>4, <3>6
    <3>7. CASE /\ devuelto[1] = INTERRUPCION
               /\ PcbEnKernel(s) = r /\ Len(devuelto) = 1 + LargoPcb(s, 6)
      BY <3>3, <3>4, <3>7
    <3>. QED
      BY <3>1, <3>5, <3>6, <3>7 DEF LlegaDevuelto
  <2>. QED
    BY <2>2, <2>3 DEF LlegaEntero
<1>. QED
  BY <1>1, Invariante, PTL

\* What is left of a burst is exact in every queue and in the CPU, so SRT compares
\* what it should (kernel.c:252-292).
THEOREM ConsolasRestanteExacto == Spec => []RestanteExacto
<1>1. Inv => RestanteExacto
  <2>. SUFFICES ASSUME Inv, NEW q \in {ready, blocked, cpu}, NEW j \in DOMAIN q
                PROVE  q[j].restante = q[j].estimacion_rafaga - q[j].tiempo_ejecucion
    BY DEF RestanteExacto
  <2>1. ready \in Seq(PcbsBien) /\ blocked \in Seq(PcbsBien)
    BY DEF Inv, Bien, ColasBien
  <2>2. cpu \in Seq(PcbsBien)
    <3>1. CASE cpu = <<>>
      BY <3>1, EmptySeq
    <3>2. CASE cpu # <<>>
      BY <3>2 DEF Inv, Bien, TestigoBien
    <3>. QED
      BY <3>1, <3>2
  <2>3. q[j] \in PcbsBien
    <3>1. q \in Seq(PcbsBien)
      BY <2>1, <2>2
    <3>. QED
      BY <3>1, ElementOfSeq, LenProperties
  <2>. QED
    BY <2>3 DEF PcbsBien, Exacto
<1>. QED
  BY <1>1, Invariante, PTL

\* A console is told that its process ended well only when its own program has
\* been executed up to EXIT, if no connection was accepted before the thread of
\* the last one had read conexion_consola for the third time (kernel.c:116-124, 300).
THEOREM ConsolasRespuestaPropia == Spec => []RespuestaPropia
<1>1. Inv => RespuestaPropia
  BY DEF Inv, PropioBien, ProcesosBien, RespuestaPropia
<1>. QED
  BY <1>1, Invariante, PTL

\* A process that has its table number has its own swap file, of its size, and an id
\* of its own, if no two threads took their ids at once; and its id is its number if
\* moreover none was dispatched before its number had come (kernel.c:503-520,
\* memoria.c:804-813, 822, 840).
THEOREM ConsolasSwapPropio == Spec => []SwapPropio
<1>1. Inv => SwapPropio
  <2>. SUFFICES ASSUME Inv, ~solapada, ~cruzada
                PROVE  \A p \in EnSistema :
                         /\ p.tablas_paginas # SinTabla =>
                              /\ p.id \in DOMAIN archivos /\ archivos[p.id] = p.tamanio_proceso
                              /\ apurado \/ p.id = p.tablas_paginas
                         /\ \A q \in EnSistema : q.id = p.id => q.socket = p.socket
    BY DEF SwapPropio
  <2>0. PICK n \in Nat : SwapBien(n) /\ (~apurado => OrdenBien(n))
    BY DEF Inv, IdsBien
  <2>1. TestigoBien /\ ColasBien /\ apurado \in BOOLEAN
    BY DEF Inv, Bien, PasaBien
  <2>. DEFINE R == Elementos(ready)
              B == Elementos(blocked)
              C == {cpu[j] : j \in DOMAIN cpu}
              D == IF dispatch = <<>> THEN {} ELSE {PcbEnCpu(Tail(dispatch))}
  <2>2. EnSistema = R \union B \union C \union D
    <3>1. R = {ready[j] : j \in DOMAIN ready} /\ B = {blocked[j] : j \in DOMAIN blocked}
      BY <2>1, LenProperties DEF ColasBien, Elementos
    <3>. DEFINE U == UNION {{q[j] : j \in DOMAIN q} : q \in {ready, blocked, cpu}}
    <3>. HIDE DEF R, B, C, D, U
    <3>2. EnSistema = U \union D
      BY DEF EnSistema, U, D
    <3>3. U = R \union B \union C
      <4>1. {{q[j] : j \in DOMAIN q} : q \in {ready, blocked, cpu}} = {R, B, C}
        BY <3>1, Zenon DEF C
      <4>2. UNION {R, B, C} = R \union B \union C
        OBVIOUS
      <4>. QED
        BY <4>1, <4>2 DEF U
    <3>. QED
      BY <3>2, <3>3
  \* What is in the CPU or on its way there is the PCB that was sent.
  <2>3. \A p \in C \union D : /\ EnVuelo /\ p.id = enviado.id /\ p.socket = enviado.socket
                              /\ p.tablas_paginas = enviado.tablas_paginas
                              /\ p.tamanio_proceso = enviado.tamanio_proceso
    <3>1. ASSUME NEW p \in C
          PROVE  /\ EnVuelo /\ p.id = enviado.id /\ p.socket = enviado.socket
                 /\ p.tablas_paginas = enviado.tablas_paginas
                 /\ p.tamanio_proceso = enviado.tamanio_proceso
      <4>1. cpu # <<>>
        BY <3>1
      <4>2. cpu \in Seq(PcbsBien) /\ Len(cpu) = 1 /\ MismoPcb(cpu[1], enviado)
            /\ enviado \in PcbsBien
        BY <2>1, <4>1 DEF TestigoBien, EnVuelo
      <4>3. p = cpu[1]
        BY <3>1, <4>2
      <4>. QED
        BY <4>1, <4>2, <4>3 DEF MismoPcb, EnVuelo, PcbsBien, PcbsDeCola
    <3>2. ASSUME NEW p \in D
          PROVE  /\ EnVuelo /\ p = enviado
      <4>1. dispatch # <<>> /\ p = PcbEnCpu(Tail(dispatch))
        BY <3>2
      <4>2. dispatch = PcbDelKernel(enviado) /\ enviado \in Pcbs
        BY <2>1, <4>1, PcbsBienTipo DEF TestigoBien, EnVuelo
      <4>. QED
        BY <4>1, <4>2, PcbLlegaALaCpu DEF EnVuelo
    <3>. HIDE DEF C, D
    <3>. QED
      BY <3>1, <3>2
  <2>. HIDE DEF C, D
  <2>4. EnVuelo => enviado \in Afuera
    BY DEF Afuera
  <2>5. ASSUME NEW p \in EnSistema, p.tablas_paginas # SinTabla
        PROVE  /\ p.id \in DOMAIN archivos /\ archivos[p.id] = p.tamanio_proceso
               /\ apurado \/ p.id = p.tablas_paginas
    <3>1. PICK q \in Todos : MismaTabla(p, q)
      <4>1. CASE p \in R \union B
        BY <4>1 DEF Todos, MismaTabla
      <4>2. CASE p \in C \union D
        BY <2>3, <2>4, <4>2 DEF Todos, MismaTabla
      <4>. QED
        BY <2>2, <4>1, <4>2
    <3>2. ConArchivo(q) /\ (~apurado => q.id = q.tablas_paginas)
      BY <2>0, <2>5, <3>1 DEF SwapBien, OrdenBien, MismaTabla
    <3>. QED
      BY <2>1, <3>1, <3>2 DEF MismaTabla, ConArchivo
  <2>6. /\ \A p, q \in R : p.id = q.id => p = q
        /\ \A p, q \in B : p.id = q.id => p = q
    BY <2>0 DEF SwapBien, Distintos, IdsDistintos, Elementos
  <2>. HIDE DEF R, B
  <2>7. /\ \A p \in R, q \in B : p.id # q.id
        /\ \A p \in R \union B, q \in C \union D : p.id # q.id
    BY <2>0, <2>3, <2>4 DEF SwapBien, Distintos, Ajenos, R, B
  <2>8. ASSUME NEW p \in EnSistema, NEW q \in EnSistema, q.id = p.id
        PROVE  q.socket = p.socket
    BY <2>2, <2>3, <2>6, <2>7, <2>8
  <2>. QED
    BY <2>5, <2>8
<1>. QED
  BY <1>1, Invariante, PTL
=============================================================================
