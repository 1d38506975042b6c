---------------------------- MODULE MemoriaProofs ----------------------------
(***************************************************************************)
(* What is proved of Memoria, for any processes, pages, frames, degree,    *)
(* TLB, algorithm and number of suspensions.                               *)
(***************************************************************************)
EXTENDS Memoria, FiniteSetTheorems, TLAPS

-----------------------------------------------------------------------------
(* The inductive invariant.                                                *)

\* An access that is under way has a page, and a frame wherever one is used.
EnCurso ==
  /\ IsFiniteSet(tlb)
  /\ pcCpu # "libre" => acceso.pagina \in Paginas
  /\ pcCpu = "reemplazar" =>
       victima \in Paginas /\ marco[<<numero_de_tabla, victima>>] \in Marcos
  /\ \A p \in Procesos : \A x \in presencia[p] : marco[<<p, x>>] \in Marcos
  /\ pcK # "recibir" => id_a_suspender \in Procesos

\* One process executes at most, and what the CPU is doing, or has in its TLB,
\* is that process's, whose table the global names.
UnoEjecuta ==
  /\ \A p, q \in Procesos : Ejecuta(p) /\ Ejecuta(q) => p = q
  /\ pcCpu # "libre" \/ tlb # {} => Ejecuta(numero_de_tabla)

\* A request to start finds its process as it was sent.
InicioPendiente ==
  /\ \A k \in DOMAIN peticiones :
       peticiones[k].op = "INICIO_PROCESO" => estado[peticiones[k].proc] = "iniciando"
  /\ \A j, k \in DOMAIN peticiones :
       /\ peticiones[j].op = "INICIO_PROCESO" /\ peticiones[k].op = "INICIO_PROCESO"
       /\ peticiones[j].proc = peticiones[k].proc
       => j = k

\* So does a request to suspend, and the suspension under way, unless a process
\* has come back before.
SuspensionPendiente ==
  ~adelantado =>
    /\ \A k \in DOMAIN peticiones :
         peticiones[k].op = "SUSPENCION_PROCESO" =>
           /\ estado[peticiones[k].proc] = "suspendiendo"
           /\ peticiones[k].proc # id_a_suspender
    /\ \A j, k \in DOMAIN peticiones :
         /\ peticiones[j].op = "SUSPENCION_PROCESO"
         /\ peticiones[k].op = "SUSPENCION_PROCESO"
         /\ peticiones[j].proc = peticiones[k].proc
         => j = k
    /\ id_a_suspender # Nadie => estado[id_a_suspender] = "suspendiendo"

Orden == UnoEjecuta /\ InicioPendiente /\ SuspensionPendiente

IInv == TypeOK /\ EnCurso /\ Orden /\ SinEsperas

-----------------------------------------------------------------------------
(* The queue of requests.                                                  *)

Peticion == [op : Operaciones, proc : Procesos]

\* A request sent goes to the end.
LEMMA AlFinal ==
  ASSUME NEW s \in Seq(Peticion), NEW e \in Peticion
  PROVE  /\ Append(s, e) \in Seq(Peticion)
         /\ DOMAIN Append(s, e) = DOMAIN s \union {Len(s) + 1} /\ Len(s) + 1 \notin DOMAIN s
         /\ Append(s, e)[Len(s) + 1] = e
         /\ \A k \in DOMAIN s : Append(s, e)[k] = s[k]
<1>1. Append(s, e) \in Seq(Peticion) /\ Append(s, e)[Len(s) + 1] = e
  OBVIOUS
<1>2. Len(s) \in Nat /\ DOMAIN s = 1..Len(s) /\ DOMAIN Append(s, e) = 1..(Len(s) + 1)
  OBVIOUS
<1>3. \A k \in DOMAIN s : Append(s, e)[k] = s[k]
  OBVIOUS
<1>4. QED
  BY <1>1, <1>2, <1>3

\* A request served leaves the others as they were, one place ahead.
LEMMA DelFrente ==
  ASSUME NEW s \in Seq(Peticion), s # <<>>
  PROVE  /\ Tail(s) \in Seq(Peticion) /\ Head(s) \in Peticion
         /\ 1 \in DOMAIN s /\ Head(s) = s[1]
         /\ \A k \in DOMAIN Tail(s) : k + 1 \in DOMAIN s /\ k + 1 # 1 /\ Tail(s)[k] = s[k + 1]
         /\ \A j, k \in DOMAIN Tail(s) : j + 1 = k + 1 => j = k
<1>1. Tail(s) \in Seq(Peticion) /\ Head(s) \in Peticion /\ Head(s) = s[1]
  OBVIOUS
<1>2. Len(s) \in Nat /\ Len(s) > 0 /\ Len(Tail(s)) = Len(s) - 1
  OBVIOUS
<1>3. DOMAIN s = 1..Len(s) /\ DOMAIN Tail(s) = 1..(Len(s) - 1)
  BY <1>1, <1>2
<1>4. \A k \in DOMAIN Tail(s) : Tail(s)[k] = s[k + 1]
  OBVIOUS
<1>5. QED
  BY <1>1, <1>2, <1>3, <1>4

\* Every request has an operation and a process.
LEMMA Campos ==
  ASSUME NEW s \in Seq(Peticion)
  PROVE  \A k \in DOMAIN s : s[k] \in Peticion /\ s[k].op \in Operaciones
                             /\ s[k].proc \in Procesos
<1>1. \A k \in DOMAIN s : s[k] \in Peticion
  OBVIOUS
<1>2. \A e \in Peticion : e.op \in Operaciones /\ e.proc \in Procesos
  BY DEF Peticion
<1>3. QED
  BY <1>1, <1>2

-----------------------------------------------------------------------------
(* The TLB.                                                                *)

\* The answer to the second access, in the TLB that is full or not.
LEMMA RespuestaTipo ==
  ASSUME IInv, NEW m \in Marcos, Responder(m), acceso.pagina \in Paginas
  PROVE  /\ acceso' \in [pagina : Paginas \union {Nadie}, escribe : BOOLEAN,
                         marco : Marcos \union {SinMarco}]
         /\ acceso'.pagina = acceso.pagina /\ acceso'.marco = m /\ pcCpu' = "tercero"
         /\ tlb' \subseteq [pagina : Paginas, marco : Marcos]
         /\ IsFiniteSet(tlb') /\ Cardinality(tlb') <= EntradasTlb
<1>. DEFINE nueva == [pagina |-> acceso.pagina, marco |-> m]
<1>1. acceso \in [pagina : Paginas \union {Nadie}, escribe : BOOLEAN,
                  marco : Marcos \union {SinMarco}]
  BY DEF IInv, TypeOK
<1>2. acceso' = [acceso EXCEPT !.marco = m] /\ pcCpu' = "tercero"
  BY DEF Responder
<1>3. /\ acceso' \in [pagina : Paginas \union {Nadie}, escribe : BOOLEAN,
                      marco : Marcos \union {SinMarco}]
      /\ acceso'.pagina = acceso.pagina /\ acceso'.marco = m
  BY <1>1, <1>2
<1>4. nueva \in [pagina : Paginas, marco : Marcos]
  OBVIOUS
<1>5. /\ tlb \subseteq [pagina : Paginas, marco : Marcos] /\ IsFiniteSet(tlb)
      /\ Cardinality(tlb) \in Nat /\ Cardinality(tlb) <= EntradasTlb /\ EntradasTlb \in Nat \ {0}
  BY FS_CardinalityType, ConstantesOK DEF IInv, TypeOK, EnCurso
<1>. HIDE DEF nueva
<1>6. CASE Cardinality(tlb) > EntradasTlb - 1
  <2>1. PICK e \in tlb : tlb' = (tlb \ {e}) \union {nueva}
    BY <1>6 DEF Responder, nueva
  <2>2. IsFiniteSet(tlb \ {e}) /\ Cardinality(tlb \ {e}) = Cardinality(tlb) - 1
    BY <1>5, FS_RemoveElement
  <2>3. IsFiniteSet(tlb') /\ Cardinality(tlb') <= Cardinality(tlb)
    <3>. DEFINE T == tlb \ {e}
    <3>1. IsFiniteSet(T) /\ Cardinality(T) \in Nat /\ Cardinality(T) = Cardinality(tlb) - 1
      BY <2>2, FS_CardinalityType
    <3>. HIDE DEF T
    <3>2. /\ IsFiniteSet(T \union {nueva})
          /\ Cardinality(T \union {nueva}) = Cardinality(T)
             \/ Cardinality(T \union {nueva}) = Cardinality(T) + 1
      BY <3>1, FS_AddElement
    <3>3. QED
      BY <1>5, <2>1, <3>1, <3>2 DEF T
  <2>4. Cardinality(tlb') \in Nat
    BY <2>3, FS_CardinalityType
  <2>5. QED
    BY <1>2, <1>3, <1>4, <1>5, <2>1, <2>3, <2>4
<1>7. CASE ~(Cardinality(tlb) > EntradasTlb - 1)
  <2>1. tlb' = tlb \union {nueva}
    BY <1>7 DEF Responder, nueva
  <2>2. IsFiniteSet(tlb') /\ Cardinality(tlb') <= Cardinality(tlb) + 1
    <3>1. /\ IsFiniteSet(tlb \union {nueva})
          /\ Cardinality(tlb \union {nueva}) = Cardinality(tlb)
             \/ Cardinality(tlb \union {nueva}) = Cardinality(tlb) + 1
      BY <1>5, FS_AddElement
    <3>2. QED
      BY <1>5, <2>1, <3>1
  <2>3. Cardinality(tlb') \in Nat
    BY <2>2, FS_CardinalityType
  <2>4. QED
    BY <1>2, <1>3, <1>4, <1>5, <1>7, <2>1, <2>2, <2>3
<1>8. QED
  BY <1>6, <1>7

-----------------------------------------------------------------------------
(* The steps.                                                              *)

\* A request the kernel sends.
LEMMA PedirTipo ==
  ASSUME IInv, NEW op \in Operaciones, NEW p \in Procesos, Pedir(op, p)
  PROVE  peticiones' \in Seq([op : Operaciones, proc : Procesos])
<1>1. peticiones \in Seq(Peticion) /\ [op |-> op, proc |-> p] \in Peticion
  BY DEF IInv, TypeOK, Peticion
<1>2. peticiones' = Append(peticiones, [op |-> op, proc |-> p])
  BY DEF Pedir
<1>3. peticiones' \in Seq(Peticion)
  BY <1>1, <1>2, AlFinal
<1>4. QED
  BY <1>3 DEF Peticion

\* A request memory takes.
LEMMA LlegaTipo ==
  ASSUME IInv, NEW op \in Operaciones, Llega(op)
  PROVE  /\ peticiones \in Seq(Peticion) /\ peticiones # <<>>
         /\ peticiones' \in Seq(Peticion) /\ peticiones' = Tail(peticiones)
         /\ peticiones' \in Seq([op : Operaciones, proc : Procesos])
         /\ Head(peticiones).proc \in Procesos /\ Head(peticiones).op = op
         /\ pcK = "recibir"
<1>1. peticiones \in Seq(Peticion)
  BY DEF IInv, TypeOK, Peticion
<1>2. peticiones # <<>> /\ peticiones' = Tail(peticiones) /\ Head(peticiones).op = op /\ pcK = "recibir"
  BY DEF Llega
<1>3. peticiones' \in Seq(Peticion) /\ Head(peticiones) \in Peticion
  BY <1>1, <1>2, DelFrente
<1>4. Head(peticiones).proc \in Procesos
  BY <1>3 DEF Peticion
<1>5. QED
  BY <1>1, <1>2, <1>3, <1>4 DEF Peticion

\* The kernel's steps keep the types.
LEMMA TipoPlanificar ==
  ASSUME IInv, Planificar
  PROVE  TypeOK'
<1>. USE DEF SinTocarMemoria, pedidos, hiloCpu, bits, datos, hiloK, Estados
<1>1. TypeOK
  BY DEF IInv
<1>2. ASSUME NEW p \in Procesos, Admitir(p)
      PROVE  TypeOK'
  <2>1. peticiones' \in Seq([op : Operaciones, proc : Procesos])
    BY <1>1, <1>2, PedirTipo DEF Admitir, Operaciones, TypeOK
  <2>2. estado' \in [Procesos -> Estados]
    BY <1>1, <1>2 DEF Admitir, TypeOK
  <2>3. QED
    BY <1>1, <1>2, <2>1, <2>2 DEF Admitir, TypeOK
<1>3. ASSUME NEW p \in Procesos, Despachar(p)
      PROVE  TypeOK'
  BY <1>1, <1>3 DEF Despachar, TypeOK
<1>4. ASSUME NEW p \in Procesos, Suspender(p)
      PROVE  TypeOK'
  <2>1. peticiones' \in Seq([op : Operaciones, proc : Procesos])
    BY <1>4, PedirTipo DEF Suspender, Operaciones
  <2>2. suspensiones' \in 0..MaxSuspensiones
    BY <1>1, <1>4, ConstantesOK DEF Suspender, TypeOK
  <2>3. QED
    BY <1>1, <1>4, <2>1, <2>2 DEF Suspender, TypeOK
<1>5. ASSUME NEW p \in Procesos, Despertar(p)
      PROVE  TypeOK'
  <2>1. adelantado' \in BOOLEAN
    BY <1>1, <1>5 DEF Despertar, TypeOK
  <2>2. QED
    BY <1>1, <1>5, <2>1 DEF Despertar, TypeOK
<1>6. ASSUME NEW p \in Procesos, NEW a \in {"ready", "blocked", "exit"}, Devolver(p, a)
      PROVE  TypeOK'
  <2>1. peticiones' \in Seq([op : Operaciones, proc : Procesos])
    BY <1>1, <1>6, PedirTipo DEF Devolver, Operaciones, TypeOK
  <2>2. tlb' \subseteq [pagina : Paginas, marco : Marcos] /\ Cardinality(tlb') <= EntradasTlb
    <3>1. tlb' = {} /\ Cardinality({}) = 0
      BY <1>6, FS_EmptySet DEF Devolver
    <3>2. QED
      BY <3>1, ConstantesOK
  <2>3. QED
    BY <1>1, <1>6, <2>1, <2>2 DEF Devolver, TypeOK
<1>7. QED
  BY <1>2, <1>3, <1>4, <1>5, <1>6 DEF Planificar

\* What a write and a load do to the copies.
LEMMA VigenteTipo ==
  ASSUME TypeOK, NEW p \in Procesos, NEW x \in Paginas, NEW m \in Marcos,
         NEW swap
  PROVE  VigenteTras(p, x, m, swap) \in [Procesos \X Paginas -> SUBSET Marcos]
  BY DEF TypeOK, VigenteTras

LEMMA SwapTipo ==
  ASSUME TypeOK, NEW p \in Procesos, NEW x \in Paginas, NEW m
  PROVE  EnSwapTras(p, x, m) \in [Procesos -> SUBSET Paginas]
  BY DEF TypeOK, EnSwapTras

\* The steps of an access keep the types.
LEMMA TipoAtenderCpu ==
  ASSUME IInv, AtenderCpu
  PROVE  TypeOK'
<1>. USE DEF SinTocarKernel, kernel, pedidos, hiloCpu, bits, datos, hiloK
<1>. DEFINE Acceso == [pagina : Paginas \union {Nadie}, escribe : BOOLEAN,
                       marco : Marcos \union {SinMarco}]
<1>1. TypeOK /\ EnCurso
  BY DEF IInv
<1>2. ASSUME NEW p \in Procesos, NEW x \in Paginas, NEW e \in BOOLEAN, IniciarAcceso(p, x, e)
      PROVE  TypeOK'
  <2>1. acceso' \in Acceso
    <3>1. \A f \in tlb : f.marco \in Marcos
      BY <1>1 DEF TypeOK
    <3>2. QED
      BY <1>2, <3>1 DEF IniciarAcceso, EnTlb
  <2>2. numero_de_tabla' \in Procesos /\ pcCpu' \in {"segundo", "tercero"}
    BY <1>1, <1>2 DEF IniciarAcceso, TypeOK
  <2>3. QED
    BY <1>1, <1>2, <2>1, <2>2 DEF IniciarAcceso, TypeOK
<1>3. ASSUME MirarSwap
      PROVE  TypeOK'
  <2>1. pcCpu' \in {"esperar_segundo", "esperar_tercero", "buscar", "acceder"}
    BY <1>3 DEF MirarSwap, Espera, Siguiente
  <2>2. QED
    BY <1>1, <1>3, <2>1 DEF MirarSwap, TypeOK
<1>4. ASSUME EsperarSwap
      PROVE  TypeOK'
  <2>1. pcCpu' \in {"buscar", "acceder"}
    BY <1>4 DEF EsperarSwap, Siguiente
  <2>2. semSwap' \in Nat
    BY <1>1, <1>4 DEF EsperarSwap, TypeOK
  <2>3. QED
    BY <1>1, <1>4, <2>1, <2>2 DEF EsperarSwap, TypeOK
<1>5. ASSUME BuscarPresente
      PROVE  TypeOK'
  <2>1. acceso.pagina \in Paginas /\ marco[<<numero_de_tabla, acceso.pagina>>] \in Marcos
    BY <1>1, <1>5 DEF BuscarPresente, TypeOK, EnCurso
  <2>2. /\ acceso' \in Acceso /\ pcCpu' = "tercero"
        /\ tlb' \subseteq [pagina : Paginas, marco : Marcos] /\ Cardinality(tlb') <= EntradasTlb
    BY <1>5, <2>1, RespuestaTipo DEF BuscarPresente
  <2>3. QED
    BY <1>1, <1>5, <2>2 DEF BuscarPresente, TypeOK
<1>6. ASSUME AsignarMarco
      PROVE  TypeOK'
  <2>1. acceso.pagina \in Paginas /\ numero_de_tabla \in Procesos
    BY <1>1, <1>6 DEF AsignarMarco, TypeOK, EnCurso
  <2>2. PICK m \in Marcos \ ocupados :
          /\ ocupados' = ocupados \union {m}
          /\ marco' = [marco EXCEPT ![<<numero_de_tabla, acceso.pagina>>] = m]
          /\ presencia' = [presencia EXCEPT ![numero_de_tabla] = @ \union {acceso.pagina}]
          /\ vigente' = VigenteTras(numero_de_tabla, acceso.pagina, m, enSwap)
          /\ Responder(m)
    BY <1>6 DEF AsignarMarco
  <2>3. /\ acceso' \in Acceso /\ pcCpu' = "tercero"
        /\ tlb' \subseteq [pagina : Paginas, marco : Marcos] /\ Cardinality(tlb') <= EntradasTlb
    BY <2>1, <2>2, RespuestaTipo
  <2>4. vigente' \in [Procesos \X Paginas -> SUBSET Marcos]
    BY <1>1, <2>1, <2>2, VigenteTipo
  <2>5. /\ presencia' \in [Procesos -> SUBSET Paginas] /\ ocupados' \subseteq Marcos
        /\ marco' \in [Procesos \X Paginas -> Marcos \union {SinMarco}]
    BY <1>1, <2>1, <2>2 DEF TypeOK
  <2>6. QED
    BY <1>1, <1>6, <2>3, <2>4, <2>5 DEF AsignarMarco, TypeOK
<1>7. ASSUME AsignarSinMarco
      PROVE  TypeOK'
  BY <1>1, <1>7 DEF AsignarSinMarco, TypeOK
<1>8. ASSUME ElegirVictima
      PROVE  TypeOK'
  BY <1>1, <1>8 DEF ElegirVictima, TypeOK
<1>9. ASSUME CargarPagina
      PROVE  TypeOK'
  <2>. DEFINE p == numero_de_tabla
              x == acceso.pagina
              m == marco[<<p, victima>>]
              swap == SwapTrasReemplazo(p)
  <2>1. x \in Paginas /\ p \in Procesos /\ victima \in Paginas /\ m \in Marcos
    BY <1>1, <1>9 DEF CargarPagina, TypeOK, EnCurso
  <2>2. /\ enSwap' = swap
        /\ vigente' = VigenteTras(p, x, m, swap)
        /\ marco' = [marco EXCEPT ![<<p, x>>] = m]
        /\ presencia' = [presencia EXCEPT ![p] = (@ \ {victima}) \union {x}]
        /\ modificada' =
             IF AlgoritmoReemplazo = "CLOCK" \/ victima \in modificada[p]
             THEN [modificada EXCEPT ![p] = @ \ {x}] ELSE modificada
        /\ Responder(m)
    BY <1>9 DEF CargarPagina
  <2>3. /\ acceso' \in Acceso /\ pcCpu' = "tercero"
        /\ tlb' \subseteq [pagina : Paginas, marco : Marcos] /\ Cardinality(tlb') <= EntradasTlb
    BY <2>1, <2>2, RespuestaTipo
  <2>4. swap \in [Procesos -> SUBSET Paginas]
    BY <1>1, <2>1, SwapTipo DEF SwapTrasReemplazo, TypeOK
  <2>. HIDE DEF swap, m
  <2>5. vigente' \in [Procesos \X Paginas -> SUBSET Marcos]
    BY <1>1, <2>1, <2>2, VigenteTipo
  <2>6. /\ presencia' \in [Procesos -> SUBSET Paginas]
        /\ modificada' \in [Procesos -> SUBSET Paginas]
        /\ marco' \in [Procesos \X Paginas -> Marcos \union {SinMarco}]
    BY <1>1, <2>1, <2>2 DEF TypeOK
  <2>7. victima' = Nadie
    BY <1>9 DEF CargarPagina
  <2>8. QED
    BY <1>1, <1>9, <2>2, <2>3, <2>4, <2>5, <2>6, <2>7 DEF CargarPagina, TypeOK
<1>10. ASSUME Leer
       PROVE  TypeOK'
  BY <1>1, <1>10 DEF Leer, TypeOK, SinAcceso
<1>11. ASSUME NEW p \in Procesos, EscribirMarco(p)
       PROVE  TypeOK'
  <2>1. modificada' \in [Procesos -> SUBSET Paginas]
    BY <1>1, <1>11 DEF EscribirMarco, TypeOK
  <2>2. /\ vigente' \in [Procesos \X Paginas -> SUBSET Marcos]
        /\ enSwap' \in [Procesos -> SUBSET Paginas]
    BY <1>1, <1>11 DEF EscribirMarco, Escribir, TypeOK
  <2>3. acceso' \in Acceso
    BY <1>11 DEF EscribirMarco, SinAcceso
  <2>4. QED
    BY <1>1, <1>11, <2>1, <2>2, <2>3 DEF EscribirMarco, TypeOK
<1>12. ASSUME NEW p \in Procesos, EscribirSinPagina(p)
       PROVE  TypeOK'
  BY <1>1, <1>12 DEF EscribirSinPagina, TypeOK
<1>13. QED
  BY <1>2, <1>3, <1>4, <1>5, <1>6, <1>7, <1>8, <1>9, <1>10, <1>11, <1>12 DEF AtenderCpu

\* And those of the thread that serves the kernel.
LEMMA TipoAtenderKernel ==
  ASSUME IInv, AtenderKernel
  PROVE  TypeOK'
<1>. USE DEF SinTocarCpu, kernel, pedidos, hiloCpu, bits, datos, hiloK, Estados, Operaciones
<1>1. TypeOK /\ EnCurso
  BY DEF IInv
<1>2. ASSUME IniciarProceso
      PROVE  TypeOK'
  <2>1. /\ peticiones' \in Seq([op : Operaciones, proc : Procesos])
        /\ Head(peticiones).proc \in Procesos
    BY <1>2, LlegaTipo DEF IniciarProceso
  <2>2. QED
    BY <1>1, <1>2, <2>1 DEF IniciarProceso, TypeOK
<1>3. ASSUME FinalizarProceso
      PROVE  TypeOK'
  <2>1. peticiones' \in Seq([op : Operaciones, proc : Procesos])
    BY <1>3, LlegaTipo DEF FinalizarProceso
  <2>2. QED
    BY <1>1, <1>3, <2>1 DEF FinalizarProceso, TypeOK
<1>4. ASSUME IniciarSuspension
      PROVE  TypeOK'
  <2>1. /\ peticiones' \in Seq([op : Operaciones, proc : Procesos])
        /\ Head(peticiones).proc \in Procesos
    BY <1>4, LlegaTipo DEF IniciarSuspension
  <2>2. porSwapear' \subseteq Paginas /\ id_a_suspender' \in Procesos
    BY <1>1, <1>4, <2>1 DEF IniciarSuspension, TypeOK
  <2>3. QED
    BY <1>1, <1>4, <2>1, <2>2 DEF IniciarSuspension, TypeOK
<1>5. ASSUME SwapearPagina
      PROVE  TypeOK'
  <2>1. id_a_suspender \in Procesos
    BY <1>1, <1>5 DEF SwapearPagina, EnCurso
  <2>2. PICK x \in porSwapear :
          /\ porSwapear' = porSwapear \ {x}
          /\ enSwap' = EnSwapTras(id_a_suspender, x, marco[<<id_a_suspender, x>>])
          /\ modificada' = [modificada EXCEPT ![id_a_suspender] = @ \ {x}]
          /\ presencia' = [presencia EXCEPT ![id_a_suspender] = @ \ {x}]
    BY <1>5 DEF SwapearPagina
  <2>3. enSwap' \in [Procesos -> SUBSET Paginas]
    BY <1>1, <2>1, <2>2, SwapTipo DEF TypeOK
  <2>4. /\ porSwapear' \subseteq Paginas
        /\ modificada' \in [Procesos -> SUBSET Paginas]
        /\ presencia' \in [Procesos -> SUBSET Paginas]
    BY <1>1, <2>1, <2>2 DEF TypeOK
  <2>5. QED
    BY <1>1, <1>5, <2>3, <2>4 DEF SwapearPagina, TypeOK
<1>6. ASSUME DescartarPresentes
      PROVE  TypeOK'
  BY <1>1, <1>6 DEF DescartarPresentes, TypeOK
<1>7. ASSUME LiberarMarcos
      PROVE  TypeOK'
  BY <1>1, <1>7 DEF LiberarMarcos, TypeOK
<1>8. ASSUME AvisarCpu
      PROVE  TypeOK'
  <2>1. semSwap' \in Nat
    BY <1>1, <1>8 DEF AvisarCpu, TypeOK
  <2>2. QED
    BY <1>1, <1>8, <2>1 DEF AvisarCpu, TypeOK
<1>9. ASSUME ConfirmarSuspension
      PROVE  TypeOK'
  BY <1>1, <1>9 DEF ConfirmarSuspension, TypeOK
<1>10. QED
  BY <1>2, <1>3, <1>4, <1>5, <1>6, <1>7, <1>8, <1>9 DEF AtenderKernel

\* The queue after a request of the kernel, and after memory has taken one.
LEMMA TrasPedir ==
  ASSUME IInv, NEW op \in Operaciones, NEW p \in Procesos, Pedir(op, p)
  PROVE  /\ \A k \in DOMAIN peticiones' :
              \/ k \in DOMAIN peticiones /\ peticiones'[k] = peticiones[k]
              \/ /\ k = Len(peticiones) + 1 /\ k \notin DOMAIN peticiones
                 /\ peticiones'[k].op = op /\ peticiones'[k].proc = p
         /\ \A k \in DOMAIN peticiones : peticiones[k].proc \in Procesos
<1>. DEFINE e == [op |-> op, proc |-> p]
<1>1. peticiones \in Seq(Peticion) /\ e \in Peticion
  BY DEF IInv, TypeOK, Peticion
<1>2. peticiones' = Append(peticiones, e) /\ e.op = op /\ e.proc = p
  BY DEF Pedir
<1>3. \A k \in DOMAIN peticiones : peticiones[k].proc \in Procesos
  BY <1>1, Campos
<1>. HIDE DEF e
<1>4. /\ DOMAIN peticiones' = DOMAIN peticiones \union {Len(peticiones) + 1}
      /\ Len(peticiones) + 1 \notin DOMAIN peticiones
      /\ peticiones'[Len(peticiones) + 1] = e
      /\ \A k \in DOMAIN peticiones : peticiones'[k] = peticiones[k]
  BY <1>1, <1>2, AlFinal
<1>5. QED
  BY <1>2, <1>3, <1>4

LEMMA TrasLlegar ==
  ASSUME IInv, NEW op \in Operaciones, Llega(op)
  PROVE  /\ 1 \in DOMAIN peticiones /\ Head(peticiones) = peticiones[1]
         /\ \A k \in DOMAIN peticiones' :
              k + 1 \in DOMAIN peticiones /\ k + 1 # 1 /\ peticiones'[k] = peticiones[k + 1]
         /\ \A j, k \in DOMAIN peticiones' : j + 1 = k + 1 => j = k
         /\ \A k \in DOMAIN peticiones : peticiones[k].proc \in Procesos
<1>1. peticiones \in Seq(Peticion) /\ peticiones # <<>> /\ peticiones' = Tail(peticiones)
  BY LlegaTipo
<1>2. \A k \in DOMAIN peticiones : peticiones[k].proc \in Procesos
  BY <1>1, Campos
<1>3. QED
  BY <1>1, <1>2, DelFrente

\* Nothing happens to the suspensions that wait.
LEMMA SuspensionQueda ==
  ASSUME SuspensionPendiente, id_a_suspender \in Procesos \union {Nadie},
         UNCHANGED <<adelantado, id_a_suspender>>,
         \A k \in DOMAIN peticiones : peticiones[k].proc \in Procesos,
         \A k \in DOMAIN peticiones' :
           \/ k \in DOMAIN peticiones /\ peticiones'[k] = peticiones[k]
           \/ peticiones'[k].op # "SUSPENCION_PROCESO",
         \A q \in Procesos : estado[q] = "suspendiendo" => estado'[q] = "suspendiendo"
  PROVE  SuspensionPendiente'
<1>. SUFFICES ASSUME ~adelantado
              PROVE  SuspensionPendiente'
  BY DEF SuspensionPendiente
<1>1. \A k \in DOMAIN peticiones' : peticiones'[k].op = "SUSPENCION_PROCESO" =>
        /\ k \in DOMAIN peticiones /\ peticiones'[k] = peticiones[k]
        /\ estado'[peticiones'[k].proc] = "suspendiendo"
        /\ peticiones'[k].proc # id_a_suspender
  BY DEF SuspensionPendiente
<1>2. id_a_suspender # Nadie => estado'[id_a_suspender] = "suspendiendo"
  BY DEF SuspensionPendiente
<1>3. QED
  BY <1>1, <1>2 DEF SuspensionPendiente

\* The kernel's steps keep the order of requests and states.
LEMMA OrdenPlanificar ==
  ASSUME IInv, Planificar
  PROVE  Orden' /\ EnCurso' /\ SinEsperas'
<1>. USE DEF SinTocarMemoria, pedidos, hiloCpu, bits, datos, hiloK, Operaciones, Orden
<1>1. TypeOK /\ EnCurso /\ Orden /\ SinEsperas
  BY DEF IInv
<1>2. peticiones \in Seq(Peticion) /\ \A k \in DOMAIN peticiones : peticiones[k].proc \in Procesos
  <2>1. peticiones \in Seq(Peticion)
    BY <1>1 DEF TypeOK, Peticion
  <2>2. QED
    BY <2>1, Campos
<1>3. ASSUME NEW p \in Procesos, Admitir(p)
      PROVE  Orden' /\ EnCurso' /\ SinEsperas'
  <2>1. /\ estado[p] \in {"nuevo", "suspendido"} /\ estado'[p] # "exec"
        /\ \A q \in Procesos \ {p} : estado'[q] = estado[q]
        /\ UNCHANGED <<numero_de_tabla, tlb, pcCpu, adelantado, id_a_suspender>>
    BY <1>1, <1>3 DEF Admitir, TypeOK
  <2>2. UnoEjecuta'
    BY <1>1, <2>1 DEF UnoEjecuta, Ejecuta, TypeOK
  <2>3. CASE UNCHANGED peticiones
    <3>1. InicioPendiente'
      BY <1>1, <1>2, <2>1, <2>3 DEF InicioPendiente
    <3>2. SuspensionPendiente'
      BY <1>1, <1>2, <2>1, <2>3 DEF SuspensionPendiente, TypeOK
    <3>3. QED
      BY <1>1, <1>3, <2>2, <3>1, <3>2 DEF Admitir, EnCurso, SinEsperas
  <2>4. CASE Pedir("INICIO_PROCESO", p) /\ estado'[p] = "iniciando"
    <3>1. \A k \in DOMAIN peticiones' :
            \/ k \in DOMAIN peticiones /\ peticiones'[k] = peticiones[k]
            \/ /\ k = Len(peticiones) + 1 /\ k \notin DOMAIN peticiones
               /\ peticiones'[k].op = "INICIO_PROCESO" /\ peticiones'[k].proc = p
      BY <2>4, TrasPedir
    <3>2. InicioPendiente'
      BY <1>1, <1>2, <2>1, <2>4, <3>1 DEF InicioPendiente
    <3>3. SuspensionPendiente'
      <4>1. \A k \in DOMAIN peticiones' :
              \/ k \in DOMAIN peticiones /\ peticiones'[k] = peticiones[k]
              \/ peticiones'[k].op # "SUSPENCION_PROCESO"
        BY <3>1
      <4>2. \A q \in Procesos : estado[q] = "suspendiendo" => estado'[q] = "suspendiendo"
        BY <2>1
      <4>3. QED
        BY <1>1, <1>2, <2>1, <4>1, <4>2, SuspensionQueda DEF TypeOK
    <3>4. QED
      BY <1>1, <1>3, <2>2, <3>2, <3>3 DEF Admitir, EnCurso, SinEsperas
  <2>5. QED
    BY <1>1, <1>3, <2>3, <2>4 DEF Admitir, TypeOK
<1>4. ASSUME NEW p \in Procesos, Despachar(p)
      PROVE  Orden' /\ EnCurso' /\ SinEsperas'
  <2>1. /\ estado[p] = "ready" /\ estado'[p] = "exec"
        /\ \A q \in Procesos \ {p} : estado'[q] = estado[q]
        /\ \A q \in Procesos : ~Ejecuta(q)
        /\ UNCHANGED <<numero_de_tabla, tlb, pcCpu, adelantado, id_a_suspender, peticiones>>
    BY <1>1, <1>4 DEF Despachar, TypeOK
  <2>2. UnoEjecuta'
    BY <1>1, <2>1 DEF UnoEjecuta, Ejecuta, TypeOK
  <2>3. InicioPendiente'
    BY <1>1, <1>2, <2>1 DEF InicioPendiente
  <2>4. SuspensionPendiente'
    BY <1>1, <1>2, <2>1 DEF SuspensionPendiente, TypeOK
  <2>5. QED
    BY <1>1, <1>4, <2>2, <2>3, <2>4 DEF Despachar, EnCurso, SinEsperas
<1>5. ASSUME NEW p \in Procesos, Suspender(p)
      PROVE  Orden' /\ EnCurso' /\ SinEsperas'
  <2>1. /\ estado[p] = "blocked" /\ estado'[p] = "suspendiendo"
        /\ \A q \in Procesos \ {p} : estado'[q] = estado[q]
        /\ UNCHANGED <<numero_de_tabla, tlb, pcCpu, adelantado, id_a_suspender>>
    BY <1>1, <1>5 DEF Suspender, TypeOK
  <2>2. \A k \in DOMAIN peticiones' :
          \/ k \in DOMAIN peticiones /\ peticiones'[k] = peticiones[k]
          \/ /\ k = Len(peticiones) + 1 /\ k \notin DOMAIN peticiones
             /\ peticiones'[k].op = "SUSPENCION_PROCESO" /\ peticiones'[k].proc = p
    BY <1>5, TrasPedir DEF Suspender
  <2>3. UnoEjecuta'
    BY <1>1, <2>1 DEF UnoEjecuta, Ejecuta, TypeOK
  <2>4. InicioPendiente'
    BY <1>1, <1>2, <2>1, <2>2 DEF InicioPendiente
  <2>5. SuspensionPendiente'
    BY <1>1, <1>2, <2>1, <2>2, ConstantesOK DEF SuspensionPendiente, TypeOK
  <2>6. QED
    BY <1>1, <1>5, <2>3, <2>4, <2>5 DEF Suspender, EnCurso, SinEsperas
<1>6. ASSUME NEW p \in Procesos, Despertar(p)
      PROVE  Orden' /\ EnCurso' /\ SinEsperas'
  <2>1. /\ estado[p] \in {"blocked", "suspendiendo"} /\ estado'[p] = "ready"
        /\ \A q \in Procesos \ {p} : estado'[q] = estado[q]
        /\ adelantado' = (adelantado \/ estado[p] = "suspendiendo")
        /\ UNCHANGED <<numero_de_tabla, tlb, pcCpu, id_a_suspender, peticiones>>
    BY <1>1, <1>6 DEF Despertar, TypeOK
  <2>2. UnoEjecuta'
    BY <1>1, <2>1 DEF UnoEjecuta, Ejecuta, TypeOK
  <2>3. InicioPendiente'
    BY <1>1, <1>2, <2>1 DEF InicioPendiente
  <2>4. SuspensionPendiente'
    BY <1>1, <1>2, <2>1 DEF SuspensionPendiente, TypeOK
  <2>5. QED
    BY <1>1, <1>6, <2>2, <2>3, <2>4 DEF Despertar, EnCurso, SinEsperas
<1>7. ASSUME NEW p \in Procesos, NEW a \in {"ready", "blocked", "exit"}, Devolver(p, a)
      PROVE  Orden' /\ EnCurso' /\ SinEsperas'
  <2>1. /\ estado[p] = "exec" /\ estado'[p] = a
        /\ \A q \in Procesos \ {p} : estado'[q] = estado[q]
        /\ pcCpu = "libre" /\ tlb' = {}
        /\ UNCHANGED <<numero_de_tabla, pcCpu, adelantado, id_a_suspender>>
    BY <1>1, <1>7 DEF Devolver, Ejecuta, TypeOK
  <2>2. \A k \in DOMAIN peticiones' :
          \/ k \in DOMAIN peticiones /\ peticiones'[k] = peticiones[k]
          \/ peticiones'[k].op = "FINALIZACION_PROCESO"
    <3>1. CASE a = "exit"
      BY <1>7, <3>1, TrasPedir DEF Devolver
    <3>2. CASE a # "exit"
      BY <1>7, <3>2 DEF Devolver
    <3>3. QED
      BY <3>1, <3>2
  <2>3. UnoEjecuta'
    BY <1>1, <2>1 DEF UnoEjecuta, Ejecuta, TypeOK
  <2>4. InicioPendiente'
    BY <1>1, <1>2, <2>1, <2>2 DEF InicioPendiente
  <2>5. SuspensionPendiente'
    <3>1. \A k \in DOMAIN peticiones' :
            \/ k \in DOMAIN peticiones /\ peticiones'[k] = peticiones[k]
            \/ peticiones'[k].op # "SUSPENCION_PROCESO"
      BY <2>2
    <3>2. \A q \in Procesos : estado[q] = "suspendiendo" => estado'[q] = "suspendiendo"
      BY <2>1
    <3>3. QED
      BY <1>1, <1>2, <2>1, <3>1, <3>2, SuspensionQueda DEF TypeOK
  <2>6. EnCurso'
    <3>1. IsFiniteSet(tlb')
      BY <2>1, FS_EmptySet
    <3>2. QED
      BY <1>1, <1>7, <3>1 DEF Devolver, EnCurso
  <2>7. QED
    BY <1>1, <2>1, <2>3, <2>4, <2>5, <2>6 DEF SinEsperas
<1>8. QED
  BY <1>3, <1>4, <1>5, <1>6, <1>7 DEF Planificar

\* The CPU's steps take no request and move no process.
LEMMA OrdenAtenderCpu ==
  ASSUME IInv, AtenderCpu
  PROVE  Orden' /\ EnCurso' /\ SinEsperas'
<1>. USE DEF SinTocarKernel, kernel, pedidos, hiloCpu, bits, datos, hiloK, Orden
<1>1. TypeOK /\ EnCurso /\ Orden /\ SinEsperas
  BY DEF IInv
<1>2. InicioPendiente' /\ SuspensionPendiente'
  <2>1. UNCHANGED <<estado, peticiones, adelantado, id_a_suspender>>
    BY DEF AtenderCpu, IniciarAcceso, MirarSwap, EsperarSwap, BuscarPresente, AsignarMarco,
           AsignarSinMarco, ElegirVictima, CargarPagina, Leer, EscribirMarco, EscribirSinPagina
  <2>2. QED
    BY <1>1, <2>1 DEF InicioPendiente, SuspensionPendiente
<1>3. ASSUME NEW p \in Procesos, NEW x \in Paginas, NEW e \in BOOLEAN, IniciarAcceso(p, x, e)
      PROVE  UnoEjecuta' /\ EnCurso' /\ SinEsperas'
  <2>1. UnoEjecuta'
    <3>1. /\ Ejecuta(p) /\ UNCHANGED <<estado, tlb>>
          /\ numero_de_tabla' = p \/ (numero_de_tabla' = numero_de_tabla /\ tlb # {})
      BY <1>3 DEF IniciarAcceso, EnTlb
    <3>2. QED
      BY <1>1, <3>1 DEF UnoEjecuta, Ejecuta
  <2>2. acceso'.pagina = x /\ pcCpu' \in {"segundo", "tercero"}
    BY <1>3 DEF IniciarAcceso
  <2>3. QED
    BY <1>1, <1>3, <2>1, <2>2 DEF IniciarAcceso, EnCurso, SinEsperas
<1>4. ASSUME MirarSwap
      PROVE  UnoEjecuta' /\ EnCurso' /\ SinEsperas'
  <2>1. pcCpu' \in {"esperar_segundo", "esperar_tercero"} => numero_de_tabla = id_a_suspender
    BY <1>4 DEF MirarSwap, Siguiente
  <2>2. pcCpu' \in {"esperar_segundo", "esperar_tercero", "buscar", "acceder"}
    BY <1>4 DEF MirarSwap, Siguiente, Espera
  <2>3. Ejecuta(numero_de_tabla) /\ numero_de_tabla \in Procesos
    BY <1>1, <1>4 DEF MirarSwap, UnoEjecuta, TypeOK
  <2>4. numero_de_tabla = id_a_suspender => adelantado
    BY <1>1, <2>3, ConstantesOK DEF SuspensionPendiente, Ejecuta
  <2>5. QED
    BY <1>1, <1>4, <2>1, <2>2, <2>3, <2>4
       DEF MirarSwap, UnoEjecuta, Ejecuta, EnCurso, SinEsperas
<1>5. ASSUME EsperarSwap
      PROVE  UnoEjecuta' /\ EnCurso' /\ SinEsperas'
  <2>1. pcCpu' \in {"buscar", "acceder"}
    BY <1>5 DEF EsperarSwap, Siguiente
  <2>2. QED
    BY <1>1, <1>5, <2>1 DEF EsperarSwap, UnoEjecuta, Ejecuta, EnCurso, SinEsperas
<1>6. ASSUME NEW m \in Marcos, Responder(m), pcCpu \in {"buscar", "reemplazar"},
             UNCHANGED <<estado, numero_de_tabla>>
      PROVE  /\ UnoEjecuta' /\ SinEsperas' /\ IsFiniteSet(tlb')
             /\ acceso'.pagina \in Paginas /\ pcCpu' = "tercero"
  <2>1. acceso.pagina \in Paginas
    BY <1>1, <1>6 DEF EnCurso
  <2>2. IsFiniteSet(tlb') /\ acceso'.pagina \in Paginas /\ pcCpu' = "tercero"
    BY <1>6, <2>1, RespuestaTipo
  <2>3. QED
    BY <1>1, <1>6, <2>2 DEF UnoEjecuta, Ejecuta, SinEsperas
<1>7. ASSUME BuscarPresente
      PROVE  UnoEjecuta' /\ EnCurso' /\ SinEsperas'
  <2>1. marco[<<numero_de_tabla, acceso.pagina>>] \in Marcos
    BY <1>1, <1>7 DEF BuscarPresente, TypeOK, EnCurso
  <2>2. /\ UnoEjecuta' /\ SinEsperas' /\ IsFiniteSet(tlb')
        /\ acceso'.pagina \in Paginas /\ pcCpu' = "tercero"
    BY <1>6, <1>7, <2>1 DEF BuscarPresente
  <2>3. QED
    BY <1>1, <1>7, <2>2 DEF BuscarPresente, EnCurso
<1>8. ASSUME AsignarMarco
      PROVE  UnoEjecuta' /\ EnCurso' /\ SinEsperas'
  <2>1. acceso.pagina \in Paginas /\ numero_de_tabla \in Procesos
    BY <1>1, <1>8 DEF AsignarMarco, TypeOK, EnCurso
  <2>2. PICK m \in Marcos \ ocupados :
          /\ marco' = [marco EXCEPT ![<<numero_de_tabla, acceso.pagina>>] = m]
          /\ presencia' = [presencia EXCEPT ![numero_de_tabla] = @ \union {acceso.pagina}]
          /\ Responder(m)
    BY <1>8 DEF AsignarMarco
  <2>3. /\ UnoEjecuta' /\ SinEsperas' /\ IsFiniteSet(tlb')
        /\ acceso'.pagina \in Paginas /\ pcCpu' = "tercero"
    BY <1>6, <1>8, <2>2 DEF AsignarMarco
  <2>4. \A p \in Procesos : \A x \in presencia'[p] : marco'[<<p, x>>] \in Marcos
    BY <1>1, <2>1, <2>2 DEF TypeOK, EnCurso
  <2>5. QED
    BY <1>1, <1>8, <2>3, <2>4 DEF AsignarMarco, EnCurso
<1>9. ASSUME AsignarSinMarco
      PROVE  UnoEjecuta' /\ EnCurso' /\ SinEsperas'
  BY <1>1, <1>9 DEF AsignarSinMarco, UnoEjecuta, Ejecuta, EnCurso, SinEsperas
<1>10. ASSUME ElegirVictima
       PROVE  UnoEjecuta' /\ EnCurso' /\ SinEsperas'
  <2>1. victima' \in Paginas /\ marco[<<numero_de_tabla, victima'>>] \in Marcos
    BY <1>1, <1>10 DEF ElegirVictima, TypeOK, EnCurso
  <2>2. QED
    BY <1>1, <1>10, <2>1 DEF ElegirVictima, UnoEjecuta, Ejecuta, EnCurso, SinEsperas
<1>11. ASSUME CargarPagina
       PROVE  UnoEjecuta' /\ EnCurso' /\ SinEsperas'
  <2>. DEFINE m == marco[<<numero_de_tabla, victima>>]
  <2>1. acceso.pagina \in Paginas /\ numero_de_tabla \in Procesos /\ m \in Marcos
    BY <1>1, <1>11 DEF CargarPagina, TypeOK, EnCurso
  <2>2. /\ marco' = [marco EXCEPT ![<<numero_de_tabla, acceso.pagina>>] = m]
        /\ presencia' = [presencia EXCEPT ![numero_de_tabla] =
                           (@ \ {victima}) \union {acceso.pagina}]
        /\ Responder(m)
    BY <1>11 DEF CargarPagina
  <2>3. /\ UnoEjecuta' /\ SinEsperas' /\ IsFiniteSet(tlb')
        /\ acceso'.pagina \in Paginas /\ pcCpu' = "tercero"
    BY <1>6, <1>11, <2>1, <2>2 DEF CargarPagina
  <2>. HIDE DEF m
  <2>4. \A p \in Procesos : \A x \in presencia'[p] : marco'[<<p, x>>] \in Marcos
    BY <1>1, <2>1, <2>2 DEF TypeOK, EnCurso
  <2>5. QED
    BY <1>1, <1>11, <2>3, <2>4 DEF CargarPagina, EnCurso
<1>12. ASSUME Leer
       PROVE  UnoEjecuta' /\ EnCurso' /\ SinEsperas'
  BY <1>1, <1>12 DEF Leer, UnoEjecuta, Ejecuta, EnCurso, SinEsperas
<1>13. ASSUME NEW p \in Procesos, EscribirMarco(p)
       PROVE  UnoEjecuta' /\ EnCurso' /\ SinEsperas'
  <2>1. UnoEjecuta'
    BY <1>1, <1>13 DEF EscribirMarco, UnoEjecuta, Ejecuta
  <2>2. QED
    BY <1>1, <1>13, <2>1 DEF EscribirMarco, EnCurso, SinEsperas
<1>14. ASSUME NEW p \in Procesos, EscribirSinPagina(p)
       PROVE  UnoEjecuta' /\ EnCurso' /\ SinEsperas'
  BY <1>1, <1>14 DEF EscribirSinPagina, UnoEjecuta, Ejecuta, EnCurso, SinEsperas
<1>15. QED
  BY <1>2, <1>3, <1>4, <1>5, <1>7, <1>8, <1>9, <1>10, <1>11, <1>12, <1>13, <1>14 DEF AtenderCpu

\* What the thread that serves the kernel does to requests and states.
LEMMA OrdenAtenderKernel ==
  ASSUME IInv, AtenderKernel
  PROVE  Orden' /\ EnCurso' /\ SinEsperas'
<1>. USE DEF SinTocarCpu, kernel, pedidos, hiloCpu, bits, datos, hiloK, Operaciones, Orden
<1>1. TypeOK /\ EnCurso /\ Orden /\ SinEsperas
  BY DEF IInv
<1>2. peticiones \in Seq(Peticion) /\ \A k \in DOMAIN peticiones : peticiones[k].proc \in Procesos
  <2>1. peticiones \in Seq(Peticion)
    BY <1>1 DEF TypeOK, Peticion
  <2>2. QED
    BY <2>1, Campos
<1>3. ASSUME IniciarProceso
      PROVE  Orden' /\ EnCurso' /\ SinEsperas'
  <2>. DEFINE p == Head(peticiones).proc
  <2>1. /\ 1 \in DOMAIN peticiones /\ Head(peticiones) = peticiones[1]
        /\ \A k \in DOMAIN peticiones' :
             k + 1 \in DOMAIN peticiones /\ k + 1 # 1 /\ peticiones'[k] = peticiones[k + 1]
        /\ \A j, k \in DOMAIN peticiones' : j + 1 = k + 1 => j = k
        /\ p \in Procesos /\ peticiones[1].op = "INICIO_PROCESO" /\ p = peticiones[1].proc
    BY <1>3, TrasLlegar, LlegaTipo DEF IniciarProceso
  <2>2. estado[p] = "iniciando"
    BY <1>1, <2>1 DEF InicioPendiente
  <2>3. /\ estado'[p] = "ready" /\ \A q \in Procesos \ {p} : estado'[q] = estado[q]
        /\ UNCHANGED <<numero_de_tabla, tlb, pcCpu, adelantado, id_a_suspender>>
    BY <1>1, <1>3, <2>1 DEF IniciarProceso, TypeOK
  <2>. HIDE DEF p
  <2>4. UnoEjecuta'
    BY <1>1, <2>1, <2>2, <2>3 DEF UnoEjecuta, Ejecuta, TypeOK
  <2>5. InicioPendiente'
    <3>1. \A k \in DOMAIN peticiones' : peticiones'[k].op = "INICIO_PROCESO" =>
            peticiones'[k].proc \in Procesos \ {p} /\ estado[peticiones'[k].proc] = "iniciando"
      BY <1>1, <1>2, <2>1 DEF InicioPendiente
    <3>2. QED
      BY <1>1, <2>1, <2>3, <3>1 DEF InicioPendiente
  <2>6. SuspensionPendiente'
    BY <1>1, <1>2, <2>1, <2>2, <2>3 DEF SuspensionPendiente, TypeOK
  <2>7. QED
    BY <1>1, <1>3, <2>4, <2>5, <2>6 DEF IniciarProceso, EnCurso, SinEsperas
<1>4. ASSUME FinalizarProceso
      PROVE  Orden' /\ EnCurso' /\ SinEsperas'
  <2>1. /\ \A k \in DOMAIN peticiones' :
             k + 1 \in DOMAIN peticiones /\ k + 1 # 1 /\ peticiones'[k] = peticiones[k + 1]
        /\ \A j, k \in DOMAIN peticiones' : j + 1 = k + 1 => j = k
    BY <1>4, TrasLlegar DEF FinalizarProceso
  <2>2. UNCHANGED <<estado, numero_de_tabla, tlb, pcCpu, adelantado, id_a_suspender>>
    BY <1>4 DEF FinalizarProceso
  <2>3. UnoEjecuta'
    BY <1>1, <2>2 DEF UnoEjecuta, Ejecuta
  <2>4. InicioPendiente'
    BY <1>1, <2>1, <2>2 DEF InicioPendiente
  <2>5. SuspensionPendiente'
    BY <1>1, <2>1, <2>2 DEF SuspensionPendiente
  <2>6. QED
    BY <1>1, <1>4, <2>3, <2>4, <2>5 DEF FinalizarProceso, EnCurso, SinEsperas
<1>5. ASSUME IniciarSuspension
      PROVE  Orden' /\ EnCurso' /\ SinEsperas'
  <2>. DEFINE p == Head(peticiones).proc
  <2>1. /\ 1 \in DOMAIN peticiones /\ Head(peticiones) = peticiones[1]
        /\ \A k \in DOMAIN peticiones' :
             k + 1 \in DOMAIN peticiones /\ k + 1 # 1 /\ peticiones'[k] = peticiones[k + 1]
        /\ \A j, k \in DOMAIN peticiones' : j + 1 = k + 1 => j = k
        /\ p \in Procesos /\ peticiones[1].op = "SUSPENCION_PROCESO" /\ p = peticiones[1].proc
    BY <1>5, TrasLlegar, LlegaTipo DEF IniciarSuspension
  <2>2. /\ id_a_suspender' = p
        /\ UNCHANGED <<estado, numero_de_tabla, tlb, pcCpu, adelantado>>
    BY <1>5 DEF IniciarSuspension
  <2>. HIDE DEF p
  <2>3. UnoEjecuta'
    BY <1>1, <2>2 DEF UnoEjecuta, Ejecuta
  <2>4. InicioPendiente'
    BY <1>1, <2>1, <2>2 DEF InicioPendiente
  <2>5. SuspensionPendiente'
    <3>. SUFFICES ASSUME ~adelantado
                  PROVE  SuspensionPendiente'
      BY <2>2 DEF SuspensionPendiente
    <3>1. estado[p] = "suspendiendo"
      BY <1>1, <2>1 DEF SuspensionPendiente
    <3>2. \A k \in DOMAIN peticiones' : peticiones'[k].op = "SUSPENCION_PROCESO" =>
            estado[peticiones'[k].proc] = "suspendiendo" /\ peticiones'[k].proc # p
      BY <1>1, <2>1 DEF SuspensionPendiente
    <3>3. \A j, k \in DOMAIN peticiones' :
            /\ peticiones'[j].op = "SUSPENCION_PROCESO" /\ peticiones'[k].op = "SUSPENCION_PROCESO"
            /\ peticiones'[j].proc = peticiones'[k].proc
            => j = k
      BY <1>1, <2>1 DEF SuspensionPendiente
    <3>4. QED
      BY <2>2, <3>1, <3>2, <3>3 DEF SuspensionPendiente
  <2>6. EnCurso'
    BY <1>1, <1>5, <2>1, <2>2 DEF IniciarSuspension, EnCurso
  <2>7. QED
    BY <1>1, <2>2, <2>3, <2>4, <2>5, <2>6 DEF SinEsperas
<1>6. ASSUME SwapearPagina
      PROVE  Orden' /\ EnCurso' /\ SinEsperas'
  <2>1. \A p \in Procesos : presencia'[p] \subseteq presencia[p]
    BY <1>1, <1>6 DEF SwapearPagina, TypeOK
  <2>2. UNCHANGED <<kernel, marco, id_a_suspender, pcK, hiloCpu, numero_de_tabla>>
    BY <1>6 DEF SwapearPagina
  <2>3. EnCurso'
    BY <1>1, <2>1, <2>2 DEF EnCurso
  <2>4. QED
    BY <1>1, <2>2, <2>3
       DEF UnoEjecuta, Ejecuta, InicioPendiente, SuspensionPendiente, SinEsperas
<1>7. ASSUME DescartarPresentes
      PROVE  Orden' /\ EnCurso' /\ SinEsperas'
  <2>1. \A p \in Procesos : presencia'[p] \subseteq presencia[p]
    BY <1>1, <1>7 DEF DescartarPresentes, TypeOK
  <2>2. /\ UNCHANGED <<kernel, marco, id_a_suspender, hiloCpu, numero_de_tabla>>
        /\ pcK # "recibir"
    BY <1>7 DEF DescartarPresentes
  <2>3. EnCurso'
    BY <1>1, <2>1, <2>2 DEF EnCurso
  <2>4. QED
    BY <1>1, <2>2, <2>3
       DEF UnoEjecuta, Ejecuta, InicioPendiente, SuspensionPendiente, SinEsperas
<1>8. ASSUME LiberarMarcos \/ AvisarCpu
      PROVE  Orden' /\ EnCurso' /\ SinEsperas'
  <2>1. /\ UNCHANGED <<kernel, bits, marco, id_a_suspender, hiloCpu, numero_de_tabla>>
        /\ pcK # "recibir"
    BY <1>8 DEF LiberarMarcos, AvisarCpu
  <2>2. QED
    BY <1>1, <2>1
       DEF UnoEjecuta, Ejecuta, InicioPendiente, SuspensionPendiente, SinEsperas, EnCurso
<1>9. ASSUME ConfirmarSuspension
      PROVE  Orden' /\ EnCurso' /\ SinEsperas'
  <2>. DEFINE p == id_a_suspender
  <2>1. p \in Procesos
    BY <1>1, <1>9 DEF ConfirmarSuspension, EnCurso
  <2>2. /\ \A q \in Procesos \ {p} : estado'[q] = estado[q]
        /\ estado'[p] = IF estado[p] = "suspendiendo" THEN "suspendido" ELSE estado[p]
        /\ id_a_suspender' = Nadie /\ pcK' = "recibir"
        /\ UNCHANGED <<peticiones, adelantado, numero_de_tabla, tlb, pcCpu>>
    BY <1>1, <1>9, <2>1 DEF ConfirmarSuspension, TypeOK
  <2>3. UnoEjecuta'
    BY <1>1, <2>1, <2>2 DEF UnoEjecuta, Ejecuta, TypeOK
  <2>4. InicioPendiente'
    BY <1>1, <1>2, <2>1, <2>2 DEF InicioPendiente
  <2>5. SuspensionPendiente'
    BY <1>1, <1>2, <2>1, <2>2, ConstantesOK DEF SuspensionPendiente
  <2>6. QED
    BY <1>1, <1>9, <2>2, <2>3, <2>4, <2>5 DEF ConfirmarSuspension, EnCurso, SinEsperas
<1>10. QED
  BY <1>3, <1>4, <1>5, <1>6, <1>7, <1>8, <1>9 DEF AtenderKernel

-----------------------------------------------------------------------------
(* Types, and nobody waits.                                                *)

LEMMA InvInicial == Init => IInv
<1>. SUFFICES ASSUME Init
              PROVE  IInv
  OBVIOUS
<1>1. IsFiniteSet(tlb) /\ Cardinality(tlb) <= EntradasTlb
  <2>1. tlb = {} /\ Cardinality({}) = 0 /\ IsFiniteSet({})
    BY FS_EmptySet DEF Init
  <2>2. QED
    BY <2>1, ConstantesOK
<1>2. TypeOK
  <2>1. suspensiones \in 0..MaxSuspensiones
    BY ConstantesOK DEF Init
  <2>2. peticiones \in Seq([op : Operaciones, proc : Procesos])
    BY DEF Init
  <2>3. acceso \in [pagina : Paginas \union {Nadie}, escribe : BOOLEAN,
                    marco : Marcos \union {SinMarco}]
    BY DEF Init, SinAcceso
  <2>4. QED
    BY <1>1, <2>1, <2>2, <2>3 DEF Init, TypeOK, Estados
<1>3. EnCurso
  BY <1>1 DEF Init, EnCurso
<1>4. Orden
  BY DEF Init, Orden, UnoEjecuta, Ejecuta, InicioPendiente, SuspensionPendiente
<1>5. SinEsperas
  BY DEF Init, SinEsperas
<1>6. QED
  BY <1>2, <1>3, <1>4, <1>5 DEF IInv

LEMMA InvPaso == IInv /\ [Next]_vars => IInv'
<1>. SUFFICES ASSUME IInv, [Next]_vars
              PROVE  IInv'
  OBVIOUS
<1>1. CASE Planificar
  BY <1>1, TipoPlanificar, OrdenPlanificar DEF IInv
<1>2. CASE AtenderCpu
  BY <1>2, TipoAtenderCpu, OrdenAtenderCpu DEF IInv
<1>3. CASE AtenderKernel
  BY <1>3, TipoAtenderKernel, OrdenAtenderKernel DEF IInv
<1>4. CASE UNCHANGED vars
  BY <1>4 DEF vars, kernel, pedidos, bits, datos, hiloK, hiloCpu, IInv, TypeOK, EnCurso, Orden,
              UnoEjecuta, Ejecuta, InicioPendiente, SuspensionPendiente, SinEsperas
<1>5. QED
  BY <1>1, <1>2, <1>3, <1>4 DEF Next, Reposo

LEMMA InvSiempre == Spec => []IInv
  BY InvInicial, InvPaso, PTL DEF Spec

\* Every variable has its type, whatever processes do while memory suspends them.
THEOREM TipoCorrectoMemoria == Spec => []TypeOK
<1>1. IInv => TypeOK
  BY DEF IInv
<1>2. QED
  BY <1>1, InvSiempre, PTL

\* The CPU's thread waits on swap (memoria.c:734, 748) only if a process has come
\* back before memory confirmed its suspension: while none does, the process
\* being suspended is not the one that executes, and the global names this one.
THEOREM NadieEspera == Spec => []SinEsperas
<1>1. IInv => SinEsperas
  BY DEF IInv
<1>2. QED
  BY <1>1, InvSiempre, PTL

-----------------------------------------------------------------------------
(* Suspension.                                                             *)

\* DescartarPresentes takes the table of the process being suspended: the CPU
\* has not translated for another since.
DescartaElSuyo ==
  pcK = "swapear" /\ porSwapear = {} => numero_de_tabla = id_a_suspender

\* A process has no page present from when memory discards them until it is
\* admitted again.
Fuera ==
  ~adelantado =>
    /\ \A p \in Procesos : estado[p] = "suspendido" => presencia[p] = {}
    /\ pcK \in {"liberar", "avisar", "confirmar"} => presencia[id_a_suspender] = {}

LEMMA FueraPaso == IInv /\ DescartaElSuyo /\ Fuera /\ [Next]_vars => Fuera'
<1>. SUFFICES ASSUME IInv, DescartaElSuyo, Fuera, [Next]_vars, ~adelantado'
              PROVE  /\ \A p \in Procesos : estado'[p] = "suspendido" => presencia'[p] = {}
                     /\ pcK' \in {"liberar", "avisar", "confirmar"} =>
                          presencia'[id_a_suspender'] = {}
  BY DEF Fuera
<1>1. TypeOK /\ EnCurso /\ UnoEjecuta /\ SuspensionPendiente
  BY DEF IInv, Orden
<1>2. CASE Planificar
  <2>1. UNCHANGED <<presencia, pcK, id_a_suspender>>
    BY <1>2 DEF Planificar, Admitir, Despachar, Suspender, Despertar, Devolver,
                SinTocarMemoria, bits, hiloK
  <2>2. ~adelantado
    <3>1. CASE \E p \in Procesos : Despertar(p)
      BY <3>1, Zenon DEF Despertar
    <3>2. CASE ~\E p \in Procesos : Despertar(p)
      BY <1>2, <3>2 DEF Planificar, Admitir, Despachar, Suspender, Devolver, pedidos
    <3>. QED
      BY <3>1, <3>2
  <2>3. \A p \in Procesos : estado'[p] = "suspendido" => estado[p] = "suspendido"
    BY <1>1, <1>2 DEF Planificar, Admitir, Despachar, Suspender, Despertar, Devolver, TypeOK
  <2>. QED
    BY <2>1, <2>2, <2>3 DEF Fuera
\* The CPU brings pages only to the process that executes.
<1>3. CASE AtenderCpu
  <2>1. UNCHANGED <<adelantado, estado, pcK, id_a_suspender>>
    BY <1>3 DEF AtenderCpu, IniciarAcceso, EscribirMarco, EscribirSinPagina, MirarSwap,
                EsperarSwap, BuscarPresente, AsignarMarco, AsignarSinMarco, ElegirVictima,
                CargarPagina, Leer, SinTocarKernel, kernel, pedidos, hiloK
  <2>2. \/ presencia' = presencia
        \/ /\ pcCpu # "libre"
           /\ \A p \in Procesos \ {numero_de_tabla} : presencia'[p] = presencia[p]
    BY <1>1, <1>3
       DEF AtenderCpu, IniciarAcceso, EscribirMarco, EscribirSinPagina, MirarSwap,
           EsperarSwap, BuscarPresente, AsignarMarco, AsignarSinMarco, ElegirVictima,
           CargarPagina, Leer, bits, TypeOK
  <2>3. CASE presencia' = presencia
    BY <2>1, <2>3 DEF Fuera
  <2>4. CASE /\ pcCpu # "libre"
             /\ \A p \in Procesos \ {numero_de_tabla} : presencia'[p] = presencia[p]
    <3>1. estado[numero_de_tabla] = "exec"
      BY <1>1, <2>4 DEF UnoEjecuta, Ejecuta
    <3>2. pcK # "recibir" => id_a_suspender \in Procesos \ {numero_de_tabla}
      BY <1>1, <2>1, <3>1, ConstantesOK DEF EnCurso, SuspensionPendiente
    <3>. QED
      BY <2>1, <2>4, <3>1, <3>2 DEF Fuera
  <2>. QED
    BY <2>2, <2>3, <2>4
<1>4. CASE AtenderKernel
  <2>1. ~adelantado
    BY <1>4 DEF AtenderKernel, IniciarProceso, FinalizarProceso, IniciarSuspension, SwapearPagina,
                DescartarPresentes, LiberarMarcos, AvisarCpu, ConfirmarSuspension, kernel, pedidos
  <2>2. CASE IniciarProceso
    <3>1. /\ UNCHANGED <<presencia, pcK, id_a_suspender>> /\ Head(peticiones).proc \in Procesos
          /\ estado' = [estado EXCEPT ![Head(peticiones).proc] = "ready"]
      BY <2>2, LlegaTipo DEF IniciarProceso, bits, hiloK, Operaciones
    <3>. QED
      BY <1>1, <2>1, <3>1 DEF Fuera, TypeOK
  <2>3. CASE FinalizarProceso
    BY <2>1, <2>3 DEF FinalizarProceso, Fuera, bits, hiloK
  <2>4. CASE IniciarSuspension
    BY <2>1, <2>4 DEF IniciarSuspension, Fuera, bits
  <2>5. CASE SwapearPagina
    <3>1. /\ \A p \in Procesos : presencia'[p] \subseteq presencia[p]
          /\ estado' = estado /\ pcK' = "swapear"
      BY <1>1, <2>5 DEF SwapearPagina, TypeOK, kernel
    <3>. QED
      BY <2>1, <3>1 DEF Fuera
  <2>6. CASE DescartarPresentes
    <3>1. /\ \A p \in Procesos : presencia'[p] \subseteq presencia[p]
          /\ presencia'[numero_de_tabla] = {} /\ numero_de_tabla = id_a_suspender
          /\ UNCHANGED <<estado, id_a_suspender>>
      BY <1>1, <2>6 DEF DescartarPresentes, TypeOK, kernel, DescartaElSuyo
    <3>. QED
      BY <2>1, <3>1 DEF Fuera
  <2>7. CASE LiberarMarcos \/ AvisarCpu
    BY <2>1, <2>7 DEF LiberarMarcos, AvisarCpu, Fuera, kernel, bits
  <2>8. CASE ConfirmarSuspension
    <3>1. id_a_suspender \in Procesos /\ presencia[id_a_suspender] = {}
      BY <1>1, <2>1, <2>8 DEF ConfirmarSuspension, EnCurso, Fuera
    <3>2. /\ presencia' = presencia /\ pcK' = "recibir"
          /\ \A p \in Procesos \ {id_a_suspender} : estado'[p] = estado[p]
      BY <1>1, <2>8 DEF ConfirmarSuspension, bits, TypeOK
    <3>. QED
      BY <2>1, <3>1, <3>2 DEF Fuera
  <2>. QED
    BY <1>4, <2>2, <2>3, <2>4, <2>5, <2>6, <2>7, <2>8 DEF AtenderKernel
<1>5. CASE UNCHANGED vars
  BY <1>5 DEF vars, kernel, pedidos, bits, hiloK, Fuera
<1>. QED
  BY <1>2, <1>3, <1>4, <1>5 DEF Next, Reposo

\* What kernel.h:73 says of SUSPENCION_PROCESO is true exactly as far as the global
\* that encontrar_paginas_en_memoria looks at is right (memoria.c:199): if each time
\* the pages are discarded the CPU has last translated for the process being
\* suspended, a suspended process has no page present.
THEOREM SuspendidosFuera == Spec /\ []DescartaElSuyo => []SuspendidoFuera
<1>1. Init => Fuera
  BY DEF Init, Fuera
<1>2. Fuera => SuspendidoFuera
  BY DEF Fuera, SuspendidoFuera
<1>. QED
  BY <1>1, <1>2, FueraPaso, InvSiempre, PTL DEF Spec

\* With one process the global can name no other (memoria.c:199, kernel.h:73).
THEOREM SuspendidoSolo ==
  ASSUME \A p, q \in Procesos : p = q
  PROVE  Spec => []SuspendidoFuera
<1>1. IInv => DescartaElSuyo
  BY DEF IInv, TypeOK, EnCurso, DescartaElSuyo
<1>. QED
  BY <1>1, InvSiempre, SuspendidosFuera, PTL
=============================================================================
