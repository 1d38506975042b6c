-------------------------- MODULE MemoriaFielProofs --------------------------
(***************************************************************************)
(* What is proved of the contents and the frames of Memoria: every access  *)
(* reaches the last written content of its page, nothing written is lost,  *)
(* frames are neither shared nor leaked, and there is one for each page    *)
(* that needs it.  For any processes, pages, frames and degree, and either *)
(* algorithm:                                                              *)
(*                                                                         *)
(*   with any suspensions and TLB, as long as nothing is done to one       *)
(*   process on behalf of another (NadieEstorba) and, for the frames, none *)
(*   is admitted again while memory owes an end (ReadmiteSinDeudas);       *)
(*                                                                         *)
(*   with no hypothesis on the behaviour where there are no suspensions,   *)
(*   or only one process, and the TLB has one entry.                       *)
(***************************************************************************)
EXTENDS MemoriaProofs, FunctionTheorems

-----------------------------------------------------------------------------
(* The contents and the frames: the invariant.                             *)

\* No process is ever suspended, or there is no other that it could disturb.
Aislado == MaxSuspensiones = 0 \/ \A p, q \in Procesos : p = q

SinSuspensiones ==
  /\ suspensiones = 0 /\ ~adelantado
  /\ pcK = "recibir" /\ id_a_suspender = Nadie
  /\ \A p \in Procesos : estado[p] \notin {"suspendiendo", "suspendido"}
  /\ \A k \in DOMAIN peticiones : peticiones[k].op # "SUSPENCION_PROCESO"

\* A request to end finds its process as it was sent.
FinPendiente ==
  /\ \A k \in DOMAIN peticiones :
       peticiones[k].op = "FINALIZACION_PROCESO" => estado[peticiones[k].proc] = "exit"
  /\ \A j, k \in DOMAIN peticiones :
       /\ peticiones[j].op = "FINALIZACION_PROCESO"
       /\ peticiones[k].op = "FINALIZACION_PROCESO"
       /\ peticiones[j].proc = peticiones[k].proc
       => j = k

\* Without suspensions, a page that has left keeps the number of a frame that
\* another page of the same process has.
MarcoPresente ==
  \A p \in Procesos, x \in Paginas : marco[<<p, x>>] # SinMarco =>
    \E y \in presencia[p] : marco[<<p, y>>] = marco[<<p, x>>]

\* The frames of p are still its own.
EnUso(p, x) == p \in Retenidos /\ x \in presencia[p]

SinCompartir ==
  \A p, q \in Procesos, x, y \in Paginas :
    EnUso(p, x) /\ EnUso(q, y) /\ marco[<<p, x>>] = marco[<<q, y>>] => p = q /\ x = y

EnElMapa ==
  \A p \in Procesos, x \in Paginas : EnUso(p, x) => marco[<<p, x>>] \in ocupados

SinFugas ==
  \A m \in ocupados :
    m \in PorLiberar \/ \E p \in Procesos, x \in Paginas : EnUso(p, x) /\ marco[<<p, x>>] = m

Marcados ==
  (MaxSuspensiones = 0 => MarcoPresente) /\ SinCompartir /\ EnElMapa /\ SinFugas

\* Each page is current in its frame, or else in the swap file.
Copias ==
  \A p \in Procesos, x \in Paginas : Vivo(p) =>
    /\ x \in presencia[p] => marco[<<p, x>>] \in vigente[<<p, x>>]
    /\ x \notin presencia[p] => x \in enSwap[p]

\* A page that is not current in the swap file is marked.
Bits ==
  \A p \in Procesos, x \in Paginas : Vivo(p) /\ x \in presencia[p] =>
    x \in enSwap[p] \/ x \in modificada[p]

EnTabla(p, x, m) == x \in presencia[p] /\ marco[<<p, x>>] = m

\* What the CPU holds, in its TLB or for the access under way, agrees with the
\* tables of the process that executes.
CpuAlDia ==
  /\ \A e \in tlb : EnTabla(numero_de_tabla, e.pagina, e.marco)
  /\ pcCpu \in {"tercero", "acceder"} =>
       EnTabla(numero_de_tabla, acceso.pagina, acceso.marco)
  /\ pcCpu = "reemplazar" => /\ victima \in presencia[numero_de_tabla]
                             /\ acceso.pagina \notin presencia[numero_de_tabla]

\* What is left to write of a process being suspended are its marked pages.
EnSuspension ==
  /\ pcK = "swapear" => /\ porSwapear \subseteq presencia[id_a_suspender]
                        /\ \A x \in presencia[id_a_suspender] \ porSwapear :
                             x \notin modificada[id_a_suspender]
  /\ pcK = "liberar" => presencia[id_a_suspender] = {}

Tablas == Marcados /\ Copias /\ Bits /\ CpuAlDia /\ EnSuspension

Fiel == (MaxSuspensiones = 0 => SinSuspensiones) /\ FinPendiente /\ Tablas

\* What the code does to a process on behalf of another.  The frames that p has
\* or had are given back although a page of another is in one of them.
Ajeno(p) ==
  \E q \in Procesos \ {p}, x \in Paginas : EnUso(q, x) /\ marco[<<q, x>>] \in MarcosDe(p)

LlegaFin ==
  pcK = "recibir" /\ peticiones # <<>> /\ Head(peticiones).op = "FINALIZACION_PROCESO"

\* liberar_marcos_proceso gives back no frame that is another's by now.
LiberaLoSuyo ==
  /\ pcK = "liberar" => ~Ajeno(id_a_suspender)
  /\ LlegaFin => ~Ajeno(Head(peticiones).proc)

\* No page leaves memory while the TLB has an entry of it.
TlbPresente == \A e \in tlb : e.pagina \in presencia[numero_de_tabla]

\* None of the three happens, until a process comes back before memory has
\* confirmed its suspension.
NadieEstorba == ~adelantado => DescartaElSuyo /\ LiberaLoSuyo /\ TlbPresente

-----------------------------------------------------------------------------
(* Who still has frames.                                                   *)

\* A request is its operation and its process.
LEMMA PeticionEs ==
  ASSUME NEW s \in Seq(Peticion), NEW op \in Operaciones, NEW p \in Procesos, NEW k \in DOMAIN s
  PROVE  s[k] = [op |-> op, proc |-> p] <=> s[k].op = op /\ s[k].proc = p
<1>1. s[k] \in Peticion
  OBVIOUS
<1>2. QED
  BY <1>1 DEF Peticion

LEMMA RetenidosEs ==
  ASSUME TypeOK, NEW p \in Procesos
  PROVE  p \in Retenidos <=> \/ Vivo(p)
                             \/ \E k \in DOMAIN peticiones :
                                  /\ peticiones[k].op = "FINALIZACION_PROCESO"
                                  /\ peticiones[k].proc = p
<1>1. peticiones \in Seq(Peticion) /\ "FINALIZACION_PROCESO" \in Operaciones
  BY DEF TypeOK, Peticion, Operaciones
<1>2. \A k \in DOMAIN peticiones :
        peticiones[k] = [op |-> "FINALIZACION_PROCESO", proc |-> p]
          <=> peticiones[k].op = "FINALIZACION_PROCESO" /\ peticiones[k].proc = p
  BY <1>1, PeticionEs
<1>3. QED
  BY <1>2 DEF Retenidos

\* The same of the next state.
LEMMA RetenidosSeran ==
  ASSUME TypeOK', NEW p \in Procesos
  PROVE  p \in Retenidos' <=> \/ Vivo(p)'
                              \/ \E k \in DOMAIN peticiones' :
                                   /\ peticiones'[k].op = "FINALIZACION_PROCESO"
                                   /\ peticiones'[k].proc = p
<1>1. peticiones' \in Seq(Peticion) /\ "FINALIZACION_PROCESO" \in Operaciones
  BY DEF TypeOK, Peticion, Operaciones
<1>2. \A k \in DOMAIN peticiones' :
        peticiones'[k] = [op |-> "FINALIZACION_PROCESO", proc |-> p]
          <=> peticiones'[k].op = "FINALIZACION_PROCESO" /\ peticiones'[k].proc = p
  BY <1>1, PeticionEs
<1>3. QED
  BY <1>2 DEF Retenidos

\* Nothing that the tables say changes, and nobody's frames are released.
LEMMA FielSinCambios ==
  ASSUME TypeOK, Fiel, Retenidos' = Retenidos,
         UNCHANGED <<presencia, modificada, marco, ocupados, vigente, enSwap,
                     pcK, id_a_suspender, porSwapear>>,
         \A p \in Procesos : Vivo(p)' => Vivo(p)
  PROVE  Marcados' /\ Copias' /\ Bits' /\ EnSuspension'
<1>1. \A p, x : EnUso(p, x)' <=> EnUso(p, x)
  BY DEF EnUso
<1>2. Marcados /\ Copias /\ Bits /\ EnSuspension
  BY DEF Fiel, Tablas
<1>3. Marcados'
  <2>1. ASSUME MarcoPresente PROVE MarcoPresente'
    BY <2>1 DEF MarcoPresente
  <2>2. SinCompartir'
    BY <1>1, <1>2 DEF Marcados, SinCompartir
  <2>3. EnElMapa'
    BY <1>1, <1>2 DEF Marcados, EnElMapa
  <2>4. SinFugas'
    <3>1. PorLiberar' = PorLiberar
      BY DEF PorLiberar, MarcosDe
    <3>2. QED
      BY <1>1, <1>2, <3>1 DEF Marcados, SinFugas
  <2>5. QED
    BY <1>2, <2>1, <2>2, <2>3, <2>4 DEF Marcados
<1>4. Copias'
  BY <1>2 DEF Copias
<1>5. Bits'
  BY <1>2 DEF Bits
<1>6. EnSuspension'
  BY <1>2 DEF EnSuspension
<1>7. QED
  BY <1>3, <1>4, <1>5, <1>6

\* While a process is being suspended the CPU has nothing of it.
LEMMA CpuAparte ==
  ASSUME IInv, Fiel, ~adelantado, pcK # "recibir"
  PROVE  /\ id_a_suspender \in Procesos /\ estado[id_a_suspender] = "suspendiendo"
         /\ pcCpu # "libre" \/ tlb # {} => numero_de_tabla # id_a_suspender
         /\ MaxSuspensiones # 0
<1>1. id_a_suspender \in Procesos
  BY DEF IInv, EnCurso
<1>2. MaxSuspensiones # 0
  BY DEF Fiel, SinSuspensiones
<1>3. estado[id_a_suspender] = "suspendiendo"
  BY <1>1, ConstantesOK DEF IInv, Orden, SuspensionPendiente
<1>4. pcCpu # "libre" \/ tlb # {} => numero_de_tabla # id_a_suspender
  BY <1>3 DEF IInv, Orden, UnoEjecuta, Ejecuta
<1>. QED
  BY <1>1, <1>2, <1>3, <1>4

\* With one process, or none suspended, nothing of another is touched: a frame
\* of p that a page of another had would be one of a page present of p.
LEMMA AisladoNoEstorba ==
  ASSUME Aislado, IInv, Fiel
  PROVE  DescartaElSuyo /\ LiberaLoSuyo
<1>1. CASE \A p, q \in Procesos : p = q
  <2>1. DescartaElSuyo
    BY <1>1 DEF IInv, TypeOK, EnCurso, DescartaElSuyo
  <2>2. \A p \in Procesos : ~Ajeno(p)
    BY <1>1 DEF Ajeno
  <2>3. pcK = "liberar" => id_a_suspender \in Procesos
    BY DEF IInv, EnCurso
  <2>4. LlegaFin => Head(peticiones).proc \in Procesos
    BY DelFrente DEF LlegaFin, IInv, TypeOK, Peticion
  <2>. QED
    BY <2>1, <2>2, <2>3, <2>4 DEF LiberaLoSuyo
<1>2. CASE MaxSuspensiones = 0
  <2>1. pcK = "recibir" /\ DescartaElSuyo
    BY <1>2 DEF Fiel, SinSuspensiones, DescartaElSuyo
  <2>2. SUFFICES ASSUME LlegaFin, NEW q \in Procesos \ {Head(peticiones).proc}, NEW x \in Paginas,
                        EnUso(q, x), marco[<<q, x>>] \in MarcosDe(Head(peticiones).proc)
                 PROVE  FALSE
    BY <2>1 DEF LiberaLoSuyo, Ajeno
  <2>. DEFINE p == Head(peticiones).proc
  <2>3. /\ p \in Procesos /\ 1 \in DOMAIN peticiones
        /\ peticiones[1].op = "FINALIZACION_PROCESO" /\ peticiones[1].proc = p
    <3>1. peticiones \in Seq(Peticion) /\ peticiones # <<>>
      BY <2>2 DEF IInv, TypeOK, Peticion, LlegaFin
    <3>2. 1 \in DOMAIN peticiones /\ Head(peticiones) = peticiones[1]
      BY <3>1, DelFrente
    <3>3. peticiones[1].proc \in Procesos
      BY <3>1, <3>2, Campos
    <3>. QED
      BY <2>2, <3>2, <3>3 DEF LlegaFin
  <2>4. p \in Retenidos
    BY <2>3, RetenidosEs DEF IInv
  <2>. HIDE DEF p
  <2>5. PICK y \in Paginas : marco[<<p, y>>] = marco[<<q, x>>] /\ marco[<<p, y>>] # SinMarco
    BY <2>2 DEF MarcosDe, p
  <2>6. PICK z \in presencia[p] : marco[<<p, z>>] = marco[<<p, y>>]
    BY <1>2, <2>3, <2>5 DEF Fiel, Tablas, Marcados, MarcoPresente
  <2>7. z \in Paginas /\ EnUso(p, z)
    BY <2>3, <2>4, <2>6 DEF IInv, TypeOK, EnUso
  <2>. QED
    BY <2>2, <2>3, <2>5, <2>6, <2>7 DEF Fiel, Tablas, Marcados, SinCompartir, p
<1>. QED
  BY <1>1, <1>2 DEF Aislado

-----------------------------------------------------------------------------
(* The kernel's steps.                                                     *)

LEMMA FielPlanificar ==
  ASSUME IInv, TypeOK', Fiel, ~adelantado', Planificar
  PROVE  Fiel'
<1>. USE DEF SinTocarMemoria, pedidos, hiloCpu, bits, datos, hiloK, Operaciones
<1>1. TypeOK /\ EnCurso /\ Orden /\ FinPendiente /\ CpuAlDia
      /\ (MaxSuspensiones = 0 => SinSuspensiones)
  BY DEF IInv, Fiel, Tablas
<1>2. \A k \in DOMAIN peticiones : peticiones[k].proc \in Procesos
  BY <1>1, Campos DEF TypeOK, Peticion
<1>3. UNCHANGED <<presencia, modificada, marco, ocupados, vigente, enSwap, numero_de_tabla,
                  pcK, id_a_suspender, porSwapear, caido>>
  BY DEF Planificar, Admitir, Despachar, Suspender, Despertar, Devolver
\* A request that is not to end.
<1>4. ASSUME NEW p \in Procesos, NEW op \in {"INICIO_PROCESO", "SUSPENCION_PROCESO"},
             \/ estado[p] = "nuevo" /\ estado'[p] = "iniciando" /\ op = "INICIO_PROCESO"
             \/ estado[p] = "blocked" /\ estado'[p] = "suspendiendo" /\ MaxSuspensiones # 0,
             Pedir(op, p), MaxSuspensiones = 0 => suspensiones' = suspensiones,
             \A q \in Procesos \ {p} : estado'[q] = estado[q],
             UNCHANGED <<adelantado, tlb, pcCpu, acceso, victima>>
      PROVE  Fiel'
  <2>2. \A k \in DOMAIN peticiones' :
          \/ k \in DOMAIN peticiones /\ peticiones'[k] = peticiones[k]
          \/ /\ k = Len(peticiones) + 1 /\ k \notin DOMAIN peticiones
             /\ peticiones'[k].op = op /\ peticiones'[k].proc = p
    BY <1>4, TrasPedir
  <2>3. \A k \in DOMAIN peticiones : k \in DOMAIN peticiones' /\ peticiones'[k] = peticiones[k]
    BY <1>1, <1>4, AlFinal DEF Pedir, TypeOK, Peticion
  <2>4. \A q \in Procesos : Vivo(q)' <=> Vivo(q)
    BY <1>4 DEF Vivo
  <2>5. Retenidos' = Retenidos
    <3>1. \A q \in Procesos : q \in Retenidos' <=> q \in Retenidos
      BY <1>1, <2>2, <2>3, <2>4, RetenidosEs, RetenidosSeran
    <3>2. QED
      BY <3>1 DEF Retenidos
  <2>6. MaxSuspensiones = 0 => SinSuspensiones'
    BY <1>1, <1>3, <1>4, <2>2 DEF SinSuspensiones
  <2>7. FinPendiente'
    BY <1>1, <1>2, <1>4, <2>2 DEF FinPendiente
  <2>8. CpuAlDia'
    BY <1>1, <1>3, <1>4 DEF CpuAlDia, EnTabla
  <2>9. QED
    BY <1>1, <1>3, <2>4, <2>5, <2>6, <2>7, <2>8, FielSinCambios DEF Fiel, Tablas
\* No request.
<1>5. ASSUME NEW p \in Procesos, estado[p] \in {"ready", "blocked", "suspendido"},
             estado'[p] \in {"ready", "exec"}, \A q \in Procesos \ {p} : estado'[q] = estado[q],
             UNCHANGED <<suspensiones, adelantado, peticiones, tlb, pcCpu, acceso, victima>>
      PROVE  Fiel'
  <2>2. \A q \in Procesos : Vivo(q)' <=> Vivo(q)
    BY <1>5 DEF Vivo
  <2>3. Retenidos' = Retenidos
    <3>1. \A q \in Procesos : q \in Retenidos' <=> q \in Retenidos
      BY <1>1, <1>5, <2>2, RetenidosEs, RetenidosSeran
    <3>2. QED
      BY <3>1 DEF Retenidos
  <2>4. MaxSuspensiones = 0 => SinSuspensiones'
    BY <1>1, <1>3, <1>5 DEF SinSuspensiones
  <2>5. FinPendiente'
    BY <1>1, <1>2, <1>5 DEF FinPendiente
  <2>6. CpuAlDia'
    BY <1>1, <1>3, <1>5 DEF CpuAlDia, EnTabla
  <2>7. QED
    BY <1>1, <1>3, <2>2, <2>3, <2>4, <2>5, <2>6, FielSinCambios DEF Fiel, Tablas
<1>6. ASSUME NEW p \in Procesos, Admitir(p) \/ Despachar(p) \/ Suspender(p) \/ Despertar(p)
      PROVE  Fiel'
  <2>1. CASE Admitir(p) /\ estado[p] = "nuevo"
    <3>1. /\ estado'[p] = "iniciando" /\ Pedir("INICIO_PROCESO", p)
          /\ \A q \in Procesos \ {p} : estado'[q] = estado[q]
          /\ UNCHANGED <<suspensiones, adelantado, tlb, pcCpu, acceso, victima>>
      BY <1>1, <2>1 DEF Admitir, TypeOK
    <3>. QED
      BY <1>4, <2>1, <3>1
  <2>2. CASE \/ Admitir(p) /\ estado[p] # "nuevo"
             \/ Despachar(p) \/ Despertar(p)
    <3>1. /\ estado[p] \in {"ready", "blocked", "suspendido", "suspendiendo"}
          /\ estado'[p] \in {"ready", "exec"}
          /\ \A q \in Procesos \ {p} : estado'[q] = estado[q]
          /\ UNCHANGED <<suspensiones, peticiones, tlb, pcCpu, acceso, victima>>
      BY <1>1, <2>2 DEF Admitir, Despachar, Despertar, TypeOK
    <3>2. estado[p] # "suspendiendo" /\ adelantado' = adelantado
      <4>1. CASE Despertar(p)
        <5>1. adelantado' = (adelantado \/ estado[p] = "suspendiendo")
          BY <4>1 DEF Despertar
        <5>. QED
          BY <1>1, <5>1 DEF TypeOK
      <4>2. CASE ~Despertar(p)
        BY <2>2, <4>2 DEF Admitir, Despachar
      <4>. QED
        BY <4>1, <4>2
    <3>. QED
      BY <1>5, <3>1, <3>2
  <2>3. CASE Suspender(p)
    <3>1. /\ estado[p] = "blocked" /\ estado'[p] = "suspendiendo" /\ Pedir("SUSPENCION_PROCESO", p)
          /\ \A q \in Procesos \ {p} : estado'[q] = estado[q]
          /\ UNCHANGED <<adelantado, tlb, pcCpu, acceso, victima>>
      BY <1>1, <2>3 DEF Suspender, TypeOK
    <3>2. MaxSuspensiones # 0
      BY <1>1, <2>3 DEF Suspender, TypeOK
    <3>. QED
      BY <1>4, <3>1, <3>2
  <2>. QED
    BY <1>6, <2>1, <2>2, <2>3
<1>7. ASSUME NEW p \in Procesos, NEW a \in {"ready", "blocked", "exit"}, Devolver(p, a)
      PROVE  Fiel'
  <2>1. /\ estado[p] = "exec" /\ estado'[p] = a
        /\ \A q \in Procesos \ {p} : estado'[q] = estado[q]
        /\ pcCpu = "libre" /\ tlb' = {}
        /\ UNCHANGED <<suspensiones, adelantado, pcCpu, acceso, victima>>
    BY <1>1, <1>7 DEF Devolver, Ejecuta, TypeOK
  <2>2. /\ \A k \in DOMAIN peticiones' :
             \/ k \in DOMAIN peticiones /\ peticiones'[k] = peticiones[k]
             \/ /\ a = "exit" /\ k = Len(peticiones) + 1 /\ k \notin DOMAIN peticiones
                /\ peticiones'[k].op = "FINALIZACION_PROCESO" /\ peticiones'[k].proc = p
        /\ \A k \in DOMAIN peticiones : k \in DOMAIN peticiones' /\ peticiones'[k] = peticiones[k]
        /\ a = "exit" => \E k \in DOMAIN peticiones' :
             peticiones'[k].op = "FINALIZACION_PROCESO" /\ peticiones'[k].proc = p
    <3>1. CASE a = "exit"
      <4>. DEFINE e == [op |-> "FINALIZACION_PROCESO", proc |-> p]
      <4>1. peticiones' = Append(peticiones, e) /\ peticiones \in Seq(Peticion) /\ e \in Peticion
        BY <1>1, <1>7, <3>1 DEF Devolver, Pedir, TypeOK, Peticion
      <4>2. e.op = "FINALIZACION_PROCESO" /\ e.proc = p
        OBVIOUS
      <4>. HIDE DEF e
      <4>3. /\ DOMAIN peticiones' = DOMAIN peticiones \union {Len(peticiones) + 1}
            /\ Len(peticiones) + 1 \notin DOMAIN peticiones
            /\ peticiones'[Len(peticiones) + 1] = e
            /\ \A k \in DOMAIN peticiones : peticiones'[k] = peticiones[k]
        BY <4>1, AlFinal
      <4>4. QED
        BY <3>1, <4>2, <4>3
    <3>2. CASE a # "exit"
      BY <1>7, <3>2 DEF Devolver
    <3>3. QED
      BY <3>1, <3>2
  <2>3. \A q \in Procesos : /\ q # p => (Vivo(q)' <=> Vivo(q))
                            /\ Vivo(p) /\ (Vivo(p)' <=> a # "exit")
    BY <2>1 DEF Vivo
  <2>4. Retenidos' = Retenidos
    <3>1. \A q \in Procesos : q \in Retenidos' <=> q \in Retenidos
      BY <1>1, <2>2, <2>3, RetenidosEs, RetenidosSeran
    <3>2. QED
      BY <3>1 DEF Retenidos
  <2>5. MaxSuspensiones = 0 => SinSuspensiones'
    BY <1>1, <1>3, <2>1, <2>2 DEF SinSuspensiones
  <2>6. FinPendiente'
    BY <1>1, <1>2, <2>1, <2>2 DEF FinPendiente
  <2>7. CpuAlDia'
    BY <1>1, <1>3, <2>1 DEF CpuAlDia, EnTabla
  <2>8. QED
    BY <1>1, <1>3, <2>3, <2>4, <2>5, <2>6, <2>7, FielSinCambios DEF Fiel, Tablas
<1>8. QED
  BY <1>6, <1>7 DEF Planificar

-----------------------------------------------------------------------------
(* The thread that serves the kernel.                                      *)

LEMMA FielAtenderKernel ==
  ASSUME DescartaElSuyo, LiberaLoSuyo, IInv, TypeOK', Fiel, ~adelantado, AtenderKernel
  PROVE  Fiel'
<1>. USE DEF SinTocarCpu, kernel, pedidos, hiloCpu, bits, datos, hiloK, Operaciones
<1>1. /\ TypeOK /\ EnCurso /\ Orden /\ FinPendiente
      /\ Marcados /\ Copias /\ Bits /\ CpuAlDia /\ EnSuspension
      /\ (MaxSuspensiones = 0 => SinSuspensiones)
  BY DEF IInv, Fiel, Tablas
<1>2. ASSUME NEW op \in Operaciones, Llega(op)
      PROVE  /\ 1 \in DOMAIN peticiones /\ Head(peticiones) = peticiones[1]
             /\ peticiones[1].op = op /\ Head(peticiones).proc \in Procesos
             /\ \A k \in DOMAIN peticiones' :
                  k + 1 \in DOMAIN peticiones /\ k + 1 # 1 /\ peticiones'[k] = peticiones[k + 1]
             /\ \A j, k \in DOMAIN peticiones' : j + 1 = k + 1 => j = k
             /\ \A k \in DOMAIN peticiones : peticiones[k].proc \in Procesos
             /\ \A k \in DOMAIN peticiones : k = 1 \/ \E j \in DOMAIN peticiones' : k = j + 1
  <2>1. peticiones \in Seq(Peticion) /\ peticiones # <<>> /\ peticiones' = Tail(peticiones)
        /\ Head(peticiones).proc \in Procesos /\ Head(peticiones).op = op
    BY <1>2, LlegaTipo
  <2>2. \A k \in DOMAIN peticiones : k = 1 \/ \E j \in DOMAIN peticiones' : k = j + 1
    <3>1. /\ Len(peticiones) \in Nat /\ DOMAIN peticiones = 1..Len(peticiones)
          /\ DOMAIN peticiones' = 1..(Len(peticiones) - 1)
      BY <2>1
    <3>2. ASSUME NEW k \in DOMAIN peticiones, k # 1
          PROVE  k - 1 \in DOMAIN peticiones' /\ k = (k - 1) + 1
      BY <3>1, <3>2
    <3>3. QED
      BY <3>2
  <2>3. QED
    BY <1>2, <2>1, <2>2, TrasLlegar
<1>3. ASSUME IniciarProceso
      PROVE  Fiel'
  <2>. DEFINE p == Head(peticiones).proc
  <2>1. /\ 1 \in DOMAIN peticiones /\ p = peticiones[1].proc /\ p \in Procesos
        /\ peticiones[1].op = "INICIO_PROCESO"
        /\ \A k \in DOMAIN peticiones' :
             k + 1 \in DOMAIN peticiones /\ k + 1 # 1 /\ peticiones'[k] = peticiones[k + 1]
        /\ \A j, k \in DOMAIN peticiones' : j + 1 = k + 1 => j = k
        /\ \A k \in DOMAIN peticiones : peticiones[k].proc \in Procesos
        /\ \A k \in DOMAIN peticiones : k = 1 \/ \E j \in DOMAIN peticiones' : k = j + 1
    BY <1>2, <1>3 DEF IniciarProceso
  <2>2. estado[p] = "iniciando"
    BY <1>1, <2>1 DEF Orden, InicioPendiente
  <2>3. /\ estado'[p] = "ready" /\ \A q \in Procesos \ {p} : estado'[q] = estado[q]
        /\ UNCHANGED <<suspensiones, adelantado, presencia, modificada, marco, ocupados,
                       vigente, enSwap, numero_de_tabla, id_a_suspender, pcK, porSwapear,
                       pcCpu, acceso, victima, tlb>>
    BY <1>1, <1>3, <2>1 DEF IniciarProceso, TypeOK
  <2>. HIDE DEF p
  <2>4. \A q \in Procesos : Vivo(q)' <=> Vivo(q)
    BY <2>2, <2>3 DEF Vivo
  <2>5. Retenidos' = Retenidos
    <3>1. ASSUME NEW q \in Procesos
          PROVE  (\E k \in DOMAIN peticiones' : peticiones'[k].op = "FINALIZACION_PROCESO"
                                                /\ peticiones'[k].proc = q)
                 <=> (\E k \in DOMAIN peticiones : peticiones[k].op = "FINALIZACION_PROCESO"
                                                   /\ peticiones[k].proc = q)
      BY <2>1
    <3>2. \A q \in Procesos : q \in Retenidos' <=> q \in Retenidos
      BY <1>1, <2>4, <3>1, RetenidosEs, RetenidosSeran
    <3>3. QED
      BY <3>2 DEF Retenidos
  <2>6. MaxSuspensiones = 0 => SinSuspensiones'
    BY <1>1, <2>1, <2>3 DEF SinSuspensiones
  <2>7. FinPendiente'
    <3>1. \A k \in DOMAIN peticiones' : peticiones'[k].op = "FINALIZACION_PROCESO" =>
            estado'[peticiones'[k].proc] = "exit"
      BY <1>1, <2>1, <2>2, <2>3 DEF FinPendiente
    <3>2. QED
      BY <1>1, <2>1, <3>1 DEF FinPendiente
  <2>8. CpuAlDia'
    BY <1>1, <2>3 DEF CpuAlDia, EnTabla
  <2>9. QED
    BY <1>1, <2>3, <2>4, <2>5, <2>6, <2>7, <2>8, FielSinCambios DEF Fiel, Tablas
<1>4. ASSUME FinalizarProceso
      PROVE  Fiel'
  <2>. DEFINE p == Head(peticiones).proc
  <2>1. /\ 1 \in DOMAIN peticiones /\ p = peticiones[1].proc /\ p \in Procesos
        /\ peticiones[1].op = "FINALIZACION_PROCESO"
        /\ \A k \in DOMAIN peticiones' :
             k + 1 \in DOMAIN peticiones /\ k + 1 # 1 /\ peticiones'[k] = peticiones[k + 1]
        /\ \A j, k \in DOMAIN peticiones' : j + 1 = k + 1 => j = k
        /\ \A k \in DOMAIN peticiones : peticiones[k].proc \in Procesos
        /\ \A k \in DOMAIN peticiones : k = 1 \/ \E j \in DOMAIN peticiones' : k = j + 1
    BY <1>2, <1>4 DEF FinalizarProceso
  <2>2. /\ ocupados' = ocupados \ MarcosDe(p) /\ pcK = "recibir" /\ pcK' = "recibir"
        /\ UNCHANGED <<estado, suspensiones, adelantado, presencia, modificada, marco,
                       vigente, enSwap, numero_de_tabla, id_a_suspender, pcK, pcCpu, acceso,
                       victima, tlb>>
    BY <1>4 DEF FinalizarProceso, Llega
  <2>0. ~Ajeno(p)
    BY <1>4 DEF FinalizarProceso, Llega, LlegaFin, LiberaLoSuyo
  <2>. HIDE DEF p
  <2>3. ~Vivo(p) /\ \A q \in Procesos : Vivo(q)' <=> Vivo(q)
    BY <1>1, <2>1, <2>2 DEF Vivo, FinPendiente
  <2>4. Retenidos' = Retenidos \ {p} /\ p \in Retenidos
    <3>1. ASSUME NEW q \in Procesos
          PROVE  (\E k \in DOMAIN peticiones' : peticiones'[k].op = "FINALIZACION_PROCESO"
                                                /\ peticiones'[k].proc = q)
                 <=> /\ q # p
                     /\ \E k \in DOMAIN peticiones : peticiones[k].op = "FINALIZACION_PROCESO"
                                                     /\ peticiones[k].proc = q
      BY <1>1, <2>1 DEF FinPendiente
    <3>2. \A q \in Procesos : q \in Retenidos' <=> q \in Retenidos /\ q # p
      BY <1>1, <2>3, <3>1, RetenidosEs, RetenidosSeran
    <3>3. p \in Retenidos
      BY <1>1, <2>1, RetenidosEs
    <3>4. QED
      BY <3>2, <3>3 DEF Retenidos
  <2>5. MaxSuspensiones = 0 => SinSuspensiones'
    BY <1>1, <2>1, <2>2 DEF SinSuspensiones
  <2>6. FinPendiente'
    BY <1>1, <2>1, <2>2 DEF FinPendiente
  <2>7. CpuAlDia'
    BY <1>1, <2>2 DEF CpuAlDia, EnTabla
  <2>8. Copias' /\ Bits'
    BY <1>1, <2>2, <2>3 DEF Copias, Bits
  <2>9. \A q \in Procesos, x \in Paginas : EnUso(q, x)' <=> EnUso(q, x) /\ q # p
    BY <2>2, <2>4 DEF EnUso
  <2>10. Marcados'
    <3>1. /\ (MaxSuspensiones = 0 => MarcoPresente)
          /\ SinCompartir /\ EnElMapa /\ SinFugas
      BY <1>1 DEF Marcados
    <3>2. ASSUME MarcoPresente PROVE MarcoPresente'
      BY <2>2, <3>2 DEF MarcoPresente
    <3>3. SinCompartir'
      BY <2>2, <2>9, <3>1 DEF SinCompartir
    <3>4. ASSUME NEW q \in Procesos, NEW x \in Paginas, EnUso(q, x), q # p
          PROVE  marco[<<q, x>>] \notin MarcosDe(p)
      BY <2>0, <3>4 DEF Ajeno
    <3>5. EnElMapa'
      BY <2>2, <2>9, <3>1, <3>4 DEF EnElMapa
    <3>6. SinFugas'
      <4>1. SUFFICES ASSUME NEW m \in ocupados, m \notin MarcosDe(p)
                     PROVE  \E q \in Procesos, x \in Paginas : EnUso(q, x)' /\ marco'[<<q, x>>] = m
        BY <2>2 DEF SinFugas
      <4>2. PICK q \in Procesos, x \in Paginas : EnUso(q, x) /\ marco[<<q, x>>] = m
        BY <2>2, <3>1, <4>1 DEF SinFugas, PorLiberar
      <4>3. q # p
        <5>1. m # SinMarco
          BY <1>1 DEF TypeOK, Marcos, SinMarco
        <5>2. QED
          BY <4>1, <4>2, <5>1 DEF MarcosDe
      <4>4. QED
        BY <2>2, <2>9, <4>2, <4>3
    <3>7. QED
      BY <3>1, <3>2, <3>3, <3>5, <3>6 DEF Marcados
  <2>11. EnSuspension'
    BY <2>2 DEF EnSuspension
  <2>12. QED
    BY <2>5, <2>6, <2>7, <2>8, <2>10, <2>11 DEF Fiel, Tablas
<1>5. ASSUME IniciarSuspension
      PROVE  Fiel'
  <2>. DEFINE p == Head(peticiones).proc
  <2>1. /\ 1 \in DOMAIN peticiones /\ p = peticiones[1].proc /\ p \in Procesos
        /\ peticiones[1].op = "SUSPENCION_PROCESO"
        /\ \A k \in DOMAIN peticiones' :
             k + 1 \in DOMAIN peticiones /\ k + 1 # 1 /\ peticiones'[k] = peticiones[k + 1]
        /\ \A j, k \in DOMAIN peticiones' : j + 1 = k + 1 => j = k
        /\ \A k \in DOMAIN peticiones : k = 1 \/ \E j \in DOMAIN peticiones' : k = j + 1
    BY <1>2, <1>5 DEF IniciarSuspension
  <2>2. /\ id_a_suspender' = p /\ porSwapear' = modificada[p] \intersect presencia[p]
        /\ pcK' = "swapear" /\ pcK = "recibir"
        /\ UNCHANGED <<estado, presencia, modificada, marco, ocupados, vigente, enSwap,
                       numero_de_tabla, pcCpu, acceso, victima, tlb>>
    BY <1>5 DEF IniciarSuspension, Llega
  <2>. HIDE DEF p
  <2>3. MaxSuspensiones # 0
    BY <1>1, <2>1 DEF SinSuspensiones
  <2>4. \A q \in Procesos : Vivo(q)' <=> Vivo(q)
    BY <2>2 DEF Vivo
  <2>5. Retenidos' = Retenidos
    <3>1. ASSUME NEW q \in Procesos
          PROVE  (\E k \in DOMAIN peticiones' : peticiones'[k].op = "FINALIZACION_PROCESO"
                                                /\ peticiones'[k].proc = q)
                 <=> (\E k \in DOMAIN peticiones : peticiones[k].op = "FINALIZACION_PROCESO"
                                                   /\ peticiones[k].proc = q)
      BY <2>1
    <3>2. \A q \in Procesos : q \in Retenidos' <=> q \in Retenidos
      BY <1>1, <2>4, <3>1, RetenidosEs, RetenidosSeran
    <3>. QED
      BY <3>2 DEF Retenidos
  <2>6. FinPendiente'
    BY <1>1, <2>1, <2>2 DEF FinPendiente
  <2>7. CpuAlDia' /\ Copias' /\ Bits'
    BY <1>1, <2>2, <2>4 DEF CpuAlDia, EnTabla, Copias, Bits
  <2>8. Marcados'
    <3>1. \A q, x : EnUso(q, x)' <=> EnUso(q, x)
      BY <2>2, <2>5 DEF EnUso
    <3>2. SinCompartir' /\ EnElMapa'
      BY <1>1, <2>2, <3>1 DEF Marcados, SinCompartir, EnElMapa
    <3>3. SinFugas'
      BY <1>1, <2>2, <3>1 DEF Marcados, SinFugas, PorLiberar
    <3>. QED
      BY <2>3, <3>2, <3>3 DEF Marcados
  <2>9. EnSuspension'
    BY <2>2 DEF EnSuspension
  <2>. QED
    BY <2>3, <2>6, <2>7, <2>8, <2>9 DEF Fiel, Tablas
<1>6. ASSUME SwapearPagina \/ DescartarPresentes \/ LiberarMarcos \/ AvisarCpu
             \/ ConfirmarSuspension
      PROVE  Fiel'
  <2>1. pcK # "recibir" /\ peticiones' = peticiones
    BY <1>6 DEF SwapearPagina, DescartarPresentes, LiberarMarcos, AvisarCpu, ConfirmarSuspension
  <2>0. PICK p \in Procesos : p = id_a_suspender
    BY <2>1, CpuAparte
  <2>2. /\ p \in Procesos /\ estado[p] = "suspendiendo" /\ MaxSuspensiones # 0
        /\ pcCpu # "libre" \/ tlb # {} => numero_de_tabla # p
    BY <2>0, <2>1, CpuAparte
  <2>3. UNCHANGED <<numero_de_tabla, pcCpu, acceso, victima, tlb, marco, vigente>>
    BY <1>6 DEF SwapearPagina, DescartarPresentes, LiberarMarcos, AvisarCpu, ConfirmarSuspension
  <2>4. /\ estado'[p] \in {"suspendiendo", "suspendido"}
        /\ \A q \in Procesos : q # p => estado'[q] = estado[q]
    BY <1>1, <1>6, <2>0, <2>2
       DEF SwapearPagina, DescartarPresentes, LiberarMarcos, AvisarCpu, ConfirmarSuspension, TypeOK
  \* Only what is of p changes.
  <2>5. \A q \in Procesos : q # p =>
          /\ presencia'[q] = presencia[q] /\ modificada'[q] = modificada[q] /\ enSwap'[q] = enSwap[q]
    <3>1. CASE DescartarPresentes
      <4>1. numero_de_tabla = p
        BY <2>0, <3>1 DEF DescartarPresentes, DescartaElSuyo
      <4>. QED
        BY <1>1, <2>2, <3>1, <4>1 DEF DescartarPresentes, TypeOK
    <3>2. CASE SwapearPagina
      BY <1>1, <2>0, <2>2, <3>2 DEF SwapearPagina, EnSwapTras, TypeOK
    <3>3. CASE LiberarMarcos \/ AvisarCpu \/ ConfirmarSuspension
      BY <3>3 DEF LiberarMarcos, AvisarCpu, ConfirmarSuspension
    <3>. QED
      BY <1>6, <3>1, <3>2, <3>3
  <2>6. Vivo(p) /\ Vivo(p)' /\ \A q \in Procesos : Vivo(q)' <=> Vivo(q)
    BY <2>2, <2>4 DEF Vivo
  <2>7. Retenidos' = Retenidos /\ p \in Retenidos
    BY <2>1, <2>2, <2>6 DEF Retenidos
  <2>8. FinPendiente'
    <3>1. \A k \in DOMAIN peticiones : peticiones[k].proc \in Procesos
      BY <1>1, Campos DEF TypeOK, Peticion
    <3>2. \A q \in Procesos : estado[q] = "exit" => estado'[q] = "exit"
      BY <2>2, <2>4
    <3>. QED
      BY <1>1, <2>1, <3>1, <3>2 DEF FinPendiente
  <2>9. CpuAlDia'
    <3>1. numero_de_tabla \in Procesos
      BY <1>1 DEF TypeOK
    <3>2. CASE numero_de_tabla = p
      BY <2>2, <2>3, <3>2 DEF CpuAlDia
    <3>3. CASE numero_de_tabla # p
      BY <1>1, <2>3, <2>5, <3>1, <3>3 DEF CpuAlDia, EnTabla
    <3>. QED
      BY <3>2, <3>3
  <2>10. \A q \in Procesos, y \in Paginas : q # p => (EnUso(q, y)' <=> EnUso(q, y))
    BY <2>5, <2>7 DEF EnUso
  <2>11. ASSUME SinCompartir' /\ EnElMapa' /\ SinFugas', Copias' /\ Bits' /\ EnSuspension'
         PROVE  Fiel'
    BY <2>2, <2>8, <2>9, <2>11 DEF Fiel, Tablas, Marcados
  \* The pages of the others are where they were.
  <2>12. ASSUME \A y \in Paginas :
                  /\ y \in presencia'[p] => y \in presencia[p] /\ (y \in enSwap'[p] \/ y \in modificada'[p])
                  /\ y \notin presencia'[p] => y \in enSwap'[p]
         PROVE  Copias' /\ Bits'
    <3>1. Copias'
      BY <1>1, <2>3, <2>5, <2>6, <2>12 DEF Copias
    <3>2. Bits'
      BY <1>1, <2>5, <2>6, <2>12 DEF Bits
    <3>. QED
      BY <3>1, <3>2
  <2>13. ASSUME presencia'[p] \subseteq presencia[p], ocupados' = ocupados
         PROVE  SinCompartir' /\ EnElMapa'
    <3>1. \A q \in Procesos, y \in Paginas : EnUso(q, y)' => EnUso(q, y)
      BY <2>7, <2>10, <2>13 DEF EnUso
    <3>. QED
      BY <1>1, <2>3, <2>13, <3>1 DEF Marcados, SinCompartir, EnElMapa
  \* What p gives up before its frames are freed is still to be freed.
  <2>14. ASSUME pcK = "swapear", pcK' \in {"swapear", "liberar"}, id_a_suspender' = id_a_suspender,
                ocupados' = ocupados
         PROVE  SinFugas'
    <3>1. PorLiberar = MarcosDe(p) /\ PorLiberar' = MarcosDe(p)
      BY <2>0, <2>3, <2>14 DEF PorLiberar, MarcosDe
    <3>2. ASSUME NEW y \in Paginas, EnUso(p, y)
          PROVE  marco[<<p, y>>] \in MarcosDe(p)
      <4>1. marco[<<p, y>>] # SinMarco
        BY <1>1, <2>2, <3>2 DEF EnUso, EnCurso, Marcos, SinMarco
      <4>. QED
        BY <4>1 DEF MarcosDe
    <3>3. SUFFICES ASSUME NEW m \in ocupados, m \notin MarcosDe(p)
                   PROVE  \E q \in Procesos, y \in Paginas : EnUso(q, y)' /\ marco'[<<q, y>>] = m
      BY <2>14, <3>1 DEF SinFugas
    <3>4. PICK q \in Procesos, y \in Paginas : EnUso(q, y) /\ marco[<<q, y>>] = m
      BY <1>1, <3>1, <3>3 DEF Marcados, SinFugas
    <3>5. q # p
      BY <3>2, <3>3, <3>4
    <3>. QED
      BY <2>3, <2>10, <3>4, <3>5
  <2>15. CASE SwapearPagina
    <3>1. PICK x \in porSwapear :
            /\ porSwapear' = porSwapear \ {x}
            /\ enSwap' = EnSwapTras(p, x, marco[<<p, x>>])
            /\ modificada' = [modificada EXCEPT ![p] = @ \ {x}]
            /\ presencia' = [presencia EXCEPT ![p] = @ \ {x}]
      BY <2>0, <2>15 DEF SwapearPagina
    <3>2. /\ pcK = "swapear" /\ pcK' = "swapear" /\ id_a_suspender' = p /\ id_a_suspender = p
          /\ ocupados' = ocupados
      BY <2>0, <2>15 DEF SwapearPagina
    <3>3. x \in presencia[p] /\ x \in Paginas /\ porSwapear \subseteq presencia[p]
      BY <1>1, <3>1, <3>2 DEF EnSuspension, TypeOK
    <3>4. /\ \A y \in Paginas : y \in presencia'[p] <=> y \in presencia[p] /\ y # x
          /\ \A y \in Paginas : y \in modificada'[p] <=> y \in modificada[p] /\ y # x
          /\ presencia'[p] = presencia[p] \ {x} /\ modificada'[p] = modificada[p] \ {x}
      BY <1>1, <2>2, <3>1 DEF TypeOK
    <3>5. \A y \in Paginas : y \in enSwap[p] \/ y = x => y \in enSwap'[p]
      <4>1. marco[<<p, x>>] \in vigente[<<p, x>>]
        BY <1>1, <2>2, <2>6, <3>3 DEF Copias
      <4>. QED
        BY <1>1, <2>2, <3>1, <4>1 DEF EnSwapTras, TypeOK
    <3>6. Copias' /\ Bits'
      <4>1. \A y \in Paginas :
              /\ y \in presencia'[p] => y \in presencia[p] /\ (y \in enSwap'[p] \/ y \in modificada'[p])
              /\ y \notin presencia'[p] => y \in enSwap'[p]
        BY <1>1, <2>2, <2>6, <3>4, <3>5 DEF Copias, Bits
      <4>. QED
        BY <2>12, <4>1
    <3>7. EnSuspension'
      BY <1>1, <3>1, <3>2, <3>4 DEF EnSuspension
    <3>8. SinCompartir' /\ EnElMapa'
      BY <2>13, <3>2, <3>4
    <3>9. SinFugas'
      BY <2>14, <3>2
    <3>. QED
      BY <2>11, <3>6, <3>7, <3>8, <3>9
  <2>16. CASE DescartarPresentes
    <3>1. /\ pcK = "swapear" /\ porSwapear = {} /\ pcK' = "liberar" /\ id_a_suspender' = p
          /\ id_a_suspender = p
          /\ presencia' = [presencia EXCEPT ![p] = {}]
          /\ UNCHANGED <<modificada, ocupados, enSwap>>
      BY <2>0, <2>16 DEF DescartarPresentes, DescartaElSuyo
    <3>2. presencia'[p] = {} /\ \A x \in presencia[p] : x \notin modificada[p]
      BY <1>1, <2>2, <3>1 DEF EnSuspension, TypeOK
    <3>3. \A x \in Paginas : x \in enSwap[p]
      BY <1>1, <2>2, <2>6, <3>2 DEF Copias, Bits
    <3>4. Copias' /\ Bits'
      BY <2>12, <3>1, <3>2, <3>3
    <3>5. SinCompartir' /\ EnElMapa'
      BY <2>13, <3>1, <3>2
    <3>6. SinFugas'
      BY <2>14, <3>1
    <3>. QED
      BY <2>11, <3>1, <3>2, <3>4, <3>5, <3>6 DEF EnSuspension
  <2>17. CASE LiberarMarcos
    <3>1. /\ pcK = "liberar" /\ pcK' = "avisar" /\ id_a_suspender = p
          /\ ocupados' = ocupados \ MarcosDe(p)
          /\ UNCHANGED <<presencia, modificada, enSwap>>
      BY <2>0, <2>17 DEF LiberarMarcos
    <3>2. presencia[p] = {} /\ ~Ajeno(p)
      BY <1>1, <3>1 DEF EnSuspension, LiberaLoSuyo
    <3>3. \A q \in Procesos, y \in Paginas :
            /\ EnUso(q, y)' <=> EnUso(q, y)
            /\ EnUso(q, y) => q # p /\ marco[<<q, y>>] \notin MarcosDe(p)
      BY <2>10, <3>1, <3>2 DEF EnUso, Ajeno
    <3>4. Copias' /\ Bits'
      BY <1>1, <2>2, <2>6, <2>12, <3>1 DEF Copias, Bits
    <3>5. SinCompartir' /\ EnElMapa'
      BY <1>1, <2>3, <3>1, <3>3 DEF Marcados, SinCompartir, EnElMapa
    <3>6. SinFugas'
      BY <1>1, <2>3, <3>1, <3>3 DEF Marcados, SinFugas, PorLiberar
    <3>. QED
      BY <2>11, <3>1, <3>4, <3>5, <3>6 DEF EnSuspension
  <2>18. CASE AvisarCpu \/ ConfirmarSuspension
    <3>1. /\ pcK \in {"avisar", "confirmar"} /\ pcK' \in {"confirmar", "recibir"}
          /\ UNCHANGED <<presencia, modificada, enSwap, ocupados>>
      BY <2>18 DEF AvisarCpu, ConfirmarSuspension
    <3>2. \A q, x : EnUso(q, x)' <=> EnUso(q, x)
      BY <2>7, <3>1 DEF EnUso
    <3>3. PorLiberar = {} /\ PorLiberar' = {}
      BY <3>1 DEF PorLiberar
    <3>4. SinCompartir' /\ EnElMapa' /\ SinFugas'
      BY <1>1, <2>3, <3>1, <3>2, <3>3 DEF Marcados, SinCompartir, EnElMapa, SinFugas
    <3>5. Copias' /\ Bits' /\ EnSuspension'
      BY <1>1, <2>3, <2>6, <3>1 DEF Copias, Bits, EnSuspension
    <3>. QED
      BY <2>11, <3>4, <3>5
  <2>. QED
    BY <1>6, <2>15, <2>16, <2>17, <2>18
<1>7. QED
  BY <1>3, <1>4, <1>5, <1>6 DEF AtenderKernel

-----------------------------------------------------------------------------
(* The CPU's thread.                                                       *)

\* The answer is the frame of the page that was asked for.
LEMMA RespuestaAcceso ==
  ASSUME IInv, NEW m, Responder(m)
  PROVE  acceso'.pagina = acceso.pagina /\ acceso'.marco = m /\ pcCpu' = "tercero"
BY DEF Responder, IInv, TypeOK

\* A TLB of one entry holds the last answer and nothing else.
LEMMA UnaEntrada ==
  ASSUME EntradasTlb = 1, IInv, NEW m \in Marcos, Responder(m)
  PROVE  /\ tlb' = {[pagina |-> acceso.pagina, marco |-> m]}
         /\ acceso'.pagina = acceso.pagina /\ acceso'.marco = m /\ pcCpu' = "tercero"
<1>. DEFINE nueva == [pagina |-> acceso.pagina, marco |-> m]
<1>1. IsFiniteSet(tlb) /\ Cardinality(tlb) <= 1 /\ Cardinality(tlb) \in Nat
  BY FS_CardinalityType DEF IInv, TypeOK, EnCurso
<1>2. acceso'.pagina = acceso.pagina /\ acceso'.marco = m /\ pcCpu' = "tercero"
  BY DEF Responder, IInv, TypeOK
<1>. HIDE DEF nueva
<1>3. CASE Cardinality(tlb) > 0
  <2>1. PICK e \in tlb : tlb' = (tlb \ {e}) \union {nueva}
    BY <1>3 DEF Responder, nueva
  <2>2. IsFiniteSet(tlb \ {e}) /\ Cardinality(tlb \ {e}) = Cardinality(tlb) - 1
    BY <1>1, FS_RemoveElement
  <2>3. Cardinality(tlb \ {e}) = 0
    BY <1>1, <1>3, <2>2
  <2>4. tlb \ {e} = {}
    BY <2>2, <2>3, FS_EmptySet
  <2>5. QED
    BY <1>2, <2>1, <2>4 DEF nueva
<1>4. CASE ~(Cardinality(tlb) > 0)
  <2>1. tlb = {}
    <3>1. Cardinality(tlb) = 0
      BY <1>1, <1>4
    <3>2. QED
      BY <1>1, <3>1, FS_EmptySet
  <2>2. tlb' = tlb \union {nueva}
    BY <1>4 DEF Responder, nueva
  <2>3. QED
    BY <1>2, <2>1, <2>2 DEF nueva
<1>5. QED
  BY <1>3, <1>4

\* What the CPU holds agrees with the table if the answer does, and if each entry
\* that is kept is of a page still present, in the frame it was.
LEMMA RespuestaAlDia ==
  ASSUME EntradasTlb = 1 \/ TlbPresente', IInv, NEW m \in Marcos, Responder(m),
         \A e \in tlb : e.pagina \in presencia'[numero_de_tabla'] =>
           EnTabla(numero_de_tabla, e.pagina, e.marco)',
         EnTabla(numero_de_tabla, acceso.pagina, m)', acceso'.pagina = acceso.pagina
  PROVE  CpuAlDia'
<1>1. acceso'.pagina = acceso.pagina /\ acceso'.marco = m /\ pcCpu' = "tercero"
  BY RespuestaAcceso
<1>. DEFINE nueva == [pagina |-> acceso.pagina, marco |-> m]
<1>2. EnTabla(numero_de_tabla, nueva.pagina, nueva.marco)'
  BY <1>1 DEF EnTabla
<1>3. \A e \in tlb' : EnTabla(numero_de_tabla, e.pagina, e.marco)'
  <2>1. CASE EntradasTlb = 1
    <3>1. tlb' = {nueva}
      BY <2>1, UnaEntrada
    <3>. QED
      BY <1>2, <3>1
  <2>2. CASE TlbPresente'
    <3>1. tlb' \subseteq tlb \union {nueva}
      BY DEF Responder
    <3>2. \A e \in tlb' : e.pagina \in presencia'[numero_de_tabla']
      BY <2>2 DEF TlbPresente
    <3>3. ASSUME NEW e \in tlb'
          PROVE  EnTabla(numero_de_tabla, e.pagina, e.marco)'
      <4>1. CASE e = nueva
        BY <1>2, <4>1
      <4>2. CASE e # nueva
        <5>1. e \in tlb
          BY <3>1, <4>2
        <5>. QED
          BY <3>2, <5>1
      <4>. QED
        BY <4>1, <4>2
    <3>. QED
      BY <3>3
  <2>. QED
    BY <2>1, <2>2
<1>4. QED
  BY <1>1, <1>2, <1>3 DEF CpuAlDia, EnTabla

\* A page in use shares its frame with no other, and is current in it.
LEMMA MarcoPropio ==
  ASSUME TypeOK, Fiel, NEW p \in Procesos, NEW x \in Paginas, Vivo(p), x \in presencia[p]
  PROVE  /\ EnUso(p, x) /\ marco[<<p, x>>] \in ocupados
         /\ marco[<<p, x>>] \in vigente[<<p, x>>]
         /\ \A q \in Procesos, y \in Paginas :
              Vivo(q) /\ y \in presencia[q] /\ marco[<<q, y>>] = marco[<<p, x>>] => q = p /\ y = x
<1>1. \A q \in Procesos, y \in Paginas : Vivo(q) /\ y \in presencia[q] => EnUso(q, y)
  BY DEF EnUso, Retenidos
<1>2. QED
  BY <1>1 DEF Fiel, Tablas, Marcados, SinCompartir, EnElMapa, Copias

\* A step of the CPU does not disturb the suspension of another process.
LEMMA SuspensionAparte ==
  ASSUME IInv, Fiel, ~adelantado, pcCpu # "libre",
         UNCHANGED <<pcK, id_a_suspender, porSwapear>>,
         \A q \in Procesos \ {numero_de_tabla} :
           /\ presencia'[q] = presencia[q] /\ modificada'[q] = modificada[q]
           /\ \A y \in Paginas : marco'[<<q, y>>] = marco[<<q, y>>]
  PROVE  EnSuspension' /\ PorLiberar' = PorLiberar
<1>1. CASE pcK # "recibir"
  <2>1. id_a_suspender \in Procesos \ {numero_de_tabla}
    BY <1>1, CpuAparte
  <2>2. EnSuspension'
    BY <2>1 DEF Fiel, Tablas, EnSuspension
  <2>3. MarcosDe(id_a_suspender)' = MarcosDe(id_a_suspender)
    BY <2>1 DEF MarcosDe
  <2>. QED
    BY <2>2, <2>3 DEF PorLiberar
<1>2. CASE pcK = "recibir"
  BY <1>2 DEF EnSuspension, PorLiberar
<1>. QED
  BY <1>1, <1>2

\* A page is loaded in a frame that nobody has.
LEMMA FielAsignar ==
  ASSUME EntradasTlb = 1 \/ TlbPresente', IInv, TypeOK', Fiel, ~adelantado, AsignarMarco
  PROVE  Marcados' /\ Copias' /\ Bits' /\ CpuAlDia' /\ EnSuspension'
<1>. USE DEF SinTocarKernel, kernel
<1>. DEFINE p == numero_de_tabla
            x == acceso.pagina
<1>1. TypeOK /\ EnCurso /\ Orden /\ Marcados /\ Copias /\ Bits
  BY DEF IInv, Fiel, Tablas
<1>2. p \in Procesos /\ x \in Paginas /\ x \notin presencia[p] /\ Vivo(p)
  BY <1>1 DEF AsignarMarco, TypeOK, EnCurso, Orden, UnoEjecuta, Ejecuta, Vivo
<1>3. PICK m \in Marcos \ ocupados :
        /\ ocupados' = ocupados \union {m}
        /\ marco' = [marco EXCEPT ![<<p, x>>] = m]
        /\ presencia' = [presencia EXCEPT ![p] = @ \union {x}]
        /\ vigente' = VigenteTras(p, x, m, enSwap)
        /\ Responder(m)
  BY DEF AsignarMarco
<1>4. UNCHANGED <<estado, peticiones, modificada, enSwap, numero_de_tabla>> /\ acceso'.pagina = x
  BY <1>1, <1>3, RespuestaAcceso DEF AsignarMarco, IInv
<1>0. EnSuspension' /\ PorLiberar' = PorLiberar
  <2>1. \A q \in Procesos \ {p} :
          /\ presencia'[q] = presencia[q] /\ modificada'[q] = modificada[q]
          /\ \A y \in Paginas : marco'[<<q, y>>] = marco[<<q, y>>]
    BY <1>1, <1>2, <1>3, <1>4 DEF TypeOK
  <2>. QED
    BY <2>1, SuspensionAparte DEF AsignarMarco, hiloK
<1>5. Retenidos' = Retenidos /\ \A q \in Procesos : Vivo(q)' <=> Vivo(q)
  BY <1>4 DEF Retenidos, Vivo
<1>. HIDE DEF p, x
<1>6. /\ marco'[<<p, x>>] = m
      /\ \A q \in Procesos, y \in Paginas : q # p \/ y # x => marco'[<<q, y>>] = marco[<<q, y>>]
      /\ \A q \in Procesos, y \in Paginas :
           y \in presencia'[q] <=> y \in presencia[q] \/ (q = p /\ y = x)
  BY <1>1, <1>2, <1>3 DEF TypeOK
<1>7. \A q \in Procesos, y \in Paginas : EnUso(q, y)' <=> EnUso(q, y) \/ (q = p /\ y = x)
  <2>1. p \in Retenidos
    BY <1>2 DEF Retenidos
  <2>2. QED
    BY <1>5, <1>6, <2>1 DEF EnUso
<1>8. \A q \in Procesos, y \in Paginas : EnUso(q, y) => marco[<<q, y>>] # m /\ (q # p \/ y # x)
  BY <1>1, <1>2, <1>3 DEF Marcados, EnElMapa, EnUso
<1>9. Marcados'
  <2>1. MaxSuspensiones = 0 => MarcoPresente'
    <3>1. SUFFICES ASSUME NEW q \in Procesos, NEW y \in Paginas, marco'[<<q, y>>] # SinMarco,
                          MaxSuspensiones = 0
                   PROVE  \E z \in presencia'[q] : marco'[<<q, z>>] = marco'[<<q, y>>]
      BY DEF MarcoPresente
    <3>2. CASE q = p /\ y = x
      BY <1>2, <1>6, <3>2
    <3>3. CASE q # p \/ y # x
      <4>1. PICK z \in presencia[q] : marco[<<q, z>>] = marco[<<q, y>>]
        BY <1>1, <1>6, <3>1, <3>3 DEF Marcados, MarcoPresente
      <4>2. z \in Paginas
        BY <1>1 DEF TypeOK
      <4>3. QED
        BY <1>2, <1>6, <3>3, <4>1, <4>2
    <3>4. QED
      BY <3>2, <3>3
  <2>2. SinCompartir'
    <3>1. SUFFICES ASSUME NEW q \in Procesos, NEW r \in Procesos, NEW y \in Paginas,
                          NEW z \in Paginas, EnUso(q, y)', EnUso(r, z)',
                          marco'[<<q, y>>] = marco'[<<r, z>>]
                   PROVE  q = r /\ y = z
      BY DEF SinCompartir
    <3>2. CASE (q = p /\ y = x) \/ (r = p /\ z = x)
      BY <1>6, <1>7, <1>8, <3>1, <3>2
    <3>3. CASE ~(q = p /\ y = x) /\ ~(r = p /\ z = x)
      BY <1>1, <1>6, <1>7, <3>1, <3>3 DEF Marcados, SinCompartir
    <3>4. QED
      BY <3>2, <3>3
  <2>3. EnElMapa'
    BY <1>1, <1>3, <1>6, <1>7, <1>8 DEF Marcados, EnElMapa
  <2>4. SinFugas'
    <3>1. SUFFICES ASSUME NEW n \in ocupados', n \notin PorLiberar
                   PROVE  \E q \in Procesos, y \in Paginas : EnUso(q, y)' /\ marco'[<<q, y>>] = n
      BY <1>0 DEF SinFugas
    <3>2. CASE n = m
      BY <1>2, <1>6, <1>7, <3>2
    <3>3. CASE n # m
      <4>1. PICK q \in Procesos, y \in Paginas : EnUso(q, y) /\ marco[<<q, y>>] = n
        BY <1>1, <1>3, <3>1, <3>3 DEF Marcados, SinFugas
      <4>2. QED
        BY <1>6, <1>7, <1>8, <4>1
    <3>4. QED
      BY <3>2, <3>3
  <2>5. QED
    BY <2>1, <2>2, <2>3, <2>4 DEF Marcados
<1>10. /\ m \in vigente'[<<p, x>>]
       /\ \A q \in Procesos, y \in Paginas : (q # p \/ y # x) =>
            vigente'[<<q, y>>] = vigente[<<q, y>>] \ {m}
  <2>1. x \in enSwap[p]
    BY <1>1, <1>2 DEF Copias
  <2>2. \A q \in Procesos, y \in Paginas : <<q, y>> \in Procesos \X Paginas
    OBVIOUS
  <2>3. QED
    BY <1>1, <1>2, <1>3, <2>1, <2>2 DEF VigenteTras, TypeOK
<1>11. Copias'
  <2>1. SUFFICES ASSUME NEW q \in Procesos, NEW y \in Paginas, Vivo(q)
                 PROVE  /\ y \in presencia'[q] => marco'[<<q, y>>] \in vigente'[<<q, y>>]
                        /\ y \notin presencia'[q] => y \in enSwap'[q]
    BY <1>5 DEF Copias
  <2>2. CASE q = p /\ y = x
    BY <1>2, <1>6, <1>10, <2>2
  <2>3. CASE q # p \/ y # x
    <3>1. y \in presencia[q] => marco[<<q, y>>] # m /\ marco[<<q, y>>] \in vigente[<<q, y>>]
      BY <1>1, <1>8, <2>1 DEF Copias, EnUso, Retenidos
    <3>2. y \notin presencia[q] => y \in enSwap[q]
      BY <1>1, <2>1 DEF Copias
    <3>3. QED
      BY <1>4, <1>6, <1>10, <2>3, <3>1, <3>2
  <2>4. QED
    BY <2>2, <2>3
<1>12. Bits'
  <2>1. x \in enSwap[p]
    BY <1>1, <1>2 DEF Copias
  <2>2. QED
    BY <1>1, <1>4, <1>5, <1>6, <2>1 DEF Bits
<1>13. CpuAlDia'
  <2>1. EnTabla(numero_de_tabla, acceso.pagina, m)'
    BY <1>2, <1>4, <1>6 DEF EnTabla, p
  <2>2. \A e \in tlb : EnTabla(numero_de_tabla, e.pagina, e.marco)'
    <3>1. \A e \in tlb : e.pagina \in Paginas /\ EnTabla(p, e.pagina, e.marco)
      BY <1>1 DEF TypeOK, Fiel, Tablas, CpuAlDia, p
    <3>. QED
      BY <1>2, <1>4, <1>6, <3>1 DEF EnTabla, p
  <2>3. QED
    BY <1>3, <1>4, <2>1, <2>2, RespuestaAlDia DEF x
<1>14. QED
  BY <1>0, <1>9, <1>11, <1>12, <1>13

\* A page is loaded in the place of another of the same process.
LEMMA FielReemplazo ==
  ASSUME EntradasTlb = 1 \/ TlbPresente', IInv, TypeOK', Fiel, ~adelantado, CargarPagina
  PROVE  Marcados' /\ Copias' /\ Bits' /\ CpuAlDia' /\ EnSuspension'
<1>. USE DEF SinTocarKernel, kernel
<1>. DEFINE p == numero_de_tabla
            x == acceso.pagina
            v == victima
<1>1. TypeOK /\ EnCurso /\ Orden /\ Marcados /\ Copias /\ Bits
  BY DEF IInv, Fiel, Tablas
<1>2. /\ p \in Procesos /\ x \in Paginas /\ x \notin presencia[p] /\ Vivo(p)
      /\ v \in Paginas /\ v \in presencia[p] /\ v # x /\ marco[<<p, v>>] \in Marcos
  BY <1>1 DEF CargarPagina, TypeOK, EnCurso, Orden, UnoEjecuta, Ejecuta, Vivo, Fiel, Tablas, CpuAlDia
<1>3. PICK m \in Marcos : m = marco[<<p, v>>]
  BY <1>2
<1>4. /\ enSwap' = SwapTrasReemplazo(p)
      /\ vigente' = VigenteTras(p, x, m, SwapTrasReemplazo(p))
      /\ marco' = [marco EXCEPT ![<<p, x>>] = m]
      /\ presencia' = [presencia EXCEPT ![p] = (@ \ {v}) \union {x}]
      /\ modificada' =
           IF AlgoritmoReemplazo = "CLOCK" \/ v \in modificada[p]
           THEN [modificada EXCEPT ![p] = @ \ {x}] ELSE modificada
      /\ Responder(m)
  BY <1>3 DEF CargarPagina
<1>5. UNCHANGED <<estado, peticiones, ocupados, numero_de_tabla>> /\ acceso'.pagina = x
  BY <1>1, <1>2, <1>4, RespuestaAcceso DEF CargarPagina
<1>0. EnSuspension' /\ PorLiberar' = PorLiberar
  <2>1. \A q \in Procesos \ {p} :
          /\ presencia'[q] = presencia[q] /\ modificada'[q] = modificada[q]
          /\ \A y \in Paginas : marco'[<<q, y>>] = marco[<<q, y>>]
    BY <1>1, <1>2, <1>4 DEF TypeOK
  <2>. QED
    BY <2>1, SuspensionAparte DEF CargarPagina, hiloK
<1>6. Retenidos' = Retenidos /\ \A q \in Procesos : Vivo(q)' <=> Vivo(q)
  BY <1>5 DEF Retenidos, Vivo
<1>7. EnUso(p, v) /\ m \in ocupados /\ m \in vigente[<<p, v>>]
  BY <1>1, <1>2, <1>3, MarcoPropio
\* After the victim has been written, if need be, its copy is current.
<1>8. /\ \A y \in Paginas : y \in enSwap'[p] <=> y \in enSwap[p] \/ y = v
      /\ \A q \in Procesos : q # p => enSwap'[q] = enSwap[q]
  <2>1. CASE v \in modificada[p]
    BY <1>1, <1>2, <1>3, <1>4, <1>7, <2>1 DEF SwapTrasReemplazo, EnSwapTras, TypeOK
  <2>2. CASE v \notin modificada[p]
    BY <1>1, <1>2, <1>4, <2>2 DEF SwapTrasReemplazo, Bits
  <2>3. QED
    BY <2>1, <2>2
<1>. HIDE DEF p, x, v
<1>9. /\ marco'[<<p, x>>] = m /\ marco[<<p, v>>] = m
      /\ \A q \in Procesos, y \in Paginas : q # p \/ y # x => marco'[<<q, y>>] = marco[<<q, y>>]
      /\ \A q \in Procesos, y \in Paginas :
           y \in presencia'[q] <=>
             (y \in presencia[q] /\ ~(q = p /\ y = v)) \/ (q = p /\ y = x)
  BY <1>1, <1>2, <1>3, <1>4 DEF TypeOK
<1>10. \A q \in Procesos, y \in Paginas :
        EnUso(q, y)' <=> (EnUso(q, y) /\ ~(q = p /\ y = v)) \/ (q = p /\ y = x)
  BY <1>6, <1>7, <1>9 DEF EnUso
<1>11. /\ ~EnUso(p, x)
       /\ \A q \in Procesos, y \in Paginas :
            EnUso(q, y) /\ marco[<<q, y>>] = m => q = p /\ y = v
  BY <1>1, <1>2, <1>7, <1>9 DEF Marcados, SinCompartir, EnUso
<1>12. Marcados'
  <2>1. MaxSuspensiones = 0 => MarcoPresente'
    <3>1. SUFFICES ASSUME NEW q \in Procesos, NEW y \in Paginas, marco'[<<q, y>>] # SinMarco,
                          MaxSuspensiones = 0
                   PROVE  \E z \in presencia'[q] : marco'[<<q, z>>] = marco'[<<q, y>>]
      BY DEF MarcoPresente
    <3>2. CASE q = p /\ y = x
      BY <1>2, <1>9, <3>2
    <3>3. CASE q # p \/ y # x
      <4>1. PICK z \in presencia[q] : marco[<<q, z>>] = marco[<<q, y>>]
        BY <1>1, <1>9, <3>1, <3>3 DEF Marcados, MarcoPresente
      <4>2. z \in Paginas
        BY <1>1 DEF TypeOK
      <4>3. CASE q = p /\ z = v
        BY <1>2, <1>9, <3>3, <4>1, <4>3
      <4>4. CASE q # p \/ z # v
        BY <1>2, <1>9, <3>3, <4>1, <4>2, <4>4
      <4>5. QED
        BY <4>3, <4>4
    <3>4. QED
      BY <3>2, <3>3
  <2>2. SinCompartir'
    <3>1. SUFFICES ASSUME NEW q \in Procesos, NEW r \in Procesos, NEW y \in Paginas,
                          NEW z \in Paginas, EnUso(q, y)', EnUso(r, z)',
                          marco'[<<q, y>>] = marco'[<<r, z>>]
                   PROVE  q = r /\ y = z
      BY DEF SinCompartir
    <3>2. CASE (q = p /\ y = x) \/ (r = p /\ z = x)
      BY <1>9, <1>10, <1>11, <3>1, <3>2
    <3>3. CASE ~(q = p /\ y = x) /\ ~(r = p /\ z = x)
      BY <1>1, <1>9, <1>10, <3>1, <3>3 DEF Marcados, SinCompartir
    <3>4. QED
      BY <3>2, <3>3
  <2>3. EnElMapa'
    <3>1. SUFFICES ASSUME NEW q \in Procesos, NEW y \in Paginas, EnUso(q, y)'
                   PROVE  marco'[<<q, y>>] \in ocupados
      BY <1>5 DEF EnElMapa
    <3>2. CASE q = p /\ y = x
      BY <1>7, <1>9, <3>2
    <3>3. CASE q # p \/ y # x
      BY <1>1, <1>9, <1>10, <3>1, <3>3 DEF Marcados, EnElMapa
    <3>4. QED
      BY <3>2, <3>3
  <2>4. SinFugas'
    <3>1. SUFFICES ASSUME NEW n \in ocupados, n \notin PorLiberar
                   PROVE  \E q \in Procesos, y \in Paginas : EnUso(q, y)' /\ marco'[<<q, y>>] = n
      BY <1>0, <1>5 DEF SinFugas
    <3>2. PICK q \in Procesos, y \in Paginas : EnUso(q, y) /\ marco[<<q, y>>] = n
      BY <1>1, <3>1 DEF Marcados, SinFugas
    <3>3. CASE q = p /\ y = v
      BY <1>2, <1>9, <1>10, <3>2, <3>3
    <3>4. CASE q # p \/ y # v
      BY <1>9, <1>10, <1>11, <3>2, <3>4
    <3>5. QED
      BY <3>3, <3>4
  <2>5. QED
    BY <2>1, <2>2, <2>3, <2>4 DEF Marcados
<1>13. /\ m \in vigente'[<<p, x>>]
       /\ \A q \in Procesos, y \in Paginas : (q # p \/ y # x) =>
            vigente'[<<q, y>>] = vigente[<<q, y>>] \ {m}
  <2>1. x \in SwapTrasReemplazo(p)[p]
    BY <1>1, <1>2, <1>4, <1>8 DEF Copias
  <2>2. \A q \in Procesos, y \in Paginas : <<q, y>> \in Procesos \X Paginas
    OBVIOUS
  <2>3. QED
    BY <1>1, <1>2, <1>4, <2>1, <2>2 DEF VigenteTras, TypeOK
<1>14. Copias'
  <2>1. SUFFICES ASSUME NEW q \in Procesos, NEW y \in Paginas, Vivo(q)
                 PROVE  /\ y \in presencia'[q] => marco'[<<q, y>>] \in vigente'[<<q, y>>]
                        /\ y \notin presencia'[q] => y \in enSwap'[q]
    BY <1>6 DEF Copias
  <2>2. CASE q = p /\ y = x
    BY <1>2, <1>9, <1>13, <2>2
  <2>3. CASE q = p /\ y = v
    BY <1>2, <1>8, <1>9, <2>3
  <2>4. CASE ~(q = p /\ y = x) /\ ~(q = p /\ y = v)
    <3>1. y \in presencia[q] => marco[<<q, y>>] # m /\ marco[<<q, y>>] \in vigente[<<q, y>>]
      BY <1>1, <1>11, <2>1, <2>4 DEF Copias, EnUso, Retenidos
    <3>2. y \notin presencia[q] => y \in enSwap[q]
      BY <1>1, <2>1 DEF Copias
    <3>3. y \in enSwap[q] => y \in enSwap'[q]
      BY <1>8
    <3>4. QED
      BY <1>9, <1>13, <2>4, <3>1, <3>2, <3>3
  <2>5. QED
    BY <2>2, <2>3, <2>4
<1>15. Bits'
  <2>1. SUFFICES ASSUME NEW q \in Procesos, NEW y \in Paginas, Vivo(q), y \in presencia'[q]
                 PROVE  y \in enSwap'[q] \/ y \in modificada'[q]
    BY <1>6 DEF Bits
  <2>2. y \in enSwap[q] => y \in enSwap'[q]
    BY <1>8
  <2>3. y \in modificada[q] /\ ~(q = p /\ y = x) => y \in modificada'[q]
    BY <1>1, <1>2, <1>4 DEF TypeOK
  <2>4. CASE q = p /\ y = x
    BY <1>1, <1>2, <2>2, <2>4 DEF Copias
  <2>5. CASE ~(q = p /\ y = x)
    BY <1>1, <1>9, <2>1, <2>2, <2>3, <2>5 DEF Bits
  <2>6. QED
    BY <2>4, <2>5
<1>16. CpuAlDia'
  <2>1. EnTabla(numero_de_tabla, acceso.pagina, m)'
    BY <1>2, <1>5, <1>9 DEF EnTabla, p
  <2>2. \A e \in tlb : e.pagina \in presencia'[p] => EnTabla(p, e.pagina, e.marco)'
    <3>1. \A e \in tlb : e.pagina \in Paginas /\ EnTabla(p, e.pagina, e.marco)
      BY <1>1 DEF TypeOK, Fiel, Tablas, CpuAlDia, p
    <3>. QED
      BY <1>2, <1>5, <1>9, <3>1 DEF EnTabla, p
  <2>3. QED
    BY <1>3, <1>4, <1>5, <2>1, <2>2, RespuestaAlDia DEF x, p
<1>17. QED
  BY <1>0, <1>12, <1>14, <1>15, <1>16

\* The page that a write finds by its frame is the page the CPU means.
LEMMA FielEscritura ==
  ASSUME IInv, TypeOK', Fiel, ~adelantado, NEW p \in Procesos, EscribirMarco(p)
  PROVE  Marcados' /\ Copias' /\ Bits' /\ CpuAlDia' /\ EnSuspension'
<1>. USE DEF SinTocarKernel, kernel
<1>. DEFINE x == acceso.pagina
            m == acceso.marco
<1>1. TypeOK /\ EnCurso /\ Orden /\ Marcados /\ Copias /\ Bits /\ CpuAlDia
  BY DEF IInv, Fiel, Tablas
<1>2. /\ p = numero_de_tabla /\ Vivo(p) /\ x \in Paginas
      /\ x \in presencia[p] /\ marco[<<p, x>>] = m
  BY <1>1 DEF EscribirMarco, TypeOK, EnCurso, Orden, UnoEjecuta, Ejecuta, Vivo, CpuAlDia, EnTabla
<1>3. /\ m \in vigente[<<p, x>>]
      /\ \A q \in Procesos, y \in Paginas :
           Vivo(q) /\ y \in presencia[q] /\ marco[<<q, y>>] = m => q = p /\ y = x
  <2>1. TypeOK /\ Fiel /\ Vivo(p) /\ x \in Paginas /\ x \in presencia[p]
    BY <1>1, <1>2
  <2>. HIDE DEF x, m
  <2>2. /\ marco[<<p, x>>] \in vigente[<<p, x>>]
        /\ \A q \in Procesos, y \in Paginas :
             Vivo(q) /\ y \in presencia[q] /\ marco[<<q, y>>] = marco[<<p, x>>] => q = p /\ y = x
    BY <2>1, MarcoPropio
  <2>3. QED
    BY <1>2, <2>2
<1>4. /\ UNCHANGED <<estado, peticiones, presencia, marco, ocupados, tlb>>
      /\ numero_de_tabla' = p /\ pcCpu' = "libre"
  BY DEF EscribirMarco
<1>5. modificada' = [modificada EXCEPT ![p] = @ \union {x}]
  <2>1. PICK y \in presencia[p] : /\ marco[<<p, y>>] = m
                                  /\ modificada' = [modificada EXCEPT ![p] = @ \union {y}]
    BY DEF EscribirMarco
  <2>2. y = x
    BY <1>1, <1>2, <1>3, <2>1 DEF TypeOK
  <2>3. QED
    BY <2>1, <2>2
<1>0. EnSuspension' /\ PorLiberar' = PorLiberar
  <2>1. \A q \in Procesos \ {p} :
          /\ presencia'[q] = presencia[q] /\ modificada'[q] = modificada[q]
          /\ \A y \in Paginas : marco'[<<q, y>>] = marco[<<q, y>>]
    BY <1>1, <1>2, <1>4, <1>5 DEF TypeOK
  <2>. QED
    BY <1>2, <2>1, SuspensionAparte DEF EscribirMarco, hiloK
<1>6. Escribir(p, x, m)
  BY DEF EscribirMarco
<1>. HIDE DEF x, m
<1>7. /\ m \in vigente'[<<p, x>>]
      /\ \A q \in Procesos, y \in Paginas : (q # p \/ y # x) =>
           vigente'[<<q, y>>] = vigente[<<q, y>>] \ {m}
  <2>1. \A q \in Procesos, y \in Paginas : <<q, y>> \in Procesos \X Paginas
    OBVIOUS
  <2>2. QED
    BY <1>1, <1>2, <1>3, <1>6, <2>1 DEF Escribir, TypeOK
<1>8. \A q \in Procesos, y \in Paginas :
        y \in enSwap'[q] <=> y \in enSwap[q] /\ ~(q = p /\ y = x)
  BY <1>1, <1>2, <1>6 DEF Escribir, TypeOK
<1>9. Retenidos' = Retenidos /\ \A q \in Procesos : Vivo(q)' <=> Vivo(q)
  BY <1>4 DEF Retenidos, Vivo
<1>10. Marcados'
  <2>1. \A q, y : EnUso(q, y)' <=> EnUso(q, y)
    BY <1>4, <1>9 DEF EnUso
  <2>2. /\ (MaxSuspensiones = 0 => MarcoPresente')
        /\ SinCompartir' /\ EnElMapa' /\ SinFugas'
    BY <1>0, <1>1, <1>4, <2>1 DEF Marcados, MarcoPresente, SinCompartir, EnElMapa, SinFugas
  <2>3. QED
    BY <2>2 DEF Marcados
<1>11. Copias'
  <2>1. SUFFICES ASSUME NEW q \in Procesos, NEW y \in Paginas, Vivo(q)
                 PROVE  /\ y \in presencia[q] => marco[<<q, y>>] \in vigente'[<<q, y>>]
                        /\ y \notin presencia[q] => y \in enSwap'[q]
    BY <1>4, <1>9 DEF Copias
  <2>2. CASE q = p /\ y = x
    BY <1>2, <1>7, <2>2
  <2>3. CASE ~(q = p /\ y = x)
    <3>1. y \in presencia[q] => marco[<<q, y>>] # m /\ marco[<<q, y>>] \in vigente[<<q, y>>]
      BY <1>1, <1>3, <2>1, <2>3 DEF Copias
    <3>2. y \notin presencia[q] => y \in enSwap[q]
      BY <1>1, <2>1 DEF Copias
    <3>3. QED
      BY <1>7, <1>8, <2>3, <3>1, <3>2
  <2>4. QED
    BY <2>2, <2>3
<1>12. Bits'
  <2>1. \A q \in Procesos, y \in Paginas :
          y \in modificada'[q] <=> y \in modificada[q] \/ (q = p /\ y = x)
    BY <1>1, <1>2, <1>5 DEF TypeOK
  <2>2. QED
    BY <1>1, <1>4, <1>8, <1>9, <2>1 DEF Bits
<1>13. CpuAlDia'
  BY <1>1, <1>2, <1>4 DEF CpuAlDia, EnTabla
<1>14. QED
  BY <1>0, <1>10, <1>11, <1>12, <1>13

LEMMA FielAtenderCpu ==
  ASSUME EntradasTlb = 1 \/ TlbPresente', IInv, TypeOK', Fiel, ~adelantado, AtenderCpu
  PROVE  Fiel'
<1>. USE DEF SinTocarKernel, kernel, pedidos, hiloCpu, bits, datos, hiloK
<1>1. /\ TypeOK /\ EnCurso /\ Orden /\ SinEsperas /\ FinPendiente /\ CpuAlDia /\ EnSuspension
      /\ (MaxSuspensiones = 0 => SinSuspensiones)
  BY DEF IInv, Fiel, Tablas
<1>2. UNCHANGED <<estado, peticiones, suspensiones, adelantado, id_a_suspender, pcK, porSwapear>>
  BY DEF AtenderCpu, IniciarAcceso, MirarSwap, EsperarSwap, BuscarPresente, AsignarMarco,
         AsignarSinMarco, ElegirVictima, CargarPagina, Leer, EscribirMarco, EscribirSinPagina
<1>3. (MaxSuspensiones = 0 => SinSuspensiones') /\ FinPendiente'
  BY <1>1, <1>2 DEF SinSuspensiones, FinPendiente
<1>4. Retenidos' = Retenidos /\ \A p \in Procesos : Vivo(p)' => Vivo(p)
  BY <1>2 DEF Retenidos, Vivo
<1>5. ASSUME UNCHANGED <<presencia, modificada, marco, ocupados, vigente, enSwap>>, CpuAlDia'
      PROVE  Fiel'
  BY <1>1, <1>2, <1>3, <1>4, <1>5, FielSinCambios DEF Fiel, Tablas
<1>6. ASSUME Marcados' /\ Copias' /\ Bits' /\ CpuAlDia' /\ EnSuspension'
      PROVE  Fiel'
  BY <1>3, <1>6 DEF Fiel, Tablas
<1>7. ASSUME NEW p \in Procesos, NEW x \in Paginas, NEW e \in BOOLEAN, IniciarAcceso(p, x, e)
      PROVE  Fiel'
  <2>1. /\ Ejecuta(p) /\ UNCHANGED <<tlb, victima, presencia, marco>>
        /\ numero_de_tabla' = p \/ (numero_de_tabla' = numero_de_tabla /\ tlb # {})
    BY <1>7 DEF IniciarAcceso, EnTlb
  <2>2. tlb # {} => numero_de_tabla = p /\ numero_de_tabla' = p
    BY <1>1, <2>1 DEF Orden, UnoEjecuta, TypeOK
  <2>3. \A f \in tlb : EnTabla(numero_de_tabla, f.pagina, f.marco)'
    BY <1>1, <2>1, <2>2 DEF CpuAlDia, EnTabla
  <2>4. pcCpu' # "segundo" =>
          pcCpu' = "tercero" /\ \E f \in tlb : acceso'.pagina = f.pagina /\ acceso'.marco = f.marco
    BY <1>7 DEF IniciarAcceso, EnTlb
  <2>5. CpuAlDia'
    BY <2>1, <2>3, <2>4 DEF CpuAlDia, EnTabla
  <2>6. QED
    BY <1>5, <1>7, <2>5 DEF IniciarAcceso
<1>8. ASSUME MirarSwap
      PROVE  Fiel'
  <2>1. numero_de_tabla # id_a_suspender
    <3>1. estado[numero_de_tabla] = "exec" /\ numero_de_tabla \in Procesos
      BY <1>1, <1>8 DEF MirarSwap, Orden, UnoEjecuta, Ejecuta, TypeOK
    <3>. QED
      BY <1>1, <3>1, ConstantesOK DEF Orden, SuspensionPendiente
  <2>2. pcCpu' = "buscar" \/ (pcCpu = "tercero" /\ pcCpu' = "acceder")
    BY <1>8, <2>1 DEF MirarSwap, Siguiente
  <2>3. CpuAlDia'
    BY <1>1, <1>8, <2>2 DEF MirarSwap, CpuAlDia, EnTabla
  <2>4. QED
    BY <1>5, <1>8, <2>3 DEF MirarSwap
<1>9. ASSUME EsperarSwap
      PROVE  FALSE
  BY <1>1, <1>9 DEF EsperarSwap, SinEsperas
<1>10. ASSUME BuscarPresente
       PROVE  Fiel'
  <2>1. /\ numero_de_tabla \in Procesos /\ acceso.pagina \in presencia[numero_de_tabla]
        /\ Responder(marco[<<numero_de_tabla, acceso.pagina>>])
        /\ UNCHANGED <<presencia, marco, numero_de_tabla>>
    BY <1>1, <1>10 DEF BuscarPresente, TypeOK
  <2>2. PICK m \in Marcos : m = marco[<<numero_de_tabla, acceso.pagina>>]
    BY <1>1, <2>1 DEF EnCurso
  <2>3. Responder(m) /\ acceso'.pagina = acceso.pagina
    BY <2>1, <2>2, RespuestaAcceso
  <2>4. EnTabla(numero_de_tabla, acceso.pagina, m)'
    BY <2>1, <2>2, <2>3 DEF EnTabla
  <2>5. CpuAlDia'
    <3>1. \A e \in tlb : EnTabla(numero_de_tabla, e.pagina, e.marco)'
      BY <1>1, <2>1 DEF CpuAlDia, EnTabla
    <3>. QED
      BY <2>3, <2>4, <3>1, RespuestaAlDia
  <2>6. QED
    BY <1>5, <1>10, <2>5 DEF BuscarPresente
<1>11. ASSUME AsignarMarco
       PROVE  Fiel'
  BY <1>6, <1>11, FielAsignar
<1>12. ASSUME AsignarSinMarco
       PROVE  Fiel'
  <2>1. CpuAlDia'
    BY <1>1, <1>12 DEF AsignarSinMarco, CpuAlDia, EnTabla
  <2>2. QED
    BY <1>5, <1>12, <2>1 DEF AsignarSinMarco
<1>13. ASSUME ElegirVictima
       PROVE  Fiel'
  <2>1. CpuAlDia'
    BY <1>1, <1>13 DEF ElegirVictima, CpuAlDia, EnTabla
  <2>2. QED
    BY <1>5, <1>13, <2>1 DEF ElegirVictima
<1>14. ASSUME CargarPagina
       PROVE  Fiel'
  BY <1>6, <1>14, FielReemplazo
<1>15. ASSUME Leer
       PROVE  Fiel'
  <2>1. CpuAlDia'
    BY <1>1, <1>15 DEF Leer, CpuAlDia, EnTabla
  <2>2. QED
    BY <1>5, <1>15, <2>1 DEF Leer
<1>16. ASSUME NEW p \in Procesos, EscribirMarco(p)
       PROVE  Fiel'
  BY <1>6, <1>16, FielEscritura
<1>17. ASSUME NEW p \in Procesos, EscribirSinPagina(p)
       PROVE  FALSE
  <2>1. /\ p = numero_de_tabla /\ acceso.pagina \in presencia[p]
        /\ marco[<<p, acceso.pagina>>] = acceso.marco
    BY <1>1, <1>17 DEF EscribirSinPagina, TypeOK, Orden, UnoEjecuta, CpuAlDia, EnTabla
  <2>2. QED
    BY <1>17, <2>1 DEF EscribirSinPagina
<1>18. QED
  BY <1>7, <1>8, <1>9, <1>10, <1>11, <1>12, <1>13, <1>14, <1>15, <1>16, <1>17 DEF AtenderCpu

-----------------------------------------------------------------------------
(* What was written is what is read.                                       *)

LEMMA FielInicial == Init => Fiel
<1>. SUFFICES ASSUME Init
              PROVE  Fiel
  OBVIOUS
<1>1. SinSuspensiones /\ FinPendiente /\ EnSuspension
  BY DEF Init, SinSuspensiones, FinPendiente, EnSuspension
<1>2. Marcados
  <2>1. MarcoPresente /\ SinCompartir /\ EnElMapa /\ SinFugas
    BY DEF Init, MarcoPresente, SinCompartir, EnElMapa, SinFugas, EnUso
  <2>2. QED
    BY <2>1 DEF Marcados
<1>3. Copias /\ Bits /\ CpuAlDia
  BY DEF Init, Copias, Bits, CpuAlDia
<1>4. QED
  BY <1>1, <1>2, <1>3 DEF Fiel, Tablas

LEMMA FielPaso ==
  ASSUME DescartaElSuyo, LiberaLoSuyo, EntradasTlb = 1 \/ TlbPresente',
         IInv, IInv', Fiel, ~adelantado, ~adelantado', [Next]_vars
  PROVE  Fiel'
<1>1. TypeOK'
  BY DEF IInv
<1>2. CASE Planificar
  BY <1>1, <1>2, FielPlanificar
<1>3. CASE AtenderCpu
  BY <1>1, <1>3, FielAtenderCpu
<1>4. CASE AtenderKernel
  BY <1>1, <1>4, FielAtenderKernel
<1>5. CASE UNCHANGED vars
  <2>. USE <1>5 DEF vars, kernel, pedidos, bits, datos, hiloK, hiloCpu
  <2>1. Retenidos' = Retenidos /\ \A p \in Procesos : Vivo(p)' => Vivo(p)
    BY DEF Retenidos, Vivo
  <2>2. Marcados' /\ Copias' /\ Bits' /\ EnSuspension'
    BY <2>1, FielSinCambios DEF IInv
  <2>3. (MaxSuspensiones = 0 => SinSuspensiones') /\ FinPendiente' /\ CpuAlDia'
    BY DEF Fiel, Tablas, SinSuspensiones, FinPendiente, CpuAlDia, EnTabla
  <2>4. QED
    BY <2>2, <2>3 DEF Fiel, Tablas
<1>6. QED
  BY <1>2, <1>3, <1>4, <1>5 DEF Next, Reposo

\* Until a process comes back before its suspension is confirmed, which without
\* suspensions none does.
Promesa == IF adelantado THEN MaxSuspensiones # 0 ELSE Fiel

\* What has happened stays so.
LEMMA AdelantadoQueda ==
  ASSUME adelantado, [Next]_vars
  PROVE  adelantado'
<1>1. CASE \E p \in Procesos : Despertar(p)
  BY <1>1 DEF Despertar
<1>2. CASE ~(\E p \in Procesos : Despertar(p)) /\ Planificar
  <2>1. adelantado' = adelantado
    BY <1>2 DEF Planificar, Admitir, Despachar, Suspender, Devolver, pedidos
  <2>. QED
    BY <2>1
<1>3. CASE AtenderCpu \/ AtenderKernel \/ UNCHANGED vars
  <2>1. adelantado' = adelantado
    BY <1>3 DEF AtenderCpu, IniciarAcceso, MirarSwap, EsperarSwap, BuscarPresente, AsignarMarco,
       AsignarSinMarco, ElegirVictima, CargarPagina, Leer, EscribirMarco, EscribirSinPagina,
       AtenderKernel, IniciarProceso, FinalizarProceso, IniciarSuspension, SwapearPagina,
       DescartarPresentes, LiberarMarcos, AvisarCpu, ConfirmarSuspension,
       SinTocarKernel, kernel, pedidos, vars
  <2>. QED
    BY <2>1
<1>. QED
  BY <1>1, <1>2, <1>3 DEF Next, Reposo

LEMMA PromesaPaso ==
  ASSUME ~adelantado => DescartaElSuyo /\ LiberaLoSuyo,
         EntradasTlb = 1 \/ (~adelantado' => TlbPresente'),
         IInv, IInv', Promesa, [Next]_vars
  PROVE  Promesa'
<1>1. adelantado \in BOOLEAN /\ adelantado' \in BOOLEAN
  BY DEF IInv, TypeOK
<1>2. CASE ~adelantado /\ ~adelantado'
  BY <1>2, FielPaso DEF Promesa
<1>3. CASE adelantado
  BY <1>3, AdelantadoQueda DEF Promesa
<1>4. CASE ~adelantado /\ adelantado'
  <2>1. \E p \in Procesos : estado[p] = "suspendiendo"
    <3>1. CASE \E p \in Procesos : Despertar(p)
      BY <1>4, <3>1 DEF Despertar
    <3>2. CASE ~(\E p \in Procesos : Despertar(p)) /\ Planificar
      <4>1. adelantado' = adelantado
        BY <3>2 DEF Planificar, Admitir, Despachar, Suspender, Devolver, pedidos
      <4>. QED
        BY <1>4, <4>1
    <3>3. CASE AtenderCpu \/ AtenderKernel \/ UNCHANGED vars
      <4>1. adelantado' = adelantado
        BY <3>3 DEF AtenderCpu, IniciarAcceso, MirarSwap, EsperarSwap, BuscarPresente, AsignarMarco,
           AsignarSinMarco, ElegirVictima, CargarPagina, Leer, EscribirMarco, EscribirSinPagina,
           AtenderKernel, IniciarProceso, FinalizarProceso, IniciarSuspension, SwapearPagina,
           DescartarPresentes, LiberarMarcos, AvisarCpu, ConfirmarSuspension,
           SinTocarKernel, kernel, pedidos, vars
      <4>. QED
        BY <1>4, <4>1
    <3>. QED
      BY <3>1, <3>2, <3>3 DEF Next, Reposo
  <2>2. MaxSuspensiones # 0
    BY <1>4, <2>1 DEF Promesa, Fiel, SinSuspensiones
  <2>. QED
    BY <1>4, <2>2 DEF Promesa
<1>. QED
  BY <1>1, <1>2, <1>3, <1>4

LEMMA FielSiempre ==
  ASSUME Aislado, EntradasTlb = 1
  PROVE  Spec => [](IInv /\ Promesa)
<1>1. Init => IInv /\ Promesa
  BY InvInicial, FielInicial DEF Init, Promesa
<1>2. IInv /\ Promesa /\ [Next]_vars => (IInv /\ Promesa)'
  BY InvPaso, PromesaPaso, AisladoNoEstorba DEF Promesa
<1>3. QED
  BY <1>1, <1>2, PTL DEF Spec

LEMMA FielSinEstorbos == Spec /\ []NadieEstorba => [](IInv /\ Promesa)
<1>1. Init => IInv /\ Promesa
  BY InvInicial, FielInicial DEF Init, Promesa
<1>2. IInv /\ Promesa /\ NadieEstorba /\ NadieEstorba' /\ [Next]_vars => (IInv /\ Promesa)'
  BY InvPaso, PromesaPaso DEF NadieEstorba
<1>3. QED
  BY <1>1, <1>2, PTL DEF Spec

\* What the invariant says of each property.
LEMMA FielAcceso == IInv /\ Promesa => AccesoPropio
<1>1. SUFFICES ASSUME IInv, Fiel, NEW p \in Procesos, Ejecuta(p), pcCpu = "acceder"
               PROVE  acceso.marco \in vigente[<<p, acceso.pagina>>]
  BY DEF AccesoPropio, Promesa
<1>2. p = numero_de_tabla /\ acceso.pagina \in Paginas /\ Vivo(p)
  BY <1>1 DEF IInv, TypeOK, EnCurso, Orden, UnoEjecuta, Ejecuta, Vivo
<1>3. QED
  BY <1>1, <1>2 DEF Fiel, Tablas, Copias, CpuAlDia, EnTabla

LEMMA FielCopias == IInv /\ Promesa => CopiaVigente /\ ModificadaBasta
<1>1. IInv /\ Promesa => CopiaVigente
  BY DEF Promesa, Fiel, Tablas, Copias, CopiaVigente
<1>2. IInv /\ Promesa => ModificadaBasta
  BY DEF IInv, TypeOK, Promesa, Fiel, Tablas, Bits, ModificadaBasta
<1>. QED
  BY <1>1, <1>2

LEMMA FielMarcos == IInv /\ Promesa => MarcosExactos
<1>. DEFINE enUso == {px \in Presentes : px[1] \in Retenidos}
<1>1. SUFFICES ASSUME IInv, Fiel
               PROVE  /\ \A px, py \in enUso : marco[px] = marco[py] => px = py
                      /\ {marco[px] : px \in enUso} \subseteq ocupados
                      /\ ocupados \subseteq {marco[px] : px \in enUso} \union PorLiberar
  BY DEF MarcosExactos, Promesa
<1>2. \A px \in enUso : \E p \in Procesos, x \in Paginas : px = <<p, x>> /\ EnUso(p, x)
  BY DEF Presentes, EnUso
<1>3. \A p \in Procesos, x \in Paginas : EnUso(p, x) => <<p, x>> \in enUso
  BY DEF Presentes, EnUso
<1>. HIDE DEF enUso
<1>4. \A px, py \in enUso : marco[px] = marco[py] => px = py
  BY <1>1, <1>2 DEF Fiel, Tablas, Marcados, SinCompartir
<1>5. \A px \in enUso : marco[px] \in ocupados
  BY <1>1, <1>2 DEF Fiel, Tablas, Marcados, EnElMapa
<1>6. \A m \in ocupados : m \in PorLiberar \/ \E px \in enUso : marco[px] = m
  BY <1>1, <1>3 DEF Fiel, Tablas, Marcados, SinFugas
<1>7. QED
  BY <1>4, <1>5, <1>6

\* With a TLB of one entry, and no suspensions or one process, suspended any
\* number of times, the frame of every access holds the last written content of
\* the page that the CPU means (cpu.c:236-274).
THEOREM LecturaFiel ==
  ASSUME Aislado, EntradasTlb = 1
  PROVE  Spec => []AccesoPropio
BY FielAcceso, FielSiempre, PTL

\* Nothing written is lost: a page is current in its frame, or else in the swap
\* file (memoria.c:261-523).
THEOREM NadaSePierde ==
  ASSUME Aislado, EntradasTlb = 1
  PROVE  Spec => []CopiaVigente
BY FielCopias, FielSiempre, PTL

\* A page that is not current in the swap file is marked as modified, so that it
\* is written before another takes its frame (memoria.c:325, 404, 441).
THEOREM BitSuficiente ==
  ASSUME Aislado, EntradasTlb = 1
  PROVE  Spec => []ModificadaBasta
BY FielCopias, FielSiempre, PTL

\* The bitmap has the frames in use, each of one page, and no others
\* (memoria.c:140-153, 622-636).
THEOREM MarcosSinFugas ==
  ASSUME Aislado, EntradasTlb = 1
  PROVE  Spec => []MarcosExactos
BY FielMarcos, FielSiempre, PTL

\* Any number of processes, suspensions and TLB entries: the contents and the
\* frames go wrong only where the pages of another process are discarded
\* (memoria.c:566), a frame that is another's by now is given back because an
\* absent page still has its number (memoria.c:622-636), the TLB keeps a page
\* that was replaced (cpu.c:366), or a process comes back early.
THEOREM FielSiNadieEstorba ==
  Spec /\ []NadieEstorba =>
    []AccesoPropio /\ []CopiaVigente /\ []ModificadaBasta /\ []MarcosExactos
BY FielAcceso, FielCopias, FielMarcos, FielSinEstorbos, PTL

-----------------------------------------------------------------------------
(* The quota: the invariant.                                               *)

Activos == {p \in Procesos : estado[p] \in {"ready", "exec", "blocked", "suspendiendo"}}

\* The processes that have tables, or frames, when memory has answered the
\* first k of the requests that wait.
Ocupantes(k) ==
  Activos \union
  {p \in Procesos : \E j \in DOMAIN peticiones :
     /\ peticiones[j].proc = p
     /\ \/ j <= k /\ peticiones[j].op = "INICIO_PROCESO"
        \/ j > k /\ peticiones[j].op = "FINALIZACION_PROCESO"}

Pocos(S, n) == IsFiniteSet(S) /\ Cardinality(S) <= n

\* However many requests memory has answered, no more processes hold frames
\* than the kernel has admitted.
Turnos ==
  /\ Pocos(EnMemoria, GradoMultiprogramacion)
  /\ \A k \in 0..Len(peticiones) : Pocos(Ocupantes(k), GradoMultiprogramacion)

Cuotas == \A p \in Procesos : Pocos(presencia[p], MarcosPorProceso)

\* A replacement has room for the page even if its victim has left meanwhile.
Sitio ==
  /\ Cuotas
  /\ pcCpu = "reemplazar" =>
       Cardinality(presencia[numero_de_tabla] \ {victima}) < MarcosPorProceso

\* A process that memory has not been told of has no page present.
SinPaginas ==
  \A p \in Procesos : estado[p] \in {"nuevo", "iniciando"} => presencia[p] = {}

\* Frames that are taken and no page has: a suspension will give them back.
Deuda == {m \in ocupados : \A p \in Procesos, x \in Paginas : EnUso(p, x) => marco[<<p, x>>] # m}

\* With the pages it still has, they are no more than what is due to the process.
Saldo ==
  pcK \in {"swapear", "liberar"} =>
    Cardinality(Deuda) + Cardinality(presencia[id_a_suspender]) <= MarcosPorProceso

Holgura == Turnos /\ SinPaginas /\ Saldo /\ ~caido

\* What holds until a process comes back early.
Calma == Fiel /\ Fuera /\ Cuotas /\ ~adelantado

\* A suspended process is admitted again when memory owes the kernel no end: it
\* takes its place without a message to memory, so that the frames of a process
\* whose FINALIZACION_PROCESO waits are still taken (kernel.c:297, 424).
ReadmiteSinDeudas ==
  ~adelantado /\ (\E p \in Procesos : estado[p] = "suspendido" /\ estado'[p] = "ready") =>
    \A k \in DOMAIN peticiones : peticiones[k].op # "FINALIZACION_PROCESO"

-----------------------------------------------------------------------------
(* Counting.                                                               *)

LEMMA MenosPocos ==
  ASSUME NEW S, NEW n \in Nat, Pocos(S, n), NEW T, T \subseteq S
  PROVE  Pocos(T, n)
<1>1. /\ IsFiniteSet(T) /\ Cardinality(T) <= Cardinality(S)
      /\ Cardinality(T) \in Nat /\ Cardinality(S) \in Nat
  BY FS_Subset, FS_CardinalityType DEF Pocos
<1>2. QED
  BY <1>1 DEF Pocos

LEMMA UnoMas ==
  ASSUME NEW S, NEW n \in Nat, IsFiniteSet(S), Cardinality(S) < n, NEW x
  PROVE  Pocos(S \union {x}, n)
<1>1. /\ IsFiniteSet(S \union {x}) /\ Cardinality(S) \in Nat
      /\ Cardinality(S \union {x}) = IF x \in S THEN Cardinality(S) ELSE Cardinality(S) + 1
  BY FS_AddElement, FS_CardinalityType
<1>2. QED
  BY <1>1 DEF Pocos

\* A set of n elements at most can be numbered from 1 to n.
LEMMA Numerados ==
  ASSUME NEW S, NEW n \in Nat, Pocos(S, n)
  PROVE  Injection(S, 1..n) # {}
<1>. DEFINE c == Cardinality(S)
<1>1. c \in Nat /\ c <= n /\ ExistsBijection(1..c, S)
  BY FS_CardinalityType DEF Pocos
<1>. HIDE DEF c
<1>2. ExistsBijection(S, 1..c)
  BY <1>1, Fun_ExistsBijSymmetric
<1>3. PICK f \in Bijection(S, 1..c) : TRUE
  BY <1>2 DEF ExistsBijection
<1>4. f \in [S -> 1..c] /\ \A a, b \in S : f[a] = f[b] => a = b
  BY Fun_BijectionProperties
<1>5. f \in [S -> 1..n]
  BY <1>1, <1>4
<1>6. f \in Injection(S, 1..n)
  BY <1>4, <1>5, Fun_IsInj
<1>7. QED
  BY <1>6

LEMMA Producto ==
  ASSUME NEW a \in Nat, NEW b \in Nat, NEW c \in Nat, a <= b
  PROVE  a * c <= b * c /\ a * c \in Nat /\ b * c \in Nat
  OBVIOUS

\* Pairs of one of a few elements and one of the few that it has are few.
LEMMA ParesPocos ==
  ASSUME NEW S, NEW T, NEW D \in [S -> SUBSET T], NEW a \in Nat, NEW b \in Nat,
         Pocos(S, a), \A s \in S : Pocos(D[s], b),
         NEW pares, \A px : px \in pares <=> px \in S \X T /\ px[2] \in D[px[1]]
  PROVE  Pocos(pares, a * b)
<1>. DEFINE f == [s \in S |-> CHOOSE g : g \in Injection(D[s], 1..b)]
            n == [px \in pares |-> <<px[1], f[px[1]][px[2]]>>]
<1>1. \A s \in S : f[s] \in Injection(D[s], 1..b)
  BY Numerados
<1>2. \A s \in S : /\ \A x \in D[s] : f[s][x] \in 1..b
                   /\ \A x, y \in D[s] : f[s][x] = f[s][y] => x = y
  BY <1>1, Fun_InjectionProperties
<1>. HIDE DEF f
<1>3. \A px \in pares : px = <<px[1], px[2]>> /\ px[1] \in S /\ px[2] \in D[px[1]]
  OBVIOUS
<1>4. n \in [pares -> S \X (1..b)]
  BY <1>2, <1>3
<1>5. ASSUME NEW px \in pares, NEW py \in pares, n[px] = n[py]
      PROVE  px = py
  <2>1. px[1] = py[1] /\ f[px[1]][px[2]] = f[py[1]][py[2]]
    BY <1>5
  <2>2. px[2] = py[2]
    BY <2>1, <1>2, <1>3
  <2>3. QED
    BY <2>1, <2>2, <1>3
<1>6. n \in Injection(pares, S \X (1..b))
  BY <1>4, <1>5, Fun_IsInj
<1>7. /\ IsFiniteSet(1..b) /\ Cardinality(1..b) = b
  BY FS_Interval
<1>8. IsFiniteSet(S) /\ Cardinality(S) \in Nat /\ Cardinality(S) <= a
  BY FS_CardinalityType DEF Pocos
<1>9. IsFiniteSet(S \X (1..b)) /\ Cardinality(S \X (1..b)) = Cardinality(S) * b
  BY <1>7, <1>8, FS_Product
<1>10. IsFiniteSet(pares) /\ Cardinality(pares) <= Cardinality(S) * b
  BY <1>6, <1>9, FS_Injection
<1>11. Cardinality(S) * b <= a * b /\ Cardinality(S) * b \in Nat /\ a * b \in Nat
  BY <1>8, Producto
<1>12. QED
  BY <1>10, <1>11, FS_CardinalityType DEF Pocos

\* The frames of a few pages are few.
MarcosEnUso(p) == {marco[<<p, y>>] : y \in presencia[p]}

LEMMA MarcosPocos ==
  ASSUME NEW p \in Procesos, IsFiniteSet(presencia[p])
  PROVE  IsFiniteSet(MarcosEnUso(p)) /\ Cardinality(MarcosEnUso(p)) <= Cardinality(presencia[p])
<1>. DEFINE S == presencia[p]
            T == MarcosEnUso(p)
            f == [y \in S |-> marco[<<p, y>>]]
<1>1. f \in [S -> T] /\ \A m \in T : \E y \in S : f[y] = m
  BY DEF MarcosEnUso
<1>2. f \in Surjection(S, T)
  BY <1>1, Fun_IsSurj
<1>. HIDE DEF f, T, S
<1>3. IsFiniteSet(T) /\ Cardinality(T) <= Cardinality(S)
  BY <1>2, FS_Surjection DEF S
<1>. QED
  BY <1>3 DEF S, T

LEMMA DeudaFinita ==
  ASSUME IInv
  PROVE  IsFiniteSet(Deuda) /\ Cardinality(Deuda) \in Nat
<1>1. IsFiniteSet(Marcos)
  BY FS_Interval, ConstantesOK DEF Marcos
<1>2. Deuda \subseteq Marcos
  BY DEF Deuda, IInv, TypeOK
<1>3. IsFiniteSet(Deuda)
  BY <1>1, <1>2, FS_Subset
<1>. QED
  BY <1>3, FS_CardinalityType

-----------------------------------------------------------------------------
(* There is a frame.                                                       *)

\* Who has frames in use is among those counted.
LEMMA UsanOcupantes ==
  ASSUME IInv, Calma, SinPaginas, NEW p \in Procesos, NEW x \in Paginas, EnUso(p, x)
  PROVE  p \in Ocupantes(0)
<1>1. TypeOK /\ Fuera /\ ~adelantado
  BY DEF IInv, Calma
<1>2. CASE Vivo(p)
  <2>1. estado[p] \in Estados /\ estado[p] # "exit"
    BY <1>1, <1>2 DEF TypeOK, Vivo
  <2>2. estado[p] \notin {"nuevo", "iniciando", "suspendido"}
    BY <1>1 DEF SinPaginas, Fuera, EnUso
  <2>3. p \in Activos
    BY <2>1, <2>2 DEF Activos, Estados
  <2>4. QED
    BY <2>3 DEF Ocupantes
<1>3. CASE ~Vivo(p)
  <2>1. PICK k \in DOMAIN peticiones : /\ peticiones[k].op = "FINALIZACION_PROCESO"
                                       /\ peticiones[k].proc = p
    BY <1>1, <1>3, RetenidosEs DEF EnUso
  <2>2. k > 0
    BY <1>1 DEF TypeOK
  <2>3. QED
    BY <2>1, <2>2 DEF Ocupantes
<1>4. QED
  BY <1>2, <1>3

\* Each process counted has at most its frames, and the one that needs a frame
\* has less: some frame is left.  SinMarco stands for the one it needs.
LEMMA HayMarcos ==
  ASSUME IInv, Calma, Holgura, pcCpu = "buscar", QuedanMarcos
  PROVE  ocupados # Marcos
<1>. DEFINE p == numero_de_tabla
            Suspende(q) == pcK \in {"swapear", "liberar"} /\ q = id_a_suspender
            S == Ocupantes(0)
            T == Marcos \union {SinMarco}
            D == [q \in S |-> MarcosEnUso(q) \union (IF q = p THEN {SinMarco} ELSE {})
                                             \union (IF Suspende(q) THEN Deuda ELSE {})]
            pares == {qm \in S \X T : qm[2] \in D[qm[1]]}
            usados == pares \ {<<p, SinMarco>>}
<1>1. /\ p \in Procesos /\ Ejecuta(p) /\ SinPaginas /\ Fiel /\ ~adelantado
      /\ S \subseteq Procesos /\ presencia \in [Procesos -> SUBSET Paginas]
      /\ \A q \in Procesos : \A y \in presencia[q] : marco[<<q, y>>] \in Marcos
      /\ \A m \in Marcos : m # SinMarco
  BY DEF IInv, TypeOK, EnCurso, Orden, UnoEjecuta, Holgura, Calma, Ocupantes, Activos, Marcos, SinMarco
<1>2. /\ GradoMultiprogramacion \in Nat /\ MarcosPorProceso \in Nat
      /\ CantidadMarcos \in Nat
      /\ GradoMultiprogramacion * MarcosPorProceso <= CantidadMarcos
      /\ GradoMultiprogramacion * MarcosPorProceso \in Nat
  BY ConstantesOK
<1>3. p \in S /\ ~Suspende(p)
  <2>1. p \in S
    BY <1>1 DEF Ocupantes, Activos, Ejecuta
  <2>2. ~Suspende(p)
    BY <1>1, CpuAparte
  <2>. QED
    BY <2>1, <2>2
<1>4. Pocos(S, GradoMultiprogramacion)
  BY DEF Holgura, Turnos, IInv, TypeOK
<1>5. ASSUME NEW q \in S
      PROVE  Pocos(D[q], MarcosPorProceso)
  <2>1. Pocos(presencia[q], MarcosPorProceso) /\ q \in Procesos
    BY <1>1 DEF Calma, Cuotas
  <2>2. /\ IsFiniteSet(MarcosEnUso(q)) /\ Cardinality(MarcosEnUso(q)) <= Cardinality(presencia[q])
        /\ Cardinality(MarcosEnUso(q)) \in Nat /\ Cardinality(presencia[q]) \in Nat
        /\ Cardinality(presencia[q]) <= MarcosPorProceso
    BY <2>1, MarcosPocos, FS_CardinalityType DEF Pocos
  <2>3. CASE q = p
    <3>1. D[q] = MarcosEnUso(q) \union {SinMarco}
      BY <1>3, <2>3
    <3>2. Cardinality(MarcosEnUso(q)) < MarcosPorProceso
      BY <1>2, <2>2, <2>3 DEF QuedanMarcos
    <3>. QED
      BY <1>2, <2>2, <3>1, <3>2, UnoMas
  <2>4. CASE Suspende(q)
    <3>1. D[q] = MarcosEnUso(q) \union Deuda
      BY <1>3, <2>4
    <3>2. /\ Cardinality(Deuda) + Cardinality(presencia[q]) <= MarcosPorProceso
          /\ IsFiniteSet(Deuda) /\ Cardinality(Deuda) \in Nat
      BY <2>4, DeudaFinita DEF Holgura, Saldo
    <3>. DEFINE U == MarcosEnUso(q)
                c == Cardinality(U \cap Deuda)
    <3>3. /\ IsFiniteSet(U \union Deuda)
          /\ Cardinality(U \union Deuda) = Cardinality(U) + Cardinality(Deuda) - c
      BY <2>2, <3>2, FS_Union
    <3>4. c \in Nat
      <4>1. IsFiniteSet(U \cap Deuda)
        BY <2>2, FS_Subset
      <4>. QED
        BY <4>1, FS_CardinalityType
    <3>. HIDE DEF c, U
    <3>5. Cardinality(U \union Deuda) <= MarcosPorProceso
      BY <1>2, <2>2, <3>2, <3>3, <3>4 DEF U
    <3>. QED
      BY <3>1, <3>3, <3>5 DEF Pocos, U
  <2>5. CASE q # p /\ ~Suspende(q)
    <3>1. D[q] = MarcosEnUso(q)
      BY <2>5
    <3>. HIDE DEF D
    <3>2. Pocos(MarcosEnUso(q), MarcosPorProceso)
      BY <1>2, <2>2 DEF Pocos
    <3>. QED
      BY <3>1, <3>2
  <2>. QED
    BY <2>3, <2>4, <2>5
<1>6. D \in [S -> SUBSET T]
  <2>1. \A q \in S : MarcosEnUso(q) \subseteq Marcos
    BY <1>1 DEF MarcosEnUso
  <2>2. Deuda \subseteq Marcos
    BY DEF Deuda, IInv, TypeOK
  <2>. QED
    BY <2>1, <2>2
<1>7. <<p, SinMarco>> \in pares
  BY <1>3
\* Every frame that is taken is of one of them.
<1>8. ASSUME NEW m \in ocupados
      PROVE  \E qm \in usados : qm[2] = m
  <2>1. m \in Marcos
    BY DEF IInv, TypeOK
  <2>2. CASE \E q \in Procesos, y \in Paginas : EnUso(q, y) /\ marco[<<q, y>>] = m
    <3>1. PICK q \in Procesos, y \in Paginas : EnUso(q, y) /\ marco[<<q, y>>] = m
      BY <2>2
    <3>2. q \in S /\ m \in MarcosEnUso(q)
      BY <1>1, <3>1, UsanOcupantes DEF EnUso, MarcosEnUso
    <3>3. <<q, m>> \in usados
      BY <1>1, <2>1, <3>2
    <3>. QED
      BY <3>3
  <2>3. CASE ~\E q \in Procesos, y \in Paginas : EnUso(q, y) /\ marco[<<q, y>>] = m
    <3>1. m \in Deuda /\ m \in PorLiberar
      BY <1>1, <2>3 DEF Deuda, Fiel, Tablas, Marcados, SinFugas
    <3>2. pcK \in {"swapear", "liberar"}
      BY <3>1 DEF PorLiberar
    <3>3. id_a_suspender \in Procesos /\ estado[id_a_suspender] = "suspendiendo"
      BY <1>1, <3>2, CpuAparte
    <3>4. id_a_suspender \in S
      BY <3>3 DEF Ocupantes, Activos
    <3>5. <<id_a_suspender, m>> \in usados
      BY <1>1, <2>1, <3>1, <3>2, <3>4
    <3>. QED
      BY <3>5
  <2>. QED
    BY <2>2, <2>3
<1>9. \A qm \in usados : qm[2] \in Marcos
  <2>1. SUFFICES ASSUME NEW qm \in usados, qm[2] = SinMarco
                 PROVE  FALSE
    OBVIOUS
  <2>2. qm = <<qm[1], SinMarco>> /\ qm[1] \in S /\ SinMarco \in D[qm[1]] /\ qm # <<p, SinMarco>>
    BY <2>1
  <2>3. qm[1] \in Procesos /\ SinMarco \notin Marcos
    BY <1>1, <2>2
  <2>4. SinMarco \notin Deuda
    BY <2>3 DEF Deuda, IInv, TypeOK
  <2>. DEFINE q == qm[1]
  <2>. HIDE DEF q
  <2>5. q \in Procesos => SinMarco \notin MarcosEnUso(q)
    BY <1>1 DEF MarcosEnUso
  <2>6. SinMarco \notin MarcosEnUso(qm[1])
    BY <2>3, <2>5 DEF q
  <2>. QED
    BY <2>2, <2>4, <2>6
<1>. HIDE DEF D
<1>. HIDE DEF S, T
<1>10. Pocos(pares, GradoMultiprogramacion * MarcosPorProceso)
  <2>1. \A qm : qm \in pares <=> qm \in S \X T /\ qm[2] \in D[qm[1]]
    OBVIOUS
  <2>2. GradoMultiprogramacion \in Nat /\ MarcosPorProceso \in Nat
    BY <1>2
  <2>3. \A q \in S : Pocos(D[q], MarcosPorProceso)
    BY <1>5
  <2>. HIDE DEF pares
  <2>4. QED
    BY <1>4, <1>6, <2>1, <2>2, <2>3, ParesPocos
<1>. HIDE DEF pares
<1>11. IsFiniteSet(usados) /\ Cardinality(usados) < CantidadMarcos
  <2>. DEFINE n == GradoMultiprogramacion * MarcosPorProceso
  <2>1. n \in Nat /\ n <= CantidadMarcos /\ Pocos(pares, n)
    BY <1>2, <1>10
  <2>. HIDE DEF n
  <2>2. IsFiniteSet(usados) /\ Cardinality(usados) = Cardinality(pares) - 1
    BY <1>7, <2>1, FS_RemoveElement DEF Pocos
  <2>3. Cardinality(pares) \in Nat /\ Cardinality(pares) <= n
    BY <2>1, FS_CardinalityType DEF Pocos
  <2>4. QED
    BY <1>2, <2>1, <2>2, <2>3
<1>. HIDE DEF usados
<1>12. SUFFICES ASSUME ocupados = Marcos
                PROVE  FALSE
  OBVIOUS
<1>13. [qm \in usados |-> qm[2]] \in Surjection(usados, Marcos)
  BY <1>8, <1>9, <1>12, Fun_IsSurj
<1>14. Cardinality(Marcos) <= Cardinality(usados)
  BY <1>11, <1>13, FS_Surjection
<1>15. Cardinality(Marcos) = CantidadMarcos
  BY <1>2, FS_Interval DEF Marcos
<1>16. QED
  BY <1>2, <1>11, <1>14, <1>15, FS_CardinalityType

-----------------------------------------------------------------------------
(* The turns of the processes.                                             *)

\* When memory has answered everything, who may hold frames is what the kernel
\* has in memory.
LEMMA AlFinalEnMemoria ==
  ASSUME TypeOK', InicioPendiente', NEW k \in Nat, k = Len(peticiones')
  PROVE  Ocupantes(k)' \subseteq EnMemoria'
<1>1. \A j \in DOMAIN peticiones' : j <= k /\ ~(j > k)
  BY DEF TypeOK
<1>2. ASSUME NEW p \in Ocupantes(k)'
      PROVE  /\ p \in Procesos
             /\ estado'[p] \in {"ready", "exec", "blocked", "suspendiendo", "iniciando"}
  BY <1>1, <1>2 DEF Ocupantes, Activos, InicioPendiente
<1>3. QED
  BY <1>2 DEF EnMemoria

\* A step that neither admits a process nor lets one more answer be due.
LEMMA TurnosSiguen ==
  ASSUME IInv, Turnos, EnMemoria' \subseteq EnMemoria, Len(peticiones') <= Len(peticiones),
         \A k \in 0..Len(peticiones') : Ocupantes(k)' \subseteq Ocupantes(k),
         peticiones' \in Seq(Peticion)
  PROVE  Turnos'
<1>1. Pocos(EnMemoria', GradoMultiprogramacion)
  BY MenosPocos, ConstantesOK DEF Turnos
<1>2. ASSUME NEW k \in 0..Len(peticiones')
      PROVE  Pocos(Ocupantes(k)', GradoMultiprogramacion)
  <2>1. Pocos(Ocupantes(k), GradoMultiprogramacion)
    BY DEF Turnos, IInv, TypeOK
  <2>2. QED
    BY <2>1, MenosPocos, ConstantesOK
<1>3. QED
  BY <1>1, <1>2 DEF Turnos, Pocos

\* A step that adds a request to the queue.
LEMMA TurnosCrecen ==
  ASSUME IInv, IInv', Turnos, Pocos(EnMemoria', GradoMultiprogramacion),
         Len(peticiones') = Len(peticiones) + 1,
         \A k \in 0..Len(peticiones) : Ocupantes(k)' \subseteq Ocupantes(k)
  PROVE  Turnos'
<1>1. Len(peticiones) \in Nat /\ TypeOK' /\ InicioPendiente'
  BY DEF IInv, TypeOK, Orden
<1>2. ASSUME NEW k \in 0..Len(peticiones')
      PROVE  Pocos(Ocupantes(k)', GradoMultiprogramacion)
  <2>1. CASE k \in 0..Len(peticiones)
    <3>1. Pocos(Ocupantes(k), GradoMultiprogramacion)
      BY <2>1 DEF Turnos
    <3>2. QED
      BY <2>1, <3>1, MenosPocos, ConstantesOK
  <2>2. CASE k = Len(peticiones')
    <3>1. Ocupantes(k)' \subseteq EnMemoria'
      BY <1>1, <2>2, AlFinalEnMemoria
    <3>2. QED
      BY <3>1, MenosPocos, ConstantesOK
  <2>3. QED
    BY <1>1, <1>2, <2>1, <2>2
<1>3. QED
  BY <1>2 DEF Turnos, Pocos

\* A request is answered.
LEMMA TurnosAvanzan ==
  ASSUME IInv, Turnos, EnMemoria' \subseteq EnMemoria,
         peticiones # <<>>, peticiones' = Tail(peticiones),
         \A k \in 0..Len(peticiones') : Ocupantes(k)' \subseteq Ocupantes(k + 1)
  PROVE  Turnos'
<1>1. /\ Len(peticiones) \in Nat /\ Len(peticiones') = Len(peticiones) - 1
  BY DEF IInv, TypeOK
<1>2. Pocos(EnMemoria', GradoMultiprogramacion)
  BY MenosPocos, ConstantesOK DEF Turnos
<1>3. ASSUME NEW k \in 0..Len(peticiones')
      PROVE  Pocos(Ocupantes(k)', GradoMultiprogramacion)
  <2>1. k + 1 \in 0..Len(peticiones)
    BY <1>1
  <2>2. Pocos(Ocupantes(k + 1), GradoMultiprogramacion)
    BY <2>1 DEF Turnos
  <2>3. QED
    BY <2>2, MenosPocos, ConstantesOK
<1>4. QED
  BY <1>2, <1>3 DEF Turnos, Pocos

\* A request is sent: until memory answers it nobody else may hold frames.
LEMMA OcupantesTrasPedir ==
  ASSUME IInv, NEW op \in Operaciones, NEW p \in Procesos, Pedir(op, p),
         Activos' \subseteq Activos, op = "FINALIZACION_PROCESO" => p \in Activos
  PROVE  /\ Len(peticiones') = Len(peticiones) + 1
         /\ \A k \in 0..Len(peticiones) : Ocupantes(k)' \subseteq Ocupantes(k)
<1>1. /\ \A k \in DOMAIN peticiones' :
           \/ k \in DOMAIN peticiones /\ peticiones'[k] = peticiones[k]
           \/ /\ k = Len(peticiones) + 1 /\ peticiones'[k].op = op
              /\ peticiones'[k].proc = p
  BY TrasPedir
<1>2. Len(peticiones') = Len(peticiones) + 1 /\ Len(peticiones) \in Nat
  BY DEF Pedir, IInv, TypeOK
<1>3. ASSUME NEW k \in 0..Len(peticiones), NEW q \in Ocupantes(k)'
      PROVE  q \in Ocupantes(k)
  <2>1. CASE q \in Activos'
    BY <2>1 DEF Ocupantes
  <2>2. CASE q \notin Activos'
    <3>1. PICK j \in DOMAIN peticiones' :
            /\ q \in Procesos /\ peticiones'[j].proc = q
            /\ \/ j <= k /\ peticiones'[j].op = "INICIO_PROCESO"
               \/ j > k /\ peticiones'[j].op = "FINALIZACION_PROCESO"
      BY <1>3, <2>2 DEF Ocupantes
    <3>2. CASE j \in DOMAIN peticiones /\ peticiones'[j] = peticiones[j]
      BY <3>1, <3>2 DEF Ocupantes
    <3>3. CASE j = Len(peticiones) + 1 /\ peticiones'[j].op = op /\ peticiones'[j].proc = p
      <4>1. ~(j <= k)
        BY <1>2, <3>3
      <4>2. q \in Activos
        BY <3>1, <3>3, <4>1
      <4>. QED
        BY <4>2 DEF Ocupantes
    <3>. QED
      BY <1>1, <3>2, <3>3
  <2>. QED
    BY <2>1, <2>2
<1>. QED
  BY <1>2, <1>3

\* A request is answered: only an INICIO_PROCESO gives the kernel a process more.
LEMMA OcupantesTrasLlegar ==
  ASSUME IInv, NEW op \in Operaciones, Llega(op), NEW p, p = Head(peticiones).proc,
         Activos' \subseteq Activos \union (IF op = "INICIO_PROCESO" THEN {p} ELSE {})
  PROVE  \A k \in 0..Len(peticiones') : Ocupantes(k)' \subseteq Ocupantes(k + 1)
<1>1. /\ 1 \in DOMAIN peticiones /\ peticiones[1].proc = p /\ peticiones[1].op = op
      /\ p \in Procesos
      /\ \A j \in DOMAIN peticiones' :
           j + 1 \in DOMAIN peticiones /\ peticiones'[j] = peticiones[j + 1]
  BY LlegaTipo, TrasLlegar
<1>2. /\ Len(peticiones') \in Nat /\ DOMAIN peticiones' = 1..Len(peticiones')
  BY LlegaTipo
<1>3. ASSUME NEW k \in 0..Len(peticiones'), NEW q \in Ocupantes(k)'
      PROVE  q \in Ocupantes(k + 1)
  <2>1. k \in Nat /\ 1 <= k + 1
    BY <1>2
  <2>2. CASE q \in Activos
    BY <2>2 DEF Ocupantes
  <2>3. CASE op = "INICIO_PROCESO" /\ q = p
    BY <1>1, <2>1, <2>3 DEF Ocupantes
  <2>4. CASE q \notin Activos'
    <3>1. PICK j \in DOMAIN peticiones' :
            /\ q \in Procesos /\ peticiones'[j].proc = q
            /\ \/ j <= k /\ peticiones'[j].op = "INICIO_PROCESO"
               \/ j > k /\ peticiones'[j].op = "FINALIZACION_PROCESO"
      BY <1>3, <2>4 DEF Ocupantes
    <3>2. /\ j + 1 \in DOMAIN peticiones /\ peticiones[j + 1] = peticiones'[j]
          /\ (j <= k => j + 1 <= k + 1) /\ (j > k => j + 1 > k + 1)
      BY <1>1, <1>2, <2>1
    <3>. QED
      BY <3>1, <3>2 DEF Ocupantes
  <2>. QED
    BY <2>2, <2>3, <2>4
<1>. QED
  BY <1>3

-----------------------------------------------------------------------------
(* The frames of a process that is being suspended.                        *)

\* A step that takes only frames for pages, and lets none go.
LEMMA DeudaMenor ==
  ASSUME \A m \in ocupados' \ ocupados :
           \E p \in Procesos, x \in Paginas : EnUso(p, x)' /\ marco'[<<p, x>>] = m,
         \A p \in Procesos, x \in Paginas : EnUso(p, x) =>
           \E q \in Procesos, y \in Paginas : EnUso(q, y)' /\ marco'[<<q, y>>] = marco[<<p, x>>]
  PROVE  Deuda' \subseteq Deuda
<1>1. SUFFICES ASSUME NEW m \in Deuda'
               PROVE  m \in Deuda
  OBVIOUS
<1>2. m \in ocupados' /\ \A p \in Procesos, x \in Paginas : EnUso(p, x)' => marco'[<<p, x>>] # m
  BY <1>1 DEF Deuda
<1>3. m \in ocupados
  BY <1>2
<1>4. ASSUME NEW p \in Procesos, NEW x \in Paginas, EnUso(p, x)
      PROVE  marco[<<p, x>>] # m
  <2>1. PICK q \in Procesos, y \in Paginas : EnUso(q, y)' /\ marco'[<<q, y>>] = marco[<<p, x>>]
    BY <1>4
  <2>. QED
    BY <1>2, <2>1
<1>. QED
  BY <1>3, <1>4 DEF Deuda

\* Nothing changes in the tables, and every process keeps its frames.
LEMMA DeudaQueda ==
  ASSUME UNCHANGED <<presencia, marco, ocupados>>, Retenidos \subseteq Retenidos'
  PROVE  Deuda' \subseteq Deuda
  BY DEF Deuda, EnUso

LEMMA SaldoSigue ==
  ASSUME IInv, IInv', Saldo, UNCHANGED <<pcK, id_a_suspender>>, Deuda' \subseteq Deuda,
         pcK \in {"swapear", "liberar"} => presencia'[id_a_suspender] = presencia[id_a_suspender],
         Cuotas
  PROVE  Saldo'
<1>1. SUFFICES ASSUME pcK \in {"swapear", "liberar"}
               PROVE  Cardinality(Deuda') + Cardinality(presencia'[id_a_suspender])
                        <= MarcosPorProceso
  BY DEF Saldo
<1>2. IsFiniteSet(Deuda) /\ Cardinality(Deuda) \in Nat
  BY DeudaFinita
<1>3. Cardinality(Deuda') <= Cardinality(Deuda) /\ IsFiniteSet(Deuda')
  BY <1>2, FS_Subset
<1>4. Cardinality(Deuda') \in Nat
  BY <1>3, FS_CardinalityType
<1>5. id_a_suspender \in Procesos
  BY <1>1 DEF IInv, EnCurso
<1>6. Cardinality(presencia[id_a_suspender]) \in Nat
  BY <1>5, FS_CardinalityType DEF Cuotas, Pocos
<1>7. Cardinality(Deuda) + Cardinality(presencia[id_a_suspender]) <= MarcosPorProceso
  BY <1>1 DEF Saldo
<1>8. presencia'[id_a_suspender] = presencia[id_a_suspender]
  BY <1>1
<1>. QED
  BY <1>2, <1>3, <1>4, <1>6, <1>7, <1>8, ConstantesOK

-----------------------------------------------------------------------------
(* The steps.                                                              *)

\* A process keeps its frames until memory answers its end.
LEMMA RetenidosSiguen ==
  ASSUME IInv, IInv',
         \A k \in DOMAIN peticiones : peticiones[k].op = "FINALIZACION_PROCESO" =>
           \E j \in DOMAIN peticiones' : peticiones'[j] = peticiones[k],
         \A p \in Procesos : Vivo(p) /\ ~Vivo(p)' =>
           \E j \in DOMAIN peticiones' : /\ peticiones'[j].op = "FINALIZACION_PROCESO"
                                         /\ peticiones'[j].proc = p
  PROVE  Retenidos \subseteq Retenidos'
<1>1. SUFFICES ASSUME NEW p \in Procesos, p \in Retenidos
               PROVE  p \in Retenidos'
  BY DEF Retenidos
<1>2. CASE Vivo(p)
  BY <1>2, RetenidosSeran DEF IInv
<1>3. CASE ~Vivo(p)
  <2>1. PICK k \in DOMAIN peticiones : /\ peticiones[k].op = "FINALIZACION_PROCESO"
                                       /\ peticiones[k].proc = p
    BY <1>1, <1>3, RetenidosEs DEF IInv
  <2>. QED
    BY <2>1, RetenidosSeran DEF IInv
<1>. QED
  BY <1>2, <1>3

\* What the kernel's steps do to the requests that wait.
LEMMA PlanificarRetiene ==
  ASSUME IInv, IInv', Planificar
  PROVE  Retenidos \subseteq Retenidos'
<1>. USE DEF Operaciones
<1>1. TypeOK
  BY DEF IInv
<1>2. ASSUME NEW p \in Procesos, NEW op \in Operaciones, Pedir(op, p),
             \A q \in Procesos \ {p} : estado'[q] = estado[q],
             ~Vivo(p)' => op = "FINALIZACION_PROCESO"
      PROVE  Retenidos \subseteq Retenidos'
  <2>1. peticiones \in Seq(Peticion) /\ [op |-> op, proc |-> p] \in Peticion
    BY <1>1 DEF TypeOK, Peticion
  <2>. DEFINE e == [op |-> op, proc |-> p]
              n == Len(peticiones) + 1
  <2>2. /\ peticiones' = Append(peticiones, e) /\ e.op = op /\ e.proc = p
    BY <1>2 DEF Pedir
  <2>. HIDE DEF e
  <2>3. /\ n \in DOMAIN peticiones' /\ peticiones'[n] = e
        /\ \A k \in DOMAIN peticiones : k \in DOMAIN peticiones' /\ peticiones'[k] = peticiones[k]
    BY <2>1, <2>2, AlFinal DEF e
  <2>. HIDE DEF n
  <2>4. \A q \in Procesos : Vivo(q) /\ ~Vivo(q)' => q = p /\ op = "FINALIZACION_PROCESO"
    BY <1>2 DEF Vivo
  <2>. QED
    BY <2>2, <2>3, <2>4, RetenidosSiguen
<1>3. ASSUME NEW p \in Procesos, UNCHANGED peticiones, estado'[p] # "exit",
             \A q \in Procesos \ {p} : estado'[q] = estado[q]
      PROVE  Retenidos \subseteq Retenidos'
  <2>1. \A q \in Procesos : Vivo(q) => Vivo(q)'
    BY <1>3 DEF Vivo
  <2>. QED
    BY <1>3, <2>1, RetenidosSiguen
<1>4. ASSUME NEW p \in Procesos, Admitir(p)
      PROVE  Retenidos \subseteq Retenidos'
  <2>1. CASE estado[p] = "nuevo"
    BY <1>1, <1>2, <1>4, <2>1 DEF Admitir, TypeOK, Vivo
  <2>2. CASE estado[p] # "nuevo"
    BY <1>1, <1>3, <1>4, <2>2 DEF Admitir, TypeOK
  <2>. QED
    BY <2>1, <2>2
<1>5. ASSUME NEW p \in Procesos, Suspender(p)
      PROVE  Retenidos \subseteq Retenidos'
  BY <1>1, <1>2, <1>5 DEF Suspender, TypeOK, Vivo
<1>6. ASSUME NEW p \in Procesos, Despachar(p) \/ Despertar(p)
      PROVE  Retenidos \subseteq Retenidos'
  BY <1>1, <1>3, <1>6 DEF Despachar, Despertar, TypeOK
<1>7. ASSUME NEW p \in Procesos, NEW a \in {"ready", "blocked", "exit"}, Devolver(p, a)
      PROVE  Retenidos \subseteq Retenidos'
  <2>1. CASE a = "exit"
    BY <1>1, <1>2, <1>7, <2>1 DEF Devolver, TypeOK
  <2>2. CASE a # "exit"
    BY <1>1, <1>3, <1>7, <2>2 DEF Devolver, TypeOK
  <2>. QED
    BY <2>1, <2>2
<1>. QED
  BY <1>4, <1>5, <1>6, <1>7 DEF Planificar

LEMMA HolguraPlanificar ==
  ASSUME IInv, IInv', Calma, ~adelantado', ReadmiteSinDeudas, Holgura, Planificar
  PROVE  Holgura'
<1>. USE DEF SinTocarMemoria, pedidos, hiloCpu, bits, datos, hiloK, Operaciones
<1>1. /\ TypeOK /\ Turnos /\ SinPaginas /\ Saldo /\ ~caido /\ Cuotas /\ ~adelantado
      /\ peticiones \in Seq(Peticion) /\ peticiones' \in Seq(Peticion)
      /\ GradoMultiprogramacion \in Nat
  BY ConstantesOK DEF IInv, Calma, Holgura, TypeOK, Peticion
<1>2. UNCHANGED <<presencia, marco, ocupados, pcK, id_a_suspender, caido>>
  BY DEF Planificar, Admitir, Despachar, Suspender, Despertar, Devolver
<1>3. Saldo' /\ ~caido'
  <2>1. Deuda' \subseteq Deuda
    BY <1>2, PlanificarRetiene, DeudaQueda
  <2>. QED
    BY <1>1, <1>2, <2>1, SaldoSigue
<1>4. ASSUME Turnos',
             \A p \in Procesos : estado'[p] \in {"nuevo", "iniciando"} =>
               estado[p] \in {"nuevo", "iniciando"}
      PROVE  Holgura'
  <2>1. SinPaginas'
    BY <1>1, <1>2, <1>4 DEF SinPaginas
  <2>. QED
    BY <1>3, <1>4, <2>1 DEF Holgura
<1>5. ASSUME NEW p \in Procesos, Admitir(p), estado[p] = "nuevo"
      PROVE  Holgura'
  <2>1. /\ estado'[p] = "iniciando" /\ Pedir("INICIO_PROCESO", p)
        /\ \A q \in Procesos \ {p} : estado'[q] = estado[q]
        /\ Cardinality(EnMemoria) < GradoMultiprogramacion
    BY <1>1, <1>5 DEF Admitir, TypeOK
  <2>2. EnMemoria' = EnMemoria \union {p} /\ Activos' \subseteq Activos
    BY <1>5, <2>1 DEF EnMemoria, Activos
  <2>3. Pocos(EnMemoria', GradoMultiprogramacion)
    BY <1>1, <2>1, <2>2, UnoMas DEF Turnos, Pocos
  <2>4. /\ Len(peticiones') = Len(peticiones) + 1
        /\ \A k \in 0..Len(peticiones) : Ocupantes(k)' \subseteq Ocupantes(k)
    BY <2>1, <2>2, OcupantesTrasPedir
  <2>5. Turnos'
    BY <1>1, <2>3, <2>4, TurnosCrecen
  <2>. QED
    BY <1>4, <1>5, <2>1, <2>5
\* It takes its place without a message: who has frames is in memory for the kernel.
<1>6. ASSUME NEW p \in Procesos, Admitir(p), estado[p] # "nuevo"
      PROVE  Holgura'
  <2>1. /\ estado[p] = "suspendido" /\ estado'[p] = "ready" /\ peticiones' = peticiones
        /\ \A q \in Procesos \ {p} : estado'[q] = estado[q]
        /\ Cardinality(EnMemoria) < GradoMultiprogramacion
    BY <1>1, <1>6 DEF Admitir, TypeOK
  <2>2. EnMemoria' = EnMemoria \union {p}
    BY <2>1 DEF EnMemoria
  <2>3. Pocos(EnMemoria', GradoMultiprogramacion)
    BY <1>1, <2>1, <2>2, UnoMas DEF Turnos, Pocos
  <2>4. \A k \in DOMAIN peticiones' : peticiones'[k].op # "FINALIZACION_PROCESO"
    BY <1>1, <2>1 DEF ReadmiteSinDeudas
  <2>5. ASSUME NEW k \in 0..Len(peticiones')
        PROVE  Pocos(Ocupantes(k)', GradoMultiprogramacion)
    <3>1. ASSUME NEW q \in Ocupantes(k)'
          PROVE  /\ q \in Procesos
                 /\ estado'[q] \in {"ready", "exec", "blocked", "suspendiendo", "iniciando"}
      BY <2>4, <3>1 DEF Ocupantes, Activos, IInv, Orden, InicioPendiente
    <3>2. Ocupantes(k)' \subseteq EnMemoria'
      BY <3>1 DEF EnMemoria
    <3>. QED
      BY <1>1, <2>3, <3>2, MenosPocos
  <2>6. Turnos'
    BY <2>3, <2>5 DEF Turnos, Pocos
  <2>. QED
    BY <1>4, <2>1, <2>6
\* A process that stays in memory.
<1>7. ASSUME NEW p \in Procesos, UNCHANGED peticiones,
             estado[p] \in {"ready", "exec", "blocked", "suspendiendo"},
             estado'[p] \in {"ready", "exec", "blocked"},
             \A q \in Procesos \ {p} : estado'[q] = estado[q]
      PROVE  Holgura'
  <2>1. EnMemoria' \subseteq EnMemoria /\ Activos' \subseteq Activos
    BY <1>7 DEF EnMemoria, Activos
  <2>2. \A k \in 0..Len(peticiones') : Ocupantes(k)' \subseteq Ocupantes(k)
    BY <1>7, <2>1 DEF Ocupantes
  <2>3. Len(peticiones') <= Len(peticiones)
    BY <1>1, <1>7
  <2>4. Turnos'
    BY <1>1, <2>1, <2>2, <2>3, TurnosSiguen
  <2>. QED
    BY <1>4, <1>7, <2>4
<1>8. ASSUME NEW p \in Procesos, NEW op \in {"SUSPENCION_PROCESO", "FINALIZACION_PROCESO"},
             Pedir(op, p), estado[p] \in {"exec", "blocked"},
             estado'[p] \in {"suspendiendo", "exit"},
             \A q \in Procesos \ {p} : estado'[q] = estado[q]
      PROVE  Holgura'
  <2>1. EnMemoria' \subseteq EnMemoria /\ Activos' \subseteq Activos /\ p \in Activos
    BY <1>8 DEF EnMemoria, Activos
  <2>2. Pocos(EnMemoria', GradoMultiprogramacion)
    BY <1>1, <2>1, MenosPocos DEF Turnos
  <2>3. /\ Len(peticiones') = Len(peticiones) + 1
        /\ \A k \in 0..Len(peticiones) : Ocupantes(k)' \subseteq Ocupantes(k)
    BY <1>8, <2>1, OcupantesTrasPedir
  <2>4. Turnos'
    BY <1>1, <2>2, <2>3, TurnosCrecen
  <2>. QED
    BY <1>4, <1>8, <2>4
<1>9. ASSUME NEW p \in Procesos, Despachar(p) \/ Despertar(p)
      PROVE  Holgura'
  BY <1>1, <1>7, <1>9 DEF Despachar, Despertar, TypeOK
<1>10. ASSUME NEW p \in Procesos, Suspender(p)
       PROVE  Holgura'
  BY <1>1, <1>8, <1>10 DEF Suspender, TypeOK
<1>11. ASSUME NEW p \in Procesos, NEW a \in {"ready", "blocked"}, Devolver(p, a)
       PROVE  Holgura'
  BY <1>1, <1>7, <1>11 DEF Devolver, Ejecuta, TypeOK
<1>12. ASSUME NEW p \in Procesos, Devolver(p, "exit")
       PROVE  Holgura'
  BY <1>1, <1>8, <1>12 DEF Devolver, Ejecuta, TypeOK
<1>. QED
  BY <1>5, <1>6, <1>9, <1>10, <1>11, <1>12 DEF Planificar

LEMMA HolguraAtenderKernel ==
  ASSUME IInv, IInv', Calma, DescartaElSuyo, Holgura, AtenderKernel
  PROVE  Holgura'
<1>. USE DEF SinTocarCpu, kernel, pedidos, hiloCpu, bits, datos, hiloK, Operaciones
<1>1. /\ TypeOK /\ EnCurso /\ Fiel /\ Turnos /\ SinPaginas /\ Saldo /\ ~caido /\ Cuotas
      /\ ~adelantado /\ presencia \in [Procesos -> SUBSET Paginas]
      /\ peticiones \in Seq(Peticion) /\ peticiones' \in Seq(Peticion)
  BY DEF IInv, Calma, Holgura, TypeOK, Peticion
<1>2. \A p \in Procesos : presencia'[p] \subseteq presencia[p]
  BY <1>1 DEF AtenderKernel, IniciarProceso, FinalizarProceso, IniciarSuspension, SwapearPagina,
     DescartarPresentes, LiberarMarcos, AvisarCpu, ConfirmarSuspension
<1>3. ASSUME Turnos', Saldo', ~caido',
             \A p \in Procesos : estado'[p] \in {"nuevo", "iniciando"} =>
               estado[p] \in {"nuevo", "iniciando"}
      PROVE  Holgura'
  <2>1. SinPaginas'
    BY <1>1, <1>2, <1>3 DEF SinPaginas
  <2>. QED
    BY <1>3, <2>1 DEF Holgura
\* A request is taken.
<1>4. ASSUME NEW op \in Operaciones, Llega(op), Saldo', UNCHANGED caido,
             NEW p, p = Head(peticiones).proc,
             \/ op # "INICIO_PROCESO" /\ UNCHANGED estado
             \/ op = "INICIO_PROCESO" /\ estado' = [estado EXCEPT ![p] = "ready"]
      PROVE  Holgura'
  <2>1. /\ p \in Procesos /\ peticiones # <<>> /\ peticiones' = Tail(peticiones)
        /\ 1 \in DOMAIN peticiones /\ peticiones[1].op = op /\ peticiones[1].proc = p
    BY <1>4, LlegaTipo, TrasLlegar
  <2>2. op = "INICIO_PROCESO" => estado[p] = "iniciando"
    BY <2>1 DEF IInv, Orden, InicioPendiente
  <2>3. /\ EnMemoria' \subseteq EnMemoria
        /\ Activos' \subseteq Activos \union (IF op = "INICIO_PROCESO" THEN {p} ELSE {})
    BY <1>1, <1>4, <2>1, <2>2 DEF EnMemoria, Activos, TypeOK
  <2>4. \A k \in 0..Len(peticiones') : Ocupantes(k)' \subseteq Ocupantes(k + 1)
    BY <1>4, <2>3, OcupantesTrasLlegar
  <2>5. Turnos'
    BY <1>1, <2>1, <2>3, <2>4, TurnosAvanzan
  <2>6. \A q \in Procesos : estado'[q] \in {"nuevo", "iniciando"} =>
          estado[q] \in {"nuevo", "iniciando"}
    BY <1>1, <1>4, <2>1 DEF TypeOK
  <2>. QED
    BY <1>1, <1>3, <1>4, <2>5, <2>6
\* None is.
<1>5. ASSUME UNCHANGED <<peticiones, caido>>, Saldo',
             \A q \in Procesos : \/ estado'[q] = estado[q]
                                 \/ estado'[q] = "suspendido"
      PROVE  Holgura'
  <2>1. EnMemoria' \subseteq EnMemoria /\ Activos' \subseteq Activos
    BY <1>5 DEF EnMemoria, Activos
  <2>2. \A k \in 0..Len(peticiones') : Ocupantes(k)' \subseteq Ocupantes(k)
    BY <1>5, <2>1 DEF Ocupantes
  <2>3. Len(peticiones') <= Len(peticiones)
    BY <1>1, <1>5
  <2>4. Turnos'
    BY <1>1, <2>1, <2>2, <2>3, TurnosSiguen
  <2>. QED
    BY <1>1, <1>3, <1>5, <2>4
<1>6. CASE IniciarProceso
  <2>1. Llega("INICIO_PROCESO") /\ pcK' = "recibir" /\ UNCHANGED caido
        /\ estado' = [estado EXCEPT ![Head(peticiones).proc] = "ready"]
    BY <1>6 DEF IniciarProceso, Llega
  <2>2. Saldo'
    BY <2>1 DEF Saldo
  <2>. QED
    BY <1>4, <2>1, <2>2
<1>7. CASE FinalizarProceso
  <2>1. Llega("FINALIZACION_PROCESO") /\ pcK' = "recibir" /\ UNCHANGED <<caido, estado>>
    BY <1>7 DEF FinalizarProceso, Llega
  <2>2. Saldo'
    BY <2>1 DEF Saldo
  <2>. QED
    BY <1>4, <2>1, <2>2
\* Nothing is owed when a suspension begins.
<1>8. CASE IniciarSuspension
  <2>1. /\ Llega("SUSPENCION_PROCESO") /\ pcK = "recibir" /\ id_a_suspender' \in Procesos
        /\ UNCHANGED <<caido, estado, presencia, marco, ocupados>>
    BY <1>8, LlegaTipo DEF IniciarSuspension
  <2>2. Retenidos \subseteq Retenidos'
    <3>1. \A k \in DOMAIN peticiones : peticiones[k].op = "FINALIZACION_PROCESO" =>
            \E j \in DOMAIN peticiones' : peticiones'[j] = peticiones[k]
      <4>1. /\ peticiones # <<>> /\ peticiones' = Tail(peticiones)
            /\ peticiones[1].op = "SUSPENCION_PROCESO"
        BY <2>1, LlegaTipo, TrasLlegar
      <4>2. ASSUME NEW k \in DOMAIN peticiones, peticiones[k].op = "FINALIZACION_PROCESO"
            PROVE  k - 1 \in DOMAIN Tail(peticiones) /\ Tail(peticiones)[k - 1] = peticiones[k]
        <5>1. k # 1
          BY <4>1, <4>2
        <5>2. /\ Len(peticiones) \in Nat /\ Len(Tail(peticiones)) = Len(peticiones) - 1
              /\ DOMAIN peticiones = 1..Len(peticiones)
              /\ DOMAIN Tail(peticiones) = 1..(Len(peticiones) - 1)
          BY <1>1, <4>1
        <5>3. k - 1 \in 1..(Len(peticiones) - 1) /\ (k - 1) + 1 = k
          BY <4>2, <5>1, <5>2
        <5>. QED
          BY <1>1, <4>1, <5>2, <5>3, DelFrente
      <4>. QED
        BY <4>1, <4>2
    <3>2. \A p \in Procesos : Vivo(p) => Vivo(p)'
      BY <2>1 DEF Vivo
    <3>. QED
      BY <3>1, <3>2, RetenidosSiguen
  <2>3. Deuda = {}
    BY <1>1, <2>1 DEF Deuda, Fiel, Tablas, Marcados, SinFugas, PorLiberar
  <2>4. Deuda' = {}
    BY <2>1, <2>2, <2>3, DeudaQueda
  <2>5. Saldo'
    <3>1. Cardinality(Deuda') = 0
      BY <2>4, FS_EmptySet
    <3>2. Cardinality(presencia[id_a_suspender']) \in Nat
          /\ Cardinality(presencia[id_a_suspender']) <= MarcosPorProceso
      BY <1>1, <2>1, FS_CardinalityType DEF Cuotas, Pocos
    <3>3. presencia' = presencia
      BY <2>1
    <3>. QED
      BY <3>1, <3>2, <3>3 DEF Saldo
  <2>. QED
    BY <1>4, <2>1, <2>5
\* A page written leaves its frame to be given back.
<1>9. CASE SwapearPagina
  <2>1. PICK x \in porSwapear :
          presencia' = [presencia EXCEPT ![id_a_suspender] = @ \ {x}]
    BY <1>9 DEF SwapearPagina
  <2>2. /\ pcK = "swapear" /\ UNCHANGED <<kernel, marco, ocupados, pcK, id_a_suspender, caido>>
    BY <1>9 DEF SwapearPagina
  <2>3. id_a_suspender \in Procesos /\ x \in presencia[id_a_suspender] /\ x \in Paginas
    BY <1>1, <2>1, <2>2 DEF EnCurso, Fiel, Tablas, EnSuspension
  <2>. DEFINE p == id_a_suspender
              m == marco[<<p, x>>]
              M == {m}
  <2>4. /\ presencia'[p] = presencia[p] \ {x}
        /\ \A q \in Procesos \ {p} : presencia'[q] = presencia[q]
    BY <1>1, <2>1, <2>3
  <2>5. Retenidos' = Retenidos
    BY <2>2 DEF Retenidos, Vivo
  <2>6. Deuda' \subseteq Deuda \union M
    <3>1. ASSUME NEW f \in Deuda', f # m
          PROVE  f \in Deuda
      <4>1. f \in ocupados /\ \A q \in Procesos, y \in Paginas : EnUso(q, y)' => marco[<<q, y>>] # f
        BY <2>2, <3>1 DEF Deuda
      <4>2. ASSUME NEW q \in Procesos, NEW y \in Paginas, EnUso(q, y), ~(q = p /\ y = x)
            PROVE  EnUso(q, y)'
        <5>1. q \in Retenidos' /\ y \in presencia[q]
          BY <4>2, <2>5 DEF EnUso
        <5>2. y \in presencia'[q]
          BY <4>2, <5>1, <2>4
        <5>. QED
          BY <5>1, <5>2 DEF EnUso
      <4>3. ASSUME NEW q \in Procesos, NEW y \in Paginas, EnUso(q, y)
            PROVE  marco[<<q, y>>] # f
        BY <3>1, <4>1, <4>2, <4>3
      <4>. QED
        BY <4>1, <4>3 DEF Deuda
    <3>. QED
      BY <3>1
  <2>7. Pocos(presencia[p], MarcosPorProceso)
    BY <1>1, <2>3 DEF Cuotas
  <2>8. /\ Cardinality(presencia'[p]) = Cardinality(presencia[p]) - 1
        /\ Cardinality(presencia[p]) \in Nat
    BY <2>3, <2>4, <2>7, FS_RemoveElement, FS_CardinalityType DEF Pocos
  <2>9. /\ Cardinality(Deuda') <= Cardinality(Deuda) + 1
        /\ Cardinality(Deuda') \in Nat /\ Cardinality(Deuda) \in Nat
    <3>1. IsFiniteSet(Deuda) /\ Cardinality(Deuda) \in Nat
      BY DeudaFinita
    <3>. HIDE DEF m
    <3>2. /\ IsFiniteSet(Deuda \union M)
          /\ \/ Cardinality(Deuda \union M) = Cardinality(Deuda)
             \/ Cardinality(Deuda \union M) = Cardinality(Deuda) + 1
      BY <3>1, FS_AddElement
    <3>3. IsFiniteSet(Deuda') /\ Cardinality(Deuda') <= Cardinality(Deuda \union M)
      BY <2>6, <3>2, FS_Subset
    <3>4. Cardinality(Deuda') \in Nat
      BY <3>3, FS_CardinalityType
    <3>. QED
      BY <3>1, <3>2, <3>3, <3>4
  <2>10. Cardinality(Deuda) + Cardinality(presencia[p]) <= MarcosPorProceso
    BY <1>1, <2>2 DEF Saldo
  <2>11. id_a_suspender' = p
    BY <2>2
  <2>. HIDE DEF p
  <2>12. Cardinality(Deuda') + Cardinality(presencia'[p]) <= MarcosPorProceso
    BY <2>8, <2>9, <2>10, ConstantesOK
  <2>13. Saldo'
    BY <2>11, <2>12 DEF Saldo
  <2>. QED
    BY <1>5, <2>2, <2>13
\* So do those that are discarded.
<1>10. CASE DescartarPresentes
  <2>1. /\ pcK = "swapear" /\ UNCHANGED <<kernel, marco, ocupados, id_a_suspender, caido>>
        /\ presencia' = [presencia EXCEPT ![numero_de_tabla] = {}]
    BY <1>10 DEF DescartarPresentes
  <2>. DEFINE p == id_a_suspender
              M == MarcosEnUso(p)
  <2>2. numero_de_tabla = p /\ p \in Procesos
    BY <1>1, <1>10 DEF DescartarPresentes, DescartaElSuyo, EnCurso
  <2>3. /\ presencia'[p] = {}
        /\ \A q \in Procesos \ {p} : presencia'[q] = presencia[q]
    BY <1>1, <2>1, <2>2
  <2>4. Retenidos' = Retenidos
    BY <2>1 DEF Retenidos, Vivo
  <2>5. Deuda' \subseteq Deuda \union M
    <3>1. ASSUME NEW f \in Deuda', f \notin M
          PROVE  f \in Deuda
      <4>1. f \in ocupados /\ \A q \in Procesos, y \in Paginas : EnUso(q, y)' => marco[<<q, y>>] # f
        BY <2>1, <3>1 DEF Deuda
      <4>2. ASSUME NEW q \in Procesos, NEW y \in Paginas, EnUso(q, y), ~(q = p /\ y \in presencia[p])
            PROVE  EnUso(q, y)'
        <5>1. q \in Retenidos' /\ y \in presencia[q]
          BY <4>2, <2>4 DEF EnUso
        <5>2. y \in presencia'[q]
          BY <4>2, <5>1, <2>3
        <5>. QED
          BY <5>1, <5>2 DEF EnUso
      <4>3. ASSUME NEW q \in Procesos, NEW y \in Paginas, EnUso(q, y)
            PROVE  marco[<<q, y>>] # f
        BY <3>1, <4>1, <4>2, <4>3 DEF MarcosEnUso
      <4>. QED
        BY <4>1, <4>3 DEF Deuda
    <3>. QED
      BY <3>1
  <2>6. Pocos(presencia[p], MarcosPorProceso)
    BY <1>1, <2>2 DEF Cuotas
  <2>7. /\ IsFiniteSet(M) /\ Cardinality(M) <= Cardinality(presencia[p])
        /\ Cardinality(M) \in Nat /\ Cardinality(presencia[p]) \in Nat
    BY <2>2, <2>6, MarcosPocos, FS_CardinalityType DEF Pocos
  <2>8. /\ Cardinality(Deuda') <= Cardinality(Deuda) + Cardinality(M)
        /\ Cardinality(Deuda') \in Nat /\ Cardinality(Deuda) \in Nat
    <3>1. IsFiniteSet(Deuda) /\ Cardinality(Deuda) \in Nat
      BY DeudaFinita
    <3>. HIDE DEF M
    <3>2. /\ IsFiniteSet(Deuda \union M)
          /\ Cardinality(Deuda \union M) =
               Cardinality(Deuda) + Cardinality(M) - Cardinality(Deuda \intersect M)
      BY <2>7, <3>1, FS_Union
    <3>3. IsFiniteSet(Deuda \intersect M)
      BY <3>1, FS_Subset
    <3>4. Cardinality(Deuda \intersect M) \in Nat
      BY <3>3, FS_CardinalityType
    <3>5. IsFiniteSet(Deuda') /\ Cardinality(Deuda') <= Cardinality(Deuda \union M)
      BY <2>5, <3>2, FS_Subset
    <3>6. Cardinality(Deuda') \in Nat
      BY <3>5, FS_CardinalityType
    <3>. QED
      BY <2>7, <3>1, <3>2, <3>4, <3>5, <3>6
  <2>9. Cardinality(Deuda) + Cardinality(presencia[p]) <= MarcosPorProceso
    BY <1>1, <2>1 DEF Saldo
  <2>10. id_a_suspender' = p /\ Cardinality(presencia'[p]) = 0
    BY <2>1, <2>3, FS_EmptySet
  <2>. HIDE DEF p, M
  <2>11. Cardinality(Deuda') + Cardinality(presencia'[p]) <= MarcosPorProceso
    BY <2>7, <2>8, <2>9, <2>10, ConstantesOK
  <2>12. Saldo'
    BY <2>10, <2>11 DEF Saldo
  <2>. QED
    BY <1>5, <2>1, <2>12
<1>11. CASE LiberarMarcos \/ AvisarCpu
  <2>1. UNCHANGED <<kernel, caido>> /\ pcK' \in {"avisar", "confirmar"}
    BY <1>11 DEF LiberarMarcos, AvisarCpu
  <2>2. Saldo'
    BY <2>1 DEF Saldo
  <2>. QED
    BY <1>5, <2>1, <2>2
<1>12. CASE ConfirmarSuspension
  <2>1. /\ UNCHANGED <<peticiones, caido>> /\ pcK' = "recibir"
        /\ \A q \in Procesos : estado'[q] = estado[q] \/ estado'[q] = "suspendido"
    BY <1>1, <1>12 DEF ConfirmarSuspension, TypeOK
  <2>2. Saldo'
    BY <2>1 DEF Saldo
  <2>. QED
    BY <1>5, <2>1, <2>2
<1>. QED
  BY <1>6, <1>7, <1>8, <1>9, <1>10, <1>11, <1>12 DEF AtenderKernel

LEMMA HolguraAtenderCpu ==
  ASSUME IInv, IInv', Calma, Holgura, AtenderCpu
  PROVE  Holgura'
<1>. USE DEF SinTocarKernel, kernel, pedidos, hiloCpu, bits, datos, hiloK
<1>0. PICK p, x : p = numero_de_tabla /\ x = acceso.pagina
  OBVIOUS
<1>1. /\ p = numero_de_tabla /\ x = acceso.pagina
      /\ TypeOK /\ EnCurso /\ UnoEjecuta /\ CpuAlDia /\ Fiel /\ Cuotas /\ ~adelantado
      /\ Turnos /\ SinPaginas /\ Saldo /\ ~caido /\ p \in Procesos
      /\ (pcCpu # "libre" => x \in Paginas)
      /\ presencia \in [Procesos -> SUBSET Paginas]
      /\ marco \in [Procesos \X Paginas -> Marcos \union {SinMarco}]
  BY <1>0 DEF IInv, Orden, Calma, Fiel, Tablas, Holgura, TypeOK, EnCurso
<1>2. UNCHANGED <<estado, peticiones, pcK, id_a_suspender>>
  BY DEF AtenderCpu, IniciarAcceso, MirarSwap, EsperarSwap, BuscarPresente, AsignarMarco,
         AsignarSinMarco, ElegirVictima, CargarPagina, Leer, EscribirMarco, EscribirSinPagina
<1>3. Turnos' /\ Retenidos' = Retenidos
  BY <1>1, <1>2 DEF Turnos, EnMemoria, Ocupantes, Activos, Pocos, Retenidos, Vivo
<1>4. ASSUME UNCHANGED <<presencia, marco, ocupados, caido>>
      PROVE  Holgura'
  <2>1. SinPaginas' /\ ~caido'
    BY <1>1, <1>2, <1>4 DEF SinPaginas
  <2>2. Deuda' \subseteq Deuda
    BY <1>3, <1>4, DeudaQueda
  <2>3. Saldo'
    BY <1>1, <1>2, <1>4, <2>2, SaldoSigue
  <2>. QED
    BY <1>3, <2>1, <2>3 DEF Holgura
\* The frames and the pages of p change, and no frame is left without a page.
<1>5. ASSUME pcCpu # "libre", UNCHANGED caido,
             \A q \in Procesos \ {p} : presencia'[q] = presencia[q],
             Deuda' \subseteq Deuda
      PROVE  Holgura'
  <2>1. estado[p] = "exec"
    BY <1>1, <1>5 DEF UnoEjecuta, Ejecuta
  <2>2. SinPaginas'
    BY <1>1, <1>2, <1>5, <2>1 DEF SinPaginas
  <2>3. pcK # "recibir" => id_a_suspender \in Procesos \ {p}
    BY <1>1, <1>5, CpuAparte
  <2>4. Saldo'
    BY <1>1, <1>2, <1>5, <2>3, SaldoSigue
  <2>. QED
    BY <1>1, <1>3, <1>5, <2>2, <2>4 DEF Holgura
<1>6. ASSUME pcCpu # "libre"
      PROVE  p \in Retenidos
  <2>1. Vivo(p)
    BY <1>1, <1>6 DEF UnoEjecuta, Ejecuta, Vivo
  <2>. QED
    BY <1>1, <2>1, RetenidosEs
<1>7. CASE AsignarMarco
  <2>1. PICK m \in Marcos \ ocupados :
          /\ ocupados' = ocupados \union {m}
          /\ marco' = [marco EXCEPT ![<<p, x>>] = m]
          /\ presencia' = [presencia EXCEPT ![p] = @ \union {x}]
    BY <1>1, <1>7 DEF AsignarMarco
  <2>2. pcCpu = "buscar" /\ x \notin presencia[p] /\ UNCHANGED caido /\ x \in Paginas
    BY <1>1, <1>7 DEF AsignarMarco
  <2>3. /\ \A q \in Procesos \ {p} : presencia'[q] = presencia[q]
        /\ presencia'[p] = presencia[p] \union {x}
    BY <1>1, <2>1
  <2>4. /\ marco'[<<p, x>>] = m
        /\ \A q \in Procesos, y \in Paginas : ~(q = p /\ y = x) => marco'[<<q, y>>] = marco[<<q, y>>]
    BY <1>1, <2>1, <2>2
  <2>5. p \in Retenidos
    BY <1>6, <2>2
  <2>6. EnUso(p, x)'
    BY <1>3, <2>3, <2>5 DEF EnUso
  <2>7. ASSUME NEW q \in Procesos, NEW y \in Paginas, EnUso(q, y)
        PROVE  EnUso(q, y)' /\ marco'[<<q, y>>] = marco[<<q, y>>]
    <3>1. q \in Retenidos' /\ y \in presencia[q]
      BY <1>3, <2>7 DEF EnUso
    <3>2. y \in presencia'[q] /\ ~(q = p /\ y = x)
      BY <2>2, <2>3, <2>7, <3>1
    <3>. QED
      BY <2>4, <3>1, <3>2 DEF EnUso
  <2>8. \A f \in ocupados' \ ocupados :
          \E q \in Procesos, y \in Paginas : EnUso(q, y)' /\ marco'[<<q, y>>] = f
    BY <1>1, <2>1, <2>2, <2>4, <2>6
  <2>9. \A q \in Procesos, y \in Paginas : EnUso(q, y) =>
          \E r \in Procesos, z \in Paginas : EnUso(r, z)' /\ marco'[<<r, z>>] = marco[<<q, y>>]
    BY <2>7
  <2>10. Deuda' \subseteq Deuda
    BY <2>8, <2>9, DeudaMenor
  <2>. QED
    BY <1>5, <2>2, <2>3, <2>10
<1>8. CASE CargarPagina
  <2>0. PICK m, v : v = victima /\ m = marco[<<p, v>>]
    OBVIOUS
  <2>1. /\ pcCpu = "reemplazar" /\ UNCHANGED <<ocupados, caido>>
        /\ marco' = [marco EXCEPT ![<<p, x>>] = m]
        /\ presencia' = [presencia EXCEPT ![p] = (@ \ {v}) \union {x}]
    BY <1>1, <1>8, <2>0 DEF CargarPagina
  <2>2. x \in Paginas /\ x \notin presencia[p] /\ v \in presencia[p]
    BY <1>1, <2>0, <2>1 DEF CpuAlDia
  <2>3. /\ \A q \in Procesos \ {p} : presencia'[q] = presencia[q]
        /\ presencia'[p] = (presencia[p] \ {v}) \union {x}
    BY <1>1, <2>1
  <2>4. m \in Marcos
    BY <1>1, <2>0, <2>1 DEF EnCurso
  <2>5. /\ marco'[<<p, x>>] = m
        /\ \A q \in Procesos, y \in Paginas : ~(q = p /\ y = x) => marco'[<<q, y>>] = marco[<<q, y>>]
    BY <1>1, <2>1, <2>2
  <2>6. p \in Retenidos
    BY <1>6, <2>1
  <2>7. EnUso(p, x)' /\ marco'[<<p, x>>] = m
    BY <1>3, <2>3, <2>5, <2>6 DEF EnUso
  <2>8. ASSUME NEW q \in Procesos, NEW y \in Paginas, EnUso(q, y)
        PROVE  \E r \in Procesos, z \in Paginas :
                 EnUso(r, z)' /\ marco'[<<r, z>>] = marco[<<q, y>>]
    <3>1. CASE q = p /\ y = v
      BY <1>1, <2>0, <2>2, <2>7, <3>1
    <3>2. CASE ~(q = p /\ y = v)
      <4>1. q \in Retenidos' /\ y \in presencia[q]
        BY <1>3, <2>8 DEF EnUso
      <4>2. y \in presencia'[q] /\ ~(q = p /\ y = x)
        BY <2>2, <2>3, <2>8, <3>2, <4>1
      <4>3. EnUso(q, y)' /\ marco'[<<q, y>>] = marco[<<q, y>>]
        BY <2>5, <4>1, <4>2 DEF EnUso
      <4>. QED
        BY <4>3
    <3>. QED
      BY <3>1, <3>2
  <2>9. Deuda' \subseteq Deuda
    BY <2>1, <2>8, DeudaMenor
  <2>. QED
    BY <1>5, <2>1, <2>3, <2>9
<1>9. CASE AsignarSinMarco
  <2>1. /\ pcCpu = "buscar" /\ QuedanMarcos /\ ocupados = Marcos
    BY <1>9 DEF AsignarSinMarco
  <2>. QED
    BY <2>1, HayMarcos
<1>10. ASSUME NEW q \in Procesos, EscribirSinPagina(q)
       PROVE  FALSE
  <2>1. /\ q = p /\ x \in presencia[q] /\ marco[<<q, x>>] = acceso.marco
    BY <1>1, <1>10 DEF EscribirSinPagina, TypeOK, UnoEjecuta, CpuAlDia, EnTabla
  <2>. QED
    BY <1>10, <2>1 DEF EscribirSinPagina
<1>11. ASSUME NEW q \in Procesos, NEW y \in Paginas, NEW e \in BOOLEAN, IniciarAcceso(q, y, e)
       PROVE  Holgura'
  BY <1>4, <1>11 DEF IniciarAcceso
<1>12. CASE MirarSwap \/ EsperarSwap \/ BuscarPresente \/ ElegirVictima \/ Leer
  BY <1>4, <1>12 DEF MirarSwap, EsperarSwap, BuscarPresente, ElegirVictima, Leer
<1>13. ASSUME NEW q \in Procesos, EscribirMarco(q)
       PROVE  Holgura'
  BY <1>4, <1>13 DEF EscribirMarco
<1>. QED
  BY <1>7, <1>8, <1>9, <1>10, <1>11, <1>12, <1>13 DEF AtenderCpu

LEMMA HolguraPaso ==
  ASSUME IInv, IInv', Calma, ~adelantado', DescartaElSuyo, ReadmiteSinDeudas, Holgura,
         [Next]_vars
  PROVE  Holgura'
<1>1. CASE Planificar
  BY <1>1, HolguraPlanificar
<1>2. CASE AtenderCpu
  BY <1>2, HolguraAtenderCpu
<1>3. CASE AtenderKernel
  BY <1>3, HolguraAtenderKernel
<1>4. CASE UNCHANGED vars
  BY <1>4 DEF vars, kernel, bits, hiloK, Holgura, Turnos, SinPaginas, Saldo, Deuda, EnUso,
     Retenidos, Vivo, EnMemoria, Ocupantes, Activos, Pocos
<1>. QED
  BY <1>1, <1>2, <1>3, <1>4 DEF Next, Reposo

LEMMA HolguraInicial == Init => Holgura
<1>. SUFFICES ASSUME Init
              PROVE  Holgura
  OBVIOUS
<1>1. EnMemoria = {} /\ Activos = {} /\ peticiones = <<>>
  BY DEF Init, EnMemoria, Activos
<1>2. DOMAIN peticiones = {}
  BY <1>1
<1>3. \A k \in 0..Len(peticiones) : Ocupantes(k) = {}
  BY <1>1, <1>2 DEF Ocupantes
<1>4. Pocos({}, GradoMultiprogramacion)
  BY FS_EmptySet, ConstantesOK DEF Pocos
<1>5. Turnos
  BY <1>1, <1>3, <1>4 DEF Turnos
<1>6. SinPaginas /\ Saldo /\ ~caido
  BY DEF Init, SinPaginas, Saldo
<1>7. QED
  BY <1>5, <1>6 DEF Holgura

-----------------------------------------------------------------------------
(* The quota of a process.                                                 *)

\* Pages only leave.
LEMMA SitioMenos ==
  ASSUME Sitio, IInv, UNCHANGED <<pcCpu, numero_de_tabla, victima>>,
         \A p \in Procesos : presencia'[p] \subseteq presencia[p]
  PROVE  Sitio'
<1>1. MarcosPorProceso \in Nat /\ numero_de_tabla \in Procesos
  BY ConstantesOK DEF IInv, TypeOK
<1>2. Cuotas'
  <2>1. \A p \in Procesos : Pocos(presencia'[p], MarcosPorProceso)
    BY <1>1, MenosPocos DEF Sitio, Cuotas
  <2>. QED
    BY <2>1 DEF Cuotas, Pocos
<1>3. ASSUME pcCpu = "reemplazar"
      PROVE  Cardinality(presencia'[numero_de_tabla] \ {victima}) < MarcosPorProceso
  <2>. DEFINE S == presencia[numero_de_tabla] \ {victima}
              T == presencia'[numero_de_tabla] \ {victima}
  <2>1. IsFiniteSet(presencia[numero_de_tabla])
    BY <1>1 DEF Sitio, Cuotas, Pocos
  <2>2. IsFiniteSet(S) /\ T \subseteq S /\ Cardinality(S) < MarcosPorProceso
    BY <1>1, <1>3, <2>1, FS_Subset DEF Sitio
  <2>. HIDE DEF S, T
  <2>3. IsFiniteSet(T) /\ Cardinality(T) <= Cardinality(S)
    BY <2>2, FS_Subset
  <2>4. Cardinality(T) \in Nat /\ Cardinality(S) \in Nat
    BY <2>2, <2>3, FS_CardinalityType
  <2>5. Cardinality(T) < MarcosPorProceso
    BY <1>1, <2>2, <2>3, <2>4
  <2>. QED
    BY <2>5 DEF T
<1>. QED
  BY <1>2, <1>3 DEF Sitio

\* The pages of one process change, and it is not about to replace any.
LEMMA SitioUno ==
  ASSUME Sitio, IInv, pcCpu' # "reemplazar", NEW p \in Procesos,
         Pocos(presencia'[p], MarcosPorProceso),
         \A q \in Procesos \ {p} : presencia'[q] = presencia[q]
  PROVE  Sitio'
<1>1. \A q \in Procesos : Pocos(presencia'[q], MarcosPorProceso)
  BY DEF Sitio, Cuotas
<1>2. Cuotas'
  BY <1>1 DEF Cuotas, Pocos
<1>. QED
  BY <1>2 DEF Sitio

LEMMA SitioPaso == IInv /\ Sitio /\ [Next]_vars => Sitio'
<1>. SUFFICES ASSUME IInv, Sitio, [Next]_vars
              PROVE  Sitio'
  OBVIOUS
<1>. USE DEF bits, hiloCpu
<1>. DEFINE p == numero_de_tabla
            x == acceso.pagina
<1>1. /\ TypeOK /\ EnCurso /\ Cuotas /\ p \in Procesos
      /\ presencia \in [Procesos -> SUBSET Paginas]
      /\ MarcosPorProceso \in Nat
  BY ConstantesOK DEF IInv, TypeOK, Sitio
<1>2. CASE Planificar
  <2>1. UNCHANGED <<presencia, pcCpu, numero_de_tabla, victima>>
    BY <1>2 DEF Planificar, Admitir, Despachar, Suspender, Despertar, Devolver, SinTocarMemoria
  <2>. QED
    BY <2>1, SitioMenos
<1>3. CASE AtenderKernel
  <2>1. UNCHANGED <<pcCpu, numero_de_tabla, victima>>
        /\ \A q \in Procesos : presencia'[q] \subseteq presencia[q]
    BY <1>1, <1>3 DEF AtenderKernel, IniciarProceso, FinalizarProceso, IniciarSuspension,
       SwapearPagina, DescartarPresentes, LiberarMarcos, AvisarCpu, ConfirmarSuspension, SinTocarCpu
  <2>. QED
    BY <2>1, SitioMenos
<1>4. CASE UNCHANGED vars
  BY <1>4, SitioMenos DEF vars
<1>5. ASSUME pcCpu' # "reemplazar", UNCHANGED presencia
      PROVE  Sitio'
  <2>1. Pocos(presencia'[p], MarcosPorProceso)
    BY <1>1, <1>5 DEF Cuotas
  <2>. QED
    BY <1>1, <1>5, <2>1, SitioUno
<1>6. CASE AsignarMarco
  <2>1. /\ presencia' = [presencia EXCEPT ![p] = @ \union {x}] /\ pcCpu' = "tercero"
        /\ Cardinality(presencia[p]) < MarcosPorProceso
    BY <1>6 DEF AsignarMarco, Responder, QuedanMarcos
  <2>2. IsFiniteSet(presencia[p])
    BY <1>1 DEF Cuotas, Pocos
  <2>3. Pocos(presencia[p] \union {x}, MarcosPorProceso)
    BY <1>1, <2>1, <2>2, UnoMas
  <2>4. /\ presencia'[p] = presencia[p] \union {x}
        /\ \A q \in Procesos \ {p} : presencia'[q] = presencia[q]
    BY <1>1, <2>1
  <2>. QED
    BY <1>1, <2>1, <2>3, <2>4, SitioUno
\* The victim leaves its place.
<1>7. CASE ElegirVictima
  <2>1. /\ victima' \in presencia[p] /\ UNCHANGED <<presencia, numero_de_tabla>>
    BY <1>7 DEF ElegirVictima
  <2>2. Pocos(presencia[p], MarcosPorProceso)
    BY <1>1 DEF Cuotas
  <2>3. PICK v \in presencia[p] : v = victima'
    BY <2>1
  <2>4. /\ Cardinality(presencia[p] \ {v}) = Cardinality(presencia[p]) - 1
        /\ Cardinality(presencia[p]) \in Nat /\ Cardinality(presencia[p]) <= MarcosPorProceso
    BY <2>2, FS_RemoveElement, FS_CardinalityType DEF Pocos
  <2>5. Cardinality(presencia[p] \ {v}) < MarcosPorProceso
    BY <1>1, <2>4
  <2>6. Cuotas'
    BY <1>1, <2>1 DEF Cuotas, Pocos
  <2>. QED
    BY <2>1, <2>3, <2>5, <2>6 DEF Sitio
<1>8. CASE CargarPagina
  <2>1. /\ presencia' = [presencia EXCEPT ![p] = (@ \ {victima}) \union {x}]
        /\ pcCpu = "reemplazar" /\ pcCpu' = "tercero"
    BY <1>8 DEF CargarPagina, Responder
  <2>. DEFINE S == presencia[p] \ {victima}
  <2>2. IsFiniteSet(presencia[p]) /\ Cardinality(S) < MarcosPorProceso
    BY <1>1, <2>1 DEF Sitio, Cuotas, Pocos
  <2>3. IsFiniteSet(S)
    BY <2>2, FS_Subset
  <2>4. /\ presencia'[p] = S \union {x}
        /\ \A q \in Procesos \ {p} : presencia'[q] = presencia[q]
    BY <1>1, <2>1
  <2>. HIDE DEF S
  <2>5. Pocos(S \union {x}, MarcosPorProceso)
    BY <1>1, <2>2, <2>3, UnoMas
  <2>. QED
    BY <1>1, <2>1, <2>4, <2>5, SitioUno
<1>9. CASE MirarSwap \/ EsperarSwap \/ BuscarPresente \/ Leer
  <2>1. pcCpu' # "reemplazar" /\ UNCHANGED presencia
    BY <1>9 DEF MirarSwap, EsperarSwap, BuscarPresente, Leer, Siguiente, Espera, Responder
  <2>. QED
    BY <1>5, <2>1
<1>10. CASE AsignarSinMarco
  BY <1>10, SitioMenos DEF AsignarSinMarco
<1>11. ASSUME NEW q \in Procesos, NEW y \in Paginas, NEW e \in BOOLEAN, IniciarAcceso(q, y, e)
       PROVE  Sitio'
  <2>1. pcCpu' # "reemplazar" /\ UNCHANGED presencia
    BY <1>11 DEF IniciarAcceso
  <2>. QED
    BY <1>5, <2>1
<1>12. ASSUME NEW q \in Procesos, EscribirMarco(q)
       PROVE  Sitio'
  <2>1. pcCpu' # "reemplazar" /\ UNCHANGED presencia
    BY <1>12 DEF EscribirMarco
  <2>. QED
    BY <1>5, <2>1
<1>13. ASSUME NEW q \in Procesos, EscribirSinPagina(q)
       PROVE  Sitio'
  BY <1>13, SitioMenos DEF EscribirSinPagina
<1>. QED
  BY <1>2, <1>3, <1>4, <1>6, <1>7, <1>8, <1>9, <1>10, <1>11, <1>12, <1>13
     DEF Next, Reposo, AtenderCpu

LEMMA SitioSiempre == Spec => []Sitio
<1>1. Init => Sitio
  <2>1. \A p \in Procesos : Init => presencia[p] = {}
    BY DEF Init
  <2>2. Pocos({}, MarcosPorProceso)
    BY FS_EmptySet, ConstantesOK DEF Pocos
  <2>. QED
    BY <2>1, <2>2 DEF Init, Sitio, Cuotas
<1>. QED
  BY <1>1, SitioPaso, InvSiempre, PTL DEF Spec

\* Whatever the suspensions, the TLB and what the threads of memory do to each
\* other, no process has more pages present than its due (memoria.c:288-295).
THEOREM CuotaSiempre ==
  Spec => [](\A p \in Procesos : Cardinality(presencia[p]) <= MarcosPorProceso)
<1>1. Sitio => \A p \in Procesos : Cardinality(presencia[p]) <= MarcosPorProceso
  BY DEF Sitio, Cuotas, Pocos
<1>. QED
  BY <1>1, SitioSiempre, PTL

-----------------------------------------------------------------------------
(* There is always a frame.                                                *)

\* Until a process comes back before its suspension is confirmed.
Alcanza == ~adelantado => Holgura

LEMMA AlcanzaPaso ==
  IInv /\ IInv' /\ Promesa /\ Fuera /\ Sitio /\ NadieEstorba /\ Alcanza
    /\ ReadmiteSinDeudas /\ [Next]_vars => Alcanza'
<1>. SUFFICES ASSUME IInv, IInv', Promesa, Fuera, Sitio, NadieEstorba, Alcanza,
                     ReadmiteSinDeudas, [Next]_vars, ~adelantado'
              PROVE  Holgura'
  BY DEF Alcanza
<1>1. ~adelantado
  BY AdelantadoQueda
<1>2. Calma /\ Holgura /\ DescartaElSuyo
  BY <1>1 DEF Promesa, Sitio, Alcanza, NadieEstorba, Calma
<1>. QED
  BY <1>2, HolguraPaso

LEMMA FueraSiempre == Spec /\ []NadieEstorba => []Fuera
<1>1. Init => Fuera
  BY DEF Init, Fuera
<1>2. IInv /\ NadieEstorba /\ Fuera /\ [Next]_vars => Fuera'
  <2>. SUFFICES ASSUME IInv, NadieEstorba, Fuera, [Next]_vars, ~adelantado'
                PROVE  Fuera'
    BY DEF Fuera
  <2>1. ~adelantado
    BY AdelantadoQueda
  <2>. QED
    BY <2>1, FueraPaso DEF NadieEstorba
<1>. QED
  BY <1>1, <1>2, InvSiempre, PTL DEF Spec

LEMMA AlcanzaCuota == Sitio /\ Alcanza => CuotaRespetada
  BY DEF Sitio, Alcanza, Holgura, Cuotas, Pocos, CuotaRespetada

\* Any number of processes, suspensions and TLB entries: no page is loaded where
\* there is no frame nor written where it is not, until something of another
\* process is touched, a suspended process is admitted while an end still waits
\* (kernel.c:297, 424), or one comes back early (memoria.c:288-295, 152, 666).
THEOREM CuotaSiNadieEstorba ==
  Spec /\ []NadieEstorba /\ [][ReadmiteSinDeudas]_vars => []CuotaRespetada
<1>1. Init => Alcanza
  BY HolguraInicial DEF Alcanza
<1>2. IInv /\ IInv' /\ Promesa /\ Fuera /\ Sitio /\ NadieEstorba /\ Alcanza
        /\ [ReadmiteSinDeudas]_vars /\ [Next]_vars => Alcanza'
  <2>. SUFFICES ASSUME IInv, IInv', Promesa, Fuera, Sitio, NadieEstorba, Alcanza,
                       [ReadmiteSinDeudas]_vars, [Next]_vars
                PROVE  Alcanza'
    OBVIOUS
  <2>1. CASE UNCHANGED vars
    <3>1. ReadmiteSinDeudas
      BY <2>1 DEF vars, kernel, ReadmiteSinDeudas
    <3>. QED
      BY <3>1, AlcanzaPaso
  <2>2. CASE ReadmiteSinDeudas
    BY <2>2, AlcanzaPaso
  <2>. QED
    BY <2>1, <2>2
<1>. QED
  BY <1>1, <1>2, FielSinEstorbos, FueraSiempre, SitioSiempre, AlcanzaCuota, PTL DEF Spec

\* With a TLB of one entry, and no suspensions or one process, suspended any
\* number of times, there is a frame for each page that needs one, and no page is
\* written where it is not (memoria.c:288-295, 152, 666).
THEOREM SiempreHayMarcos ==
  ASSUME Aislado, EntradasTlb = 1
  PROVE  Spec => []CuotaRespetada
<1>1. IInv /\ Promesa => NadieEstorba
  BY AisladoNoEstorba DEF Promesa, NadieEstorba, Fiel, Tablas, CpuAlDia, EnTabla, TlbPresente
\* The only process does not come back once it has ended.
<1>2. IInv /\ Promesa => ReadmiteSinDeudas
  <2>1. SUFFICES ASSUME IInv, Fiel, NEW p \in Procesos, estado[p] = "suspendido",
                        NEW k \in DOMAIN peticiones,
                        peticiones[k].op = "FINALIZACION_PROCESO"
                 PROVE  FALSE
    BY DEF Promesa, ReadmiteSinDeudas
  <2>2. CASE MaxSuspensiones = 0
    BY <2>1, <2>2 DEF Fiel, SinSuspensiones
  <2>3. CASE \A q, r \in Procesos : q = r
    <3>1. peticiones[k].proc \in Procesos
      BY <2>1, Campos DEF IInv, TypeOK, Peticion
    <3>. QED
      BY <2>1, <2>3, <3>1 DEF Fiel, FinPendiente
  <2>. QED
    BY <2>2, <2>3 DEF Aislado
<1>3. IInv /\ Promesa => [ReadmiteSinDeudas]_vars
  BY <1>2
<1>. QED
  BY <1>1, <1>3, FielSiempre, CuotaSiNadieEstorba, PTL
=============================================================================
