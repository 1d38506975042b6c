---------------------------- MODULE KernelProofs ----------------------------
(***************************************************************************)
(* Proofs about Kernel, for any processes, degree, estimate and number of  *)
(* blockings, with or without timers, FIFO or SRT.                         *)
(*                                                                         *)
(* One inductive invariant carries them all.  SemaforosExactos needs to    *)
(* know that a thread at a pop has an element to pop, hence the types      *)
(* (Head of an empty queue has none) and Punteros; the types need          *)
(* SemaforosExactos for the same reason, and ExclusionCpu is what bounds   *)
(* the PCBs between scheduler, CPU and listener.  None of them is          *)
(* inductive alone.                                                        *)
(*                                                                         *)
(* Every lemma <Action>Inv has the same shape: the invariant holds before; *)
(* what the action does to the program counter; to the semaphores; to the  *)
(* queues and records; to the number of threads between a semaphore and    *)
(* its queue; and then each of the four parts of the invariant.            *)
(***************************************************************************)
EXTENDS Kernel, TLAPS

IInv == TypeOK /\ Punteros /\ SemaforosExactos /\ ExclusionCpu

-----------------------------------------------------------------------------
(* Steps of a thread and of a semaphore.                                   *)

\* A thread that goes to a place of its own code leaves the others where they are.
LEMMA IrSitios ==
  ASSUME Sitios, NEW t \in Hilos, NEW a, NEW b \in Lugares[t], Ir(t, a, b)
  PROVE  /\ Sitios' /\ pc[t] = a /\ pc'[t] = b
         /\ \A h \in Hilos : h # t => pc'[h] = pc[h]
  BY DEF Sitios, Ir

\* sem_wait takes one from its semaphore, which had one, and touches no other.
LEMMA WaitTipo ==
  ASSUME sem \in [Semaforos -> Nat], NEW s \in Semaforos, Wait(s)
  PROVE  /\ sem' \in [Semaforos -> Nat] /\ sem[s] > 0 /\ sem'[s] = sem[s] - 1
         /\ \A r \in Semaforos : r # s => sem'[r] = sem[r]
  BY DEF Wait

\* sem_post adds one to its semaphore and touches no other.
LEMMA PostTipo ==
  ASSUME sem \in [Semaforos -> Nat], NEW s \in Semaforos, Post(s)
  PROVE  /\ sem' \in [Semaforos -> Nat] /\ sem'[s] = sem[s] + 1
         /\ \A r \in Semaforos : r # s => sem'[r] = sem[r]
  BY DEF Post

-----------------------------------------------------------------------------
(* What is counted is a natural number.                                    *)

\* Semaphores and lengths of queues are natural numbers.
LEMMA Naturales ==
  ASSUME TypeOK
  PROVE  /\ sem["planificacion"] \in Nat /\ sem["new"] \in Nat /\ sem["ready"] \in Nat
         /\ sem["bloqueados"] \in Nat /\ sem["susp_ready"] \in Nat
         /\ Len(new) \in Nat /\ Len(ready) \in Nat /\ Len(blocked) \in Nat
         /\ Len(susp_ready) \in Nat /\ Len(despacho) \in Nat /\ Len(devueltos) \in Nat
  BY DEF TypeOK, Semaforos

\* So are the counts of threads at a place, before and after a step.
LEMMA Contadores ==
  /\ Planificando \in Nat /\ Atendiendo \in Nat /\ Extrayendo \in Nat
  /\ Admitiendo \in Nat /\ Sirviendo \in Nat /\ Desuspendiendo \in Nat
  /\ Empujan \in Nat /\ \A t \in APasar : Empujando(t) \in Nat
  /\ Planificando' \in Nat /\ Atendiendo' \in Nat /\ Extrayendo' \in Nat
  /\ Admitiendo' \in Nat /\ Sirviendo' \in Nat /\ Desuspendiendo' \in Nat
  /\ Empujan' \in Nat
<1>1. \A t \in APasar : Empujando(t) \in Nat /\ Empujando(t)' \in Nat
  BY DEF Empujando, Ind
<1>2. Empujan \in Nat /\ Empujan' \in Nat
  BY <1>1 DEF Empujan, APasar
<1> QED BY <1>1, <1>2 DEF Ind, Planificando, Atendiendo, Extrayendo, Admitiendo,
           Sirviendo, Desuspendiendo

\* One thread more has pushed to ready and not posted; one thread less.
LEMMA EmpujaUno ==
  ASSUME NEW t \in APasar, \A h \in Hilos : h # t => pc'[h] = pc[h],
         Empujando(t)' = Empujando(t) + 1
  PROVE  Empujan' = Empujan + 1
<1>1. \A h \in APasar : h # t => Empujando(h)' = Empujando(h)
  BY DEF Empujando, Ind, Hilos, APasar
<1>2. \A h \in APasar : Empujando(h) \in Nat /\ Empujando(h)' \in Nat
  BY DEF Empujando, Ind
<1>3. CASE t = "ltp"  BY <1>1, <1>2, <1>3 DEF Empujan, APasar
<1>4. CASE t = "io"   BY <1>1, <1>2, <1>4 DEF Empujan, APasar
<1>5. CASE t = "des"  BY <1>1, <1>2, <1>5 DEF Empujan, APasar
<1>6. CASE t = "disp" BY <1>1, <1>2, <1>6 DEF Empujan, APasar
<1> QED BY <1>3, <1>4, <1>5, <1>6 DEF APasar

\* The converse: one thread less is between its push to ready and its post.
LEMMA SueltaUno ==
  ASSUME NEW t \in APasar, \A h \in Hilos : h # t => pc'[h] = pc[h],
         Empujando(t)' = Empujando(t) - 1
  PROVE  Empujan' = Empujan - 1
<1>1. \A h \in APasar : h # t => Empujando(h)' = Empujando(h)
  BY DEF Empujando, Ind, Hilos, APasar
<1>2. \A h \in APasar : Empujando(h) \in Nat /\ Empujando(h)' \in Nat
  BY DEF Empujando, Ind
<1>3. CASE t = "ltp"  BY <1>1, <1>2, <1>3 DEF Empujan, APasar
<1>4. CASE t = "io"   BY <1>1, <1>2, <1>4 DEF Empujan, APasar
<1>5. CASE t = "des"  BY <1>1, <1>2, <1>5 DEF Empujan, APasar
<1>6. CASE t = "disp" BY <1>1, <1>2, <1>6 DEF Empujan, APasar
<1> QED BY <1>3, <1>4, <1>5, <1>6 DEF APasar

-----------------------------------------------------------------------------
(* Sequences.                                                              *)

\* What a pop takes and what it leaves.
LEMMA CabezaYCola ==
  ASSUME NEW S, NEW s \in Seq(S), Len(s) > 0
  PROVE  /\ s # <<>> /\ Head(s) \in S /\ Tail(s) \in Seq(S) /\ Len(Tail(s)) = Len(s) - 1
  OBVIOUS

\* An element to pop means a positive length.
LEMMA NoVacia ==
  ASSUME NEW S, NEW s \in Seq(S), s # <<>>
  PROVE  Len(s) > 0
  OBVIOUS

\* What a push leaves.
LEMMA Agregar ==
  ASSUME NEW S, NEW s \in Seq(S), NEW e \in S
  PROVE  Append(s, e) \in Seq(S) /\ Len(Append(s, e)) = Len(s) + 1
  OBVIOUS

\* What SRT leaves in ready when it takes the i-th process.
LEMMA Quitar ==
  ASSUME NEW S, NEW s \in Seq(S), NEW i \in DOMAIN s
  PROVE  /\ SinIndice(s, i) \in Seq(S) /\ Len(SinIndice(s, i)) = Len(s) - 1
         /\ s[i] \in S /\ Len(s) > 0
<1>1. i \in 1..Len(s) /\ Len(s) \in Nat /\ Len(s) > 0 /\ s[i] \in S
  OBVIOUS
<1>2. Len(s) - 1 \in Nat
  BY <1>1
<1>3. SinIndice(s, i) \in [1..(Len(s) - 1) -> S]
  BY <1>1, <1>2 DEF SinIndice
<1> QED BY <1>1, <1>2, <1>3

\* Writing one field of one blocking keeps the list of blockings.
LEMMA Reemplazar ==
  ASSUME NEW S, NEW s \in Seq(S), NEW i \in DOMAIN s, NEW e \in S
  PROVE  [s EXCEPT ![i] = e] \in Seq(S) /\ DOMAIN [s EXCEPT ![i] = e] = DOMAIN s
  OBVIOUS

\* The ids of the blockings so far are still ids when there is one more.
LEMMA Ampliar ==
  ASSUME NEW S, NEW s \in Seq(S), NEW T, S \subseteq T
  PROVE  s \in Seq(T)
  OBVIOUS

-----------------------------------------------------------------------------
(* One lemma per action.                                                   *)

\* The scheduler takes the token: from the semaphore to Planificando.
LEMMA EsperarCpuInv == ASSUME IInv, EsperarCpu PROVE IInv'
<1> USE DEF EsperarCpu, mundo, colas, hilos, pcbs, memoria, cpu
<1>1. TypeOK /\ Punteros /\ SemaforosExactos /\ ExclusionCpu /\ Sitios
  BY DEF IInv, TypeOK
<1>2. /\ Sitios' /\ pc["stp"] = "planificacion" /\ pc'["stp"] = "ready"
      /\ \A h \in Hilos : h # "stp" => pc'[h] = pc[h]
  <2>1. "ready" \in Lugares["stp"] /\ "stp" \in Hilos
    BY <1>1 DEF Lugares, Pasando, Hilos, APasar
  <2>2. Ir("stp", "planificacion", "ready")
    OBVIOUS
  <2> HIDE DEF EsperarCpu
  <2> QED BY <1>1, <2>1, <2>2, IrSitios
<1>3. /\ sem' \in [Semaforos -> Nat]
      /\ sem'["planificacion"] = sem["planificacion"] - 1 /\ sem["planificacion"] > 0
      /\ \A r \in Semaforos : r # "planificacion" => sem'[r] = sem[r]
  <2>1. Wait("planificacion") /\ "planificacion" \in Semaforos
    BY DEF Semaforos
  <2> HIDE DEF EsperarCpu
  <2> QED BY <1>1, <2>1, WaitTipo DEF TypeOK
<1>4. /\ Planificando' = Planificando + 1
      /\ UNCHANGED <<Extrayendo, Admitiendo, Sirviendo, Desuspendiendo, Atendiendo,
                     Empujan>>
  <2> HIDE DEF EsperarCpu
  <2> QED BY <1>1, <1>2 DEF Empujan, Empujando, Planificando, Extrayendo, Admitiendo,
             Sirviendo, Desuspendiendo, Atendiendo, Ind, Pasando, Hilos, APasar
<1>5. TypeOK'
  BY <1>1, <1>2, <1>3, <1>4 DEF TypeOK
<1>6. Punteros'
  BY <1>1, <1>2, <1>3, <1>4 DEF Punteros, TypeOK, Hilos, APasar, Pasando
<1>7. SemaforosExactos'
  <2>1. UNCHANGED <<new, ready, blocked, susp_ready>>
    OBVIOUS
  <2> HIDE DEF EsperarCpu
  <2>2. SemNew' /\ SemReady' /\ SemBloqueados' /\ SemSuspReady'
    BY <1>1, <1>2, <1>3, <1>4, <2>1, Naturales, Contadores DEF SemaforosExactos,
       SemNew, SemReady, SemBloqueados, SemSuspReady, Semaforos
  <2> QED BY <2>2 DEF SemaforosExactos
<1>8. ExclusionCpu'
  <2>1. Len(despacho)' = Len(despacho) /\ Len(devueltos)' = Len(devueltos)
    OBVIOUS
  <2> HIDE DEF EsperarCpu
  <2>2. /\ sem["planificacion"] \in Nat /\ sem'["planificacion"] \in Nat
        /\ Len(despacho) \in Nat
        /\ Len(devueltos) \in Nat /\ sem'["planificacion"] = sem["planificacion"] - 1
        /\ ExclusionCpu
    BY <1>1, <1>3, Naturales DEF Semaforos
  <2>3. /\ Planificando \in Nat /\ Planificando' \in Nat
        /\ Planificando' = Planificando + 1
        /\ Atendiendo \in Nat /\ Atendiendo' \in Nat /\ Atendiendo' = Atendiendo
    BY <1>4, Contadores
  <2>4. sem'["planificacion"] + Planificando' = sem["planificacion"] + Planificando
    BY <2>2, <2>3
  <2> QED BY <2>4, <2>1, <2>2, <2>3 DEF ExclusionCpu
<1> QED BY <1>5, <1>6, <1>7, <1>8 DEF IInv

\* The unit of the ready semaphore becomes the scheduler's pending pop.
LEMMA EsperarReadyInv == ASSUME IInv, EsperarReady PROVE IInv'
<1> USE DEF EsperarReady, mundo, colas, hilos, pcbs, memoria, cpu
<1>1. TypeOK /\ Punteros /\ SemaforosExactos /\ ExclusionCpu /\ Sitios
  BY DEF IInv, TypeOK
<1>2. /\ Sitios' /\ pc["stp"] = "ready" /\ pc'["stp"] = "extraer"
      /\ \A h \in Hilos : h # "stp" => pc'[h] = pc[h]
  <2>1. "extraer" \in Lugares["stp"] /\ "stp" \in Hilos
    BY <1>1 DEF Lugares, Pasando, Hilos, APasar
  <2>2. Ir("stp", "ready", "extraer")
    OBVIOUS
  <2> HIDE DEF EsperarReady
  <2> QED BY <1>1, <2>1, <2>2, IrSitios
<1>3. /\ sem' \in [Semaforos -> Nat] /\ sem'["ready"] = sem["ready"] - 1
      /\ sem["ready"] > 0
      /\ \A r \in Semaforos : r # "ready" => sem'[r] = sem[r]
  <2>1. Wait("ready") /\ "ready" \in Semaforos
    BY DEF Semaforos
  <2> HIDE DEF EsperarReady
  <2> QED BY <1>1, <2>1, WaitTipo DEF TypeOK
<1>4. /\ Extrayendo' = Extrayendo + 1
      /\ UNCHANGED <<Planificando, Admitiendo, Sirviendo, Desuspendiendo, Atendiendo,
                     Empujan>>
  <2> HIDE DEF EsperarReady
  <2> QED BY <1>1, <1>2 DEF Empujan, Empujando, Planificando, Extrayendo, Admitiendo,
             Sirviendo, Desuspendiendo, Atendiendo, Ind, Pasando, Hilos, APasar
<1>5. TypeOK'
  BY <1>1, <1>2, <1>3, <1>4 DEF TypeOK
<1>6. Punteros'
  BY <1>1, <1>2, <1>3, <1>4 DEF Punteros, TypeOK, Hilos, APasar, Pasando
<1>7. SemaforosExactos'
  <2>1. UNCHANGED <<new, ready, blocked, susp_ready>>
    OBVIOUS
  <2> HIDE DEF EsperarReady
  <2>2. SemReady'
    <3>1. /\ sem["ready"] \in Nat /\ sem'["ready"] \in Nat /\ Len(ready) \in Nat
          /\ sem'["ready"] = sem["ready"] - 1 /\ SemReady
          /\ Len(ready)' = Len(ready)
      BY <1>1, <1>3, <2>1, Naturales DEF Semaforos, SemaforosExactos
    <3>2. /\ Extrayendo \in Nat /\ Extrayendo' \in Nat /\ Extrayendo' = Extrayendo + 1
          /\ Empujan \in Nat /\ Empujan' \in Nat /\ Empujan' = Empujan
      BY <1>4, Contadores
    <3>3. Len(ready') = Len(ready)
      BY <3>1
    <3> QED BY <3>1, <3>2, <3>3 DEF SemReady
  <2>3. SemNew' /\ SemBloqueados' /\ SemSuspReady'
    BY <1>1, <1>2, <1>3, <1>4, <2>1, Naturales, Contadores DEF SemaforosExactos,
       SemNew, SemBloqueados, SemSuspReady, Semaforos
  <2> QED BY <2>2, <2>3 DEF SemaforosExactos
<1>8. ExclusionCpu'
  <2>1. Len(despacho)' = Len(despacho) /\ Len(devueltos)' = Len(devueltos)
    OBVIOUS
  <2> HIDE DEF EsperarReady
  <2>2. /\ sem["planificacion"] \in Nat /\ sem'["planificacion"] \in Nat
        /\ Len(despacho) \in Nat
        /\ Len(devueltos) \in Nat /\ sem'["planificacion"] = sem["planificacion"]
        /\ ExclusionCpu
    BY <1>1, <1>3, Naturales DEF Semaforos
  <2>3. /\ Planificando \in Nat /\ Planificando' \in Nat /\ Planificando' = Planificando
        /\ Atendiendo \in Nat /\ Atendiendo' \in Nat /\ Atendiendo' = Atendiendo
    BY <1>4, Contadores
  <2> QED BY <2>1, <2>2, <2>3 DEF ExclusionCpu
<1> QED BY <1>5, <1>6, <1>7, <1>8 DEF IInv

\* The pending pop is done: ready is not empty, and one shorter.
LEMMA ExtraerInv == ASSUME IInv, Extraer PROVE IInv'
<1> USE DEF Extraer, mundo, colas, hilos, pcbs, memoria, cpu
<1>1. TypeOK /\ Punteros /\ SemaforosExactos /\ ExclusionCpu /\ Sitios
  BY DEF IInv, TypeOK
<1>2. /\ Sitios' /\ pc["stp"] = "extraer" /\ pc'["stp"] = "enviar"
      /\ \A h \in Hilos : h # "stp" => pc'[h] = pc[h]
  <2>1. "enviar" \in Lugares["stp"] /\ "stp" \in Hilos
    BY <1>1 DEF Lugares, Pasando, Hilos, APasar
  <2>2. Ir("stp", "extraer", "enviar")
    OBVIOUS
  <2> HIDE DEF Extraer
  <2> QED BY <1>1, <2>1, <2>2, IrSitios
<1>3. sem' \in [Semaforos -> Nat] /\ sem' = sem
  BY <1>1 DEF TypeOK
<1>4. /\ ready' \in Seq(Procesos) /\ Len(ready') = Len(ready) - 1
      /\ en' \in [Hilos -> Procesos \union {Nadie}] /\ en'["stp"] \in Procesos
      /\ \A h \in APasar : en'[h] = en[h]
  <2>1. PICK i \in DOMAIN ready : Tomar("stp", ready[i]) /\ ready' = SinIndice(ready, i)
    BY DEF Elegibles
  <2>2. en \in [Hilos -> Procesos \union {Nadie}] /\ ready \in Seq(Procesos)
    BY <1>1 DEF TypeOK
  <2>3. /\ SinIndice(ready, i) \in Seq(Procesos) /\ ready[i] \in Procesos
        /\ Len(SinIndice(ready, i)) = Len(ready) - 1
    BY <2>2, Quitar
  <2> QED BY <2>1, <2>2, <2>3 DEF Tomar, Hilos, APasar
<1>5. /\ Extrayendo' = Extrayendo - 1
      /\ UNCHANGED <<Planificando, Admitiendo, Sirviendo, Desuspendiendo, Atendiendo,
                     Empujan>>
  <2> HIDE DEF Extraer
  <2> QED BY <1>1, <1>2 DEF Empujan, Empujando, Planificando, Extrayendo, Admitiendo,
             Sirviendo, Desuspendiendo, Atendiendo, Ind, Pasando, Hilos, APasar
<1>6. TypeOK'
  BY <1>1, <1>2, <1>3, <1>4, <1>5 DEF TypeOK
<1>7. Punteros'
  BY <1>1, <1>2, <1>3, <1>4, <1>5 DEF Punteros, TypeOK, Hilos, APasar, Pasando
<1>8. SemaforosExactos'
  <2>1. UNCHANGED <<new, blocked, susp_ready>>
    OBVIOUS
  <2> HIDE DEF Extraer
  <2>2. SemReady'
    <3>1. /\ sem["ready"] \in Nat /\ sem'["ready"] \in Nat /\ Len(ready) \in Nat
          /\ sem'["ready"] = sem["ready"] /\ SemReady
      BY <1>1, <1>3, <2>1, Naturales DEF Semaforos, SemaforosExactos
    <3>2. /\ Extrayendo \in Nat /\ Extrayendo' \in Nat /\ Extrayendo' = Extrayendo - 1
          /\ Empujan \in Nat /\ Empujan' \in Nat /\ Empujan' = Empujan
      BY <1>5, Contadores
        <3> QED BY <1>4, <3>1, <3>2 DEF SemReady
  <2>3. SemNew' /\ SemBloqueados' /\ SemSuspReady'
    BY <1>1, <1>2, <1>3, <1>4, <1>5, <2>1, Naturales, Contadores DEF SemaforosExactos,
       SemNew, SemBloqueados, SemSuspReady, Semaforos
  <2> QED BY <2>2, <2>3 DEF SemaforosExactos
<1>9. ExclusionCpu'
  <2>1. Len(despacho)' = Len(despacho) /\ Len(devueltos)' = Len(devueltos)
    OBVIOUS
  <2> HIDE DEF Extraer
  <2>2. /\ sem["planificacion"] \in Nat /\ sem'["planificacion"] \in Nat
        /\ Len(despacho) \in Nat
        /\ Len(devueltos) \in Nat /\ sem'["planificacion"] = sem["planificacion"]
        /\ ExclusionCpu
    BY <1>1, <1>3, Naturales DEF Semaforos
  <2>3. /\ Planificando \in Nat /\ Planificando' \in Nat /\ Planificando' = Planificando
        /\ Atendiendo \in Nat /\ Atendiendo' \in Nat /\ Atendiendo' = Atendiendo
    BY <1>5, Contadores
  <2> QED BY <2>1, <2>2, <2>3 DEF ExclusionCpu
<1> QED BY <1>6, <1>7, <1>8, <1>9 DEF IInv

\* The token leaves the scheduler with the PCB.
LEMMA EnviarInv == ASSUME IInv, Enviar PROVE IInv'
<1> USE DEF Enviar, mundo, colas, hilos, pcbs, memoria, cpu
<1>1. TypeOK /\ Punteros /\ SemaforosExactos /\ ExclusionCpu /\ Sitios
  BY DEF IInv, TypeOK
<1>2. /\ Sitios' /\ pc["stp"] = "enviar"
      /\ pc'["stp"] = (IF Algoritmo = "SRT" THEN "marcar" ELSE "planificacion")
      /\ \A h \in Hilos : h # "stp" => pc'[h] = pc[h]
  <2>1. (IF Algoritmo = "SRT" THEN "marcar" ELSE "planificacion") \in Lugares["stp"] /\ "stp" \in Hilos
    BY <1>1 DEF Lugares, Pasando, Hilos, APasar
  <2>2. Ir("stp", "enviar", (IF Algoritmo = "SRT" THEN "marcar" ELSE "planificacion"))
    OBVIOUS
  <2> HIDE DEF Enviar
  <2> QED BY <1>1, <2>1, <2>2, IrSitios
<1>3. sem' \in [Semaforos -> Nat] /\ sem' = sem
  BY <1>1 DEF TypeOK
<1>4. /\ despacho' \in Seq(PCB) /\ Len(despacho') = Len(despacho) + 1
      /\ en' \in [Hilos -> Procesos \union {Nadie}] /\ viejo' \in [Hilos -> BOOLEAN]
      /\ \A h \in APasar : en'[h] = en[h]
  <2>1. [proc |-> en["stp"], tabla |-> tabla[en["stp"]]] \in PCB
    BY <1>1, <1>2 DEF TypeOK, Punteros, PCB
  <2>2. despacho \in Seq(PCB)
    BY <1>1 DEF TypeOK
  <2>3. despacho' \in Seq(PCB) /\ Len(despacho') = Len(despacho) + 1
    BY <2>1, <2>2, Agregar
  <2> QED BY <1>1, <2>3 DEF TypeOK, Soltar, Hilos, APasar
<1>5. /\ Planificando' = Planificando - 1
      /\ UNCHANGED <<Extrayendo, Admitiendo, Sirviendo, Desuspendiendo, Atendiendo,
                     Empujan>>
  <2> HIDE DEF Enviar
  <2> QED BY <1>1, <1>2 DEF Empujan, Empujando, Planificando, Extrayendo, Admitiendo,
             Sirviendo, Desuspendiendo, Atendiendo, Ind, Pasando, Hilos, APasar
<1>6. TypeOK'
  BY <1>1, <1>2, <1>3, <1>4, <1>5 DEF TypeOK
<1>7. Punteros'
  BY <1>1, <1>2, <1>3, <1>4, <1>5 DEF Punteros, TypeOK, Hilos, APasar, Pasando
<1>8. SemaforosExactos'
  <2>1. UNCHANGED <<new, ready, blocked, susp_ready>>
    OBVIOUS
  <2> HIDE DEF Enviar
  <2>2. SemNew' /\ SemReady' /\ SemBloqueados' /\ SemSuspReady'
    BY <1>1, <1>2, <1>3, <1>4, <1>5, <2>1, Naturales, Contadores DEF SemaforosExactos,
       SemNew, SemReady, SemBloqueados, SemSuspReady, Semaforos
  <2> QED BY <2>2 DEF SemaforosExactos
<1>9. ExclusionCpu'
  <2>1. Len(devueltos)' = Len(devueltos)
    OBVIOUS
  <2> HIDE DEF Enviar
  <2>2. /\ sem["planificacion"] \in Nat /\ sem'["planificacion"] \in Nat
        /\ Len(despacho) \in Nat
        /\ Len(devueltos) \in Nat /\ sem'["planificacion"] = sem["planificacion"]
        /\ ExclusionCpu
    BY <1>1, <1>3, Naturales DEF Semaforos
  <2>3. /\ Planificando \in Nat /\ Planificando' \in Nat
        /\ Planificando' = Planificando - 1
        /\ Atendiendo \in Nat /\ Atendiendo' \in Nat /\ Atendiendo' = Atendiendo
    BY <1>5, Contadores
  <2> QED BY <1>4, <2>1, <2>2, <2>3 DEF ExclusionCpu
<1> QED BY <1>6, <1>7, <1>8, <1>9 DEF IInv

\* Setting ejecutando after the send moves nothing.
LEMMA MarcarInv == ASSUME IInv, Marcar PROVE IInv'
<1> USE DEF Marcar, mundo, colas, hilos, pcbs, memoria, cpu
<1>1. TypeOK /\ Punteros /\ SemaforosExactos /\ ExclusionCpu /\ Sitios
  BY DEF IInv, TypeOK
<1>2. /\ Sitios' /\ pc["stp"] = "marcar" /\ pc'["stp"] = "planificacion"
      /\ \A h \in Hilos : h # "stp" => pc'[h] = pc[h]
  <2>1. "planificacion" \in Lugares["stp"] /\ "stp" \in Hilos
    BY <1>1 DEF Lugares, Pasando, Hilos, APasar
  <2>2. Ir("stp", "marcar", "planificacion")
    OBVIOUS
  <2> HIDE DEF Marcar
  <2> QED BY <1>1, <2>1, <2>2, IrSitios
<1>3. sem' \in [Semaforos -> Nat] /\ sem' = sem
  BY <1>1 DEF TypeOK
<1>4. UNCHANGED <<Planificando, Extrayendo, Admitiendo, Sirviendo, Desuspendiendo,
                  Atendiendo, Empujan>>
  <2> HIDE DEF Marcar
  <2> QED BY <1>1, <1>2 DEF Empujan, Empujando, Planificando, Extrayendo, Admitiendo,
             Sirviendo, Desuspendiendo, Atendiendo, Ind, Pasando, Hilos, APasar
<1>5. TypeOK'
  BY <1>1, <1>2, <1>3, <1>4 DEF TypeOK
<1>6. Punteros'
  BY <1>1, <1>2, <1>3, <1>4 DEF Punteros, TypeOK, Hilos, APasar, Pasando
<1>7. SemaforosExactos'
  <2>1. UNCHANGED <<new, ready, blocked, susp_ready>>
    OBVIOUS
  <2> HIDE DEF Marcar
  <2>2. SemNew' /\ SemReady' /\ SemBloqueados' /\ SemSuspReady'
    BY <1>1, <1>2, <1>3, <1>4, <2>1, Naturales, Contadores DEF SemaforosExactos,
       SemNew, SemReady, SemBloqueados, SemSuspReady, Semaforos
  <2> QED BY <2>2 DEF SemaforosExactos
<1>8. ExclusionCpu'
  <2>1. Len(despacho)' = Len(despacho) /\ Len(devueltos)' = Len(devueltos)
    OBVIOUS
  <2> HIDE DEF Marcar
  <2>2. /\ sem["planificacion"] \in Nat /\ sem'["planificacion"] \in Nat
        /\ Len(despacho) \in Nat
        /\ Len(devueltos) \in Nat /\ sem'["planificacion"] = sem["planificacion"]
        /\ ExclusionCpu
    BY <1>1, <1>3, Naturales DEF Semaforos
  <2>3. /\ Planificando \in Nat /\ Planificando' \in Nat /\ Planificando' = Planificando
        /\ Atendiendo \in Nat /\ Atendiendo' \in Nat /\ Atendiendo' = Atendiendo
    BY <1>4, Contadores
  <2> QED BY <2>1, <2>2, <2>3 DEF ExclusionCpu
<1> QED BY <1>5, <1>6, <1>7, <1>8 DEF IInv

\* The unit of the new semaphore becomes the long-term scheduler's pending pop.
LEMMA EsperarNewInv == ASSUME IInv, EsperarNew PROVE IInv'
<1> USE DEF EsperarNew, mundo, colas, hilos, pcbs, memoria, cpu
<1>1. TypeOK /\ Punteros /\ SemaforosExactos /\ ExclusionCpu /\ Sitios
  BY DEF IInv, TypeOK
<1>2. /\ Sitios' /\ pc["ltp"] = "new" /\ pc'["ltp"] = "multiprogramacion"
      /\ \A h \in Hilos : h # "ltp" => pc'[h] = pc[h]
  <2>1. "multiprogramacion" \in Lugares["ltp"] /\ "ltp" \in Hilos
    BY <1>1 DEF Lugares, Pasando, Hilos, APasar
  <2>2. Ir("ltp", "new", "multiprogramacion")
    OBVIOUS
  <2> HIDE DEF EsperarNew
  <2> QED BY <1>1, <2>1, <2>2, IrSitios
<1>3. /\ sem' \in [Semaforos -> Nat] /\ sem'["new"] = sem["new"] - 1 /\ sem["new"] > 0
      /\ \A r \in Semaforos : r # "new" => sem'[r] = sem[r]
  <2>1. Wait("new") /\ "new" \in Semaforos
    BY DEF Semaforos
  <2> HIDE DEF EsperarNew
  <2> QED BY <1>1, <2>1, WaitTipo DEF TypeOK
<1>4. /\ Admitiendo' = Admitiendo + 1
      /\ UNCHANGED <<Planificando, Extrayendo, Sirviendo, Desuspendiendo, Atendiendo,
                     Empujan>>
  <2> HIDE DEF EsperarNew
  <2> QED BY <1>1, <1>2 DEF Empujan, Empujando, Planificando, Extrayendo, Admitiendo,
             Sirviendo, Desuspendiendo, Atendiendo, Ind, Pasando, Hilos, APasar
<1>5. TypeOK'
  BY <1>1, <1>2, <1>3, <1>4 DEF TypeOK
<1>6. Punteros'
  BY <1>1, <1>2, <1>3, <1>4 DEF Punteros, TypeOK, Hilos, APasar, Pasando
<1>7. SemaforosExactos'
  <2>1. UNCHANGED <<new, ready, blocked, susp_ready>>
    OBVIOUS
  <2> HIDE DEF EsperarNew
  <2>2. SemNew'
    <3>1. /\ sem["new"] \in Nat /\ sem'["new"] \in Nat /\ Len(new) \in Nat
          /\ sem'["new"] = sem["new"] - 1 /\ SemNew
          /\ Len(new)' = Len(new)
      BY <1>1, <1>3, <2>1, Naturales DEF Semaforos, SemaforosExactos
    <3>2. /\ Admitiendo \in Nat /\ Admitiendo' \in Nat /\ Admitiendo' = Admitiendo + 1
      BY <1>4, Contadores
        <3> QED BY <3>1, <3>2 DEF SemNew
  <2>3. SemReady' /\ SemBloqueados' /\ SemSuspReady'
    BY <1>1, <1>2, <1>3, <1>4, <2>1, Naturales, Contadores DEF SemaforosExactos,
       SemReady, SemBloqueados, SemSuspReady, Semaforos
  <2> QED BY <2>2, <2>3 DEF SemaforosExactos
<1>8. ExclusionCpu'
  <2>1. Len(despacho)' = Len(despacho) /\ Len(devueltos)' = Len(devueltos)
    OBVIOUS
  <2> HIDE DEF EsperarNew
  <2>2. /\ sem["planificacion"] \in Nat /\ sem'["planificacion"] \in Nat
        /\ Len(despacho) \in Nat
        /\ Len(devueltos) \in Nat /\ sem'["planificacion"] = sem["planificacion"]
        /\ ExclusionCpu
    BY <1>1, <1>3, Naturales DEF Semaforos
  <2>3. /\ Planificando \in Nat /\ Planificando' \in Nat /\ Planificando' = Planificando
        /\ Atendiendo \in Nat /\ Atendiendo' \in Nat /\ Atendiendo' = Atendiendo
    BY <1>4, Contadores
  <2> QED BY <2>1, <2>2, <2>3 DEF ExclusionCpu
<1> QED BY <1>5, <1>6, <1>7, <1>8 DEF IInv

\* The degree of multiprogramming is no part of the four counts.
LEMMA EsperarGradoInv == ASSUME IInv, EsperarGrado PROVE IInv'
<1> USE DEF EsperarGrado, mundo, colas, hilos, pcbs, memoria, cpu
<1>1. TypeOK /\ Punteros /\ SemaforosExactos /\ ExclusionCpu /\ Sitios
  BY DEF IInv, TypeOK
<1>2. /\ Sitios' /\ pc["ltp"] = "multiprogramacion" /\ pc'["ltp"] = "mirar"
      /\ \A h \in Hilos : h # "ltp" => pc'[h] = pc[h]
  <2>1. "mirar" \in Lugares["ltp"] /\ "ltp" \in Hilos
    BY <1>1 DEF Lugares, Pasando, Hilos, APasar
  <2>2. Ir("ltp", "multiprogramacion", "mirar")
    OBVIOUS
  <2> HIDE DEF EsperarGrado
  <2> QED BY <1>1, <2>1, <2>2, IrSitios
<1>3. /\ sem' \in [Semaforos -> Nat]
      /\ sem'["multiprogramacion"] = sem["multiprogramacion"] - 1
      /\ sem["multiprogramacion"] > 0
      /\ \A r \in Semaforos : r # "multiprogramacion" => sem'[r] = sem[r]
  <2>1. Wait("multiprogramacion") /\ "multiprogramacion" \in Semaforos
    BY DEF Semaforos
  <2> HIDE DEF EsperarGrado
  <2> QED BY <1>1, <2>1, WaitTipo DEF TypeOK
<1>4. UNCHANGED <<Planificando, Extrayendo, Admitiendo, Sirviendo, Desuspendiendo,
                  Atendiendo, Empujan>>
  <2> HIDE DEF EsperarGrado
  <2> QED BY <1>1, <1>2 DEF Empujan, Empujando, Planificando, Extrayendo, Admitiendo,
             Sirviendo, Desuspendiendo, Atendiendo, Ind, Pasando, Hilos, APasar
<1>5. TypeOK'
  BY <1>1, <1>2, <1>3, <1>4 DEF TypeOK
<1>6. Punteros'
  BY <1>1, <1>2, <1>3, <1>4 DEF Punteros, TypeOK, Hilos, APasar, Pasando
<1>7. SemaforosExactos'
  <2>1. UNCHANGED <<new, ready, blocked, susp_ready>>
    OBVIOUS
  <2> HIDE DEF EsperarGrado
  <2>2. SemNew' /\ SemReady' /\ SemBloqueados' /\ SemSuspReady'
    BY <1>1, <1>2, <1>3, <1>4, <2>1, Naturales, Contadores DEF SemaforosExactos,
       SemNew, SemReady, SemBloqueados, SemSuspReady, Semaforos
  <2> QED BY <2>2 DEF SemaforosExactos
<1>8. ExclusionCpu'
  <2>1. Len(despacho)' = Len(despacho) /\ Len(devueltos)' = Len(devueltos)
    OBVIOUS
  <2> HIDE DEF EsperarGrado
  <2>2. /\ sem["planificacion"] \in Nat /\ sem'["planificacion"] \in Nat
        /\ Len(despacho) \in Nat
        /\ Len(devueltos) \in Nat /\ sem'["planificacion"] = sem["planificacion"]
        /\ ExclusionCpu
    BY <1>1, <1>3, Naturales DEF Semaforos
  <2>3. /\ Planificando \in Nat /\ Planificando' \in Nat /\ Planificando' = Planificando
        /\ Atendiendo \in Nat /\ Atendiendo' \in Nat /\ Atendiendo' = Atendiendo
    BY <1>4, Contadores
  <2> QED BY <2>1, <2>2, <2>3 DEF ExclusionCpu
<1> QED BY <1>5, <1>6, <1>7, <1>8 DEF IInv

\* The unit of the susp_ready semaphore becomes the desuspendidor's pending pop.
LEMMA EsperarSuspReadyInv == ASSUME IInv, EsperarSuspReady PROVE IInv'
<1> USE DEF EsperarSuspReady, mundo, colas, hilos, pcbs, memoria, cpu
<1>1. TypeOK /\ Punteros /\ SemaforosExactos /\ ExclusionCpu /\ Sitios
  BY DEF IInv, TypeOK
<1>2. /\ Sitios' /\ pc["des"] = "susp_ready" /\ pc'["des"] = "multiprogramacion"
      /\ \A h \in Hilos : h # "des" => pc'[h] = pc[h]
  <2>1. "multiprogramacion" \in Lugares["des"] /\ "des" \in Hilos
    BY <1>1 DEF Lugares, Pasando, Hilos, APasar
  <2>2. Ir("des", "susp_ready", "multiprogramacion")
    OBVIOUS
  <2> HIDE DEF EsperarSuspReady
  <2> QED BY <1>1, <2>1, <2>2, IrSitios
<1>3. /\ sem' \in [Semaforos -> Nat] /\ sem'["susp_ready"] = sem["susp_ready"] - 1
      /\ sem["susp_ready"] > 0
      /\ \A r \in Semaforos : r # "susp_ready" => sem'[r] = sem[r]
  <2>1. Wait("susp_ready") /\ "susp_ready" \in Semaforos
    BY DEF Semaforos
  <2> HIDE DEF EsperarSuspReady
  <2> QED BY <1>1, <2>1, WaitTipo DEF TypeOK
<1>4. /\ Desuspendiendo' = Desuspendiendo + 1
      /\ UNCHANGED <<Planificando, Extrayendo, Admitiendo, Sirviendo, Atendiendo,
                     Empujan>>
  <2> HIDE DEF EsperarSuspReady
  <2> QED BY <1>1, <1>2 DEF Empujan, Empujando, Planificando, Extrayendo, Admitiendo,
             Sirviendo, Desuspendiendo, Atendiendo, Ind, Pasando, Hilos, APasar
<1>5. TypeOK'
  BY <1>1, <1>2, <1>3, <1>4 DEF TypeOK
<1>6. Punteros'
  BY <1>1, <1>2, <1>3, <1>4 DEF Punteros, TypeOK, Hilos, APasar, Pasando
<1>7. SemaforosExactos'
  <2>1. UNCHANGED <<new, ready, blocked, susp_ready>>
    OBVIOUS
  <2> HIDE DEF EsperarSuspReady
  <2>2. SemSuspReady'
    <3>1. /\ sem["susp_ready"] \in Nat /\ sem'["susp_ready"] \in Nat
          /\ Len(susp_ready) \in Nat
          /\ sem'["susp_ready"] = sem["susp_ready"] - 1 /\ SemSuspReady
          /\ Len(susp_ready)' = Len(susp_ready)
      BY <1>1, <1>3, <2>1, Naturales DEF Semaforos, SemaforosExactos
    <3>2. /\ Desuspendiendo \in Nat /\ Desuspendiendo' \in Nat
          /\ Desuspendiendo' = Desuspendiendo + 1
      BY <1>4, Contadores
        <3> QED BY <3>1, <3>2 DEF SemSuspReady
  <2>3. SemNew' /\ SemReady' /\ SemBloqueados'
    BY <1>1, <1>2, <1>3, <1>4, <2>1, Naturales, Contadores DEF SemaforosExactos,
       SemNew, SemReady, SemBloqueados, Semaforos
  <2> QED BY <2>2, <2>3 DEF SemaforosExactos
<1>8. ExclusionCpu'
  <2>1. Len(despacho)' = Len(despacho) /\ Len(devueltos)' = Len(devueltos)
    OBVIOUS
  <2> HIDE DEF EsperarSuspReady
  <2>2. /\ sem["planificacion"] \in Nat /\ sem'["planificacion"] \in Nat
        /\ Len(despacho) \in Nat
        /\ Len(devueltos) \in Nat /\ sem'["planificacion"] = sem["planificacion"]
        /\ ExclusionCpu
    BY <1>1, <1>3, Naturales DEF Semaforos
  <2>3. /\ Planificando \in Nat /\ Planificando' \in Nat /\ Planificando' = Planificando
        /\ Atendiendo \in Nat /\ Atendiendo' \in Nat /\ Atendiendo' = Atendiendo
    BY <1>4, Contadores
  <2> QED BY <2>1, <2>2, <2>3 DEF ExclusionCpu
<1> QED BY <1>5, <1>6, <1>7, <1>8 DEF IInv

\* Waiting for a place keeps the desuspendidor's pending pop.
LEMMA EsperarLugarInv == ASSUME IInv, EsperarLugar PROVE IInv'
<1> USE DEF EsperarLugar, mundo, colas, hilos, pcbs, memoria, cpu
<1>1. TypeOK /\ Punteros /\ SemaforosExactos /\ ExclusionCpu /\ Sitios
  BY DEF IInv, TypeOK
<1>2. /\ Sitios' /\ pc["des"] = "multiprogramacion" /\ pc'["des"] = "extraer"
      /\ \A h \in Hilos : h # "des" => pc'[h] = pc[h]
  <2>1. "extraer" \in Lugares["des"] /\ "des" \in Hilos
    BY <1>1 DEF Lugares, Pasando, Hilos, APasar
  <2>2. Ir("des", "multiprogramacion", "extraer")
    OBVIOUS
  <2> HIDE DEF EsperarLugar
  <2> QED BY <1>1, <2>1, <2>2, IrSitios
<1>3. /\ sem' \in [Semaforos -> Nat]
      /\ sem'["multiprogramacion"] = sem["multiprogramacion"] - 1
      /\ sem["multiprogramacion"] > 0
      /\ \A r \in Semaforos : r # "multiprogramacion" => sem'[r] = sem[r]
  <2>1. Wait("multiprogramacion") /\ "multiprogramacion" \in Semaforos
    BY DEF Semaforos
  <2> HIDE DEF EsperarLugar
  <2> QED BY <1>1, <2>1, WaitTipo DEF TypeOK
<1>4. UNCHANGED <<Planificando, Extrayendo, Admitiendo, Sirviendo, Desuspendiendo,
                  Atendiendo, Empujan>>
  <2> HIDE DEF EsperarLugar
  <2> QED BY <1>1, <1>2 DEF Empujan, Empujando, Planificando, Extrayendo, Admitiendo,
             Sirviendo, Desuspendiendo, Atendiendo, Ind, Pasando, Hilos, APasar
<1>5. TypeOK'
  BY <1>1, <1>2, <1>3, <1>4 DEF TypeOK
<1>6. Punteros'
  BY <1>1, <1>2, <1>3, <1>4 DEF Punteros, TypeOK, Hilos, APasar, Pasando
<1>7. SemaforosExactos'
  <2>1. UNCHANGED <<new, ready, blocked, susp_ready>>
    OBVIOUS
  <2> HIDE DEF EsperarLugar
  <2>2. SemNew' /\ SemReady' /\ SemBloqueados' /\ SemSuspReady'
    BY <1>1, <1>2, <1>3, <1>4, <2>1, Naturales, Contadores DEF SemaforosExactos,
       SemNew, SemReady, SemBloqueados, SemSuspReady, Semaforos
  <2> QED BY <2>2 DEF SemaforosExactos
<1>8. ExclusionCpu'
  <2>1. Len(despacho)' = Len(despacho) /\ Len(devueltos)' = Len(devueltos)
    OBVIOUS
  <2> HIDE DEF EsperarLugar
  <2>2. /\ sem["planificacion"] \in Nat /\ sem'["planificacion"] \in Nat
        /\ Len(despacho) \in Nat
        /\ Len(devueltos) \in Nat /\ sem'["planificacion"] = sem["planificacion"]
        /\ ExclusionCpu
    BY <1>1, <1>3, Naturales DEF Semaforos
  <2>3. /\ Planificando \in Nat /\ Planificando' \in Nat /\ Planificando' = Planificando
        /\ Atendiendo \in Nat /\ Atendiendo' \in Nat /\ Atendiendo' = Atendiendo
    BY <1>4, Contadores
  <2> QED BY <2>1, <2>2, <2>3 DEF ExclusionCpu
<1> QED BY <1>5, <1>6, <1>7, <1>8 DEF IInv

\* new has the process the long-term scheduler pops.
LEMMA AdmitirNuevoInv == ASSUME IInv, AdmitirNuevo PROVE IInv'
<1> USE DEF AdmitirNuevo, mundo, colas, hilos, pcbs, memoria, cpu
<1>1. TypeOK /\ Punteros /\ SemaforosExactos /\ ExclusionCpu /\ Sitios
  BY DEF IInv, TypeOK
<1>2. /\ Sitios' /\ pc["ltp"] = "mirar" /\ pc'["ltp"] = "encolar"
      /\ \A h \in Hilos : h # "ltp" => pc'[h] = pc[h]
  <2>1. "encolar" \in Lugares["ltp"] /\ "ltp" \in Hilos
    BY <1>1 DEF Lugares, Pasando, Hilos, APasar
  <2>2. Ir("ltp", "mirar", "encolar")
    OBVIOUS
  <2> HIDE DEF AdmitirNuevo
  <2> QED BY <1>1, <2>1, <2>2, IrSitios
<1>3. sem' \in [Semaforos -> Nat] /\ sem' = sem
  BY <1>1 DEF TypeOK
<1>4. /\ new' \in Seq(Procesos) /\ Len(new') = Len(new) - 1
      /\ en' \in [Hilos -> Procesos \union {Nadie}] /\ en'["ltp"] \in Procesos
      /\ \A h \in Hilos : h # "ltp" => en'[h] = en[h]
  <2>1. new \in Seq(Procesos) /\ Len(new) > 0
    BY <1>1, <1>2 DEF TypeOK, SemaforosExactos, SemNew, SemSuspReady, Admitiendo,
       Desuspendiendo, Ind,
           Semaforos
  <2>2. /\ Head(new) \in Procesos /\ Tail(new) \in Seq(Procesos)
        /\ Len(Tail(new)) = Len(new) - 1
    BY <2>1, CabezaYCola
  <2> QED BY <1>1, <2>2 DEF TypeOK, Tomar, Hilos
<1>5. /\ Admitiendo' = Admitiendo - 1
      /\ UNCHANGED <<Planificando, Extrayendo, Sirviendo, Desuspendiendo, Atendiendo,
                     Empujan>>
  <2> HIDE DEF AdmitirNuevo
  <2> QED BY <1>1, <1>2 DEF Empujan, Empujando, Planificando, Extrayendo, Admitiendo,
             Sirviendo, Desuspendiendo, Atendiendo, Ind, Pasando, Hilos, APasar
<1>6. TypeOK'
  BY <1>1, <1>2, <1>3, <1>4, <1>5 DEF TypeOK
<1>7. Punteros'
  BY <1>1, <1>2, <1>3, <1>4, <1>5 DEF Punteros, TypeOK, Hilos, APasar, Pasando
<1>8. SemaforosExactos'
  <2>1. UNCHANGED <<ready, blocked, susp_ready>>
    OBVIOUS
  <2> HIDE DEF AdmitirNuevo
  <2>2. SemNew'
    <3>1. /\ sem["new"] \in Nat /\ sem'["new"] \in Nat /\ Len(new) \in Nat
          /\ sem'["new"] = sem["new"] /\ SemNew
      BY <1>1, <1>3, <2>1, Naturales DEF Semaforos, SemaforosExactos
    <3>2. /\ Admitiendo \in Nat /\ Admitiendo' \in Nat /\ Admitiendo' = Admitiendo - 1
      BY <1>5, Contadores
        <3> QED BY <1>4, <3>1, <3>2 DEF SemNew
  <2>3. SemReady' /\ SemBloqueados' /\ SemSuspReady'
    BY <1>1, <1>2, <1>3, <1>4, <1>5, <2>1, Naturales, Contadores DEF SemaforosExactos,
       SemReady, SemBloqueados, SemSuspReady, Semaforos
  <2> QED BY <2>2, <2>3 DEF SemaforosExactos
<1>9. ExclusionCpu'
  <2>1. Len(despacho)' = Len(despacho) /\ Len(devueltos)' = Len(devueltos)
    OBVIOUS
  <2> HIDE DEF AdmitirNuevo
  <2>2. /\ sem["planificacion"] \in Nat /\ sem'["planificacion"] \in Nat
        /\ Len(despacho) \in Nat
        /\ Len(devueltos) \in Nat /\ sem'["planificacion"] = sem["planificacion"]
        /\ ExclusionCpu
    BY <1>1, <1>3, Naturales DEF Semaforos
  <2>3. /\ Planificando \in Nat /\ Planificando' \in Nat /\ Planificando' = Planificando
        /\ Atendiendo \in Nat /\ Atendiendo' \in Nat /\ Atendiendo' = Atendiendo
    BY <1>5, Contadores
  <2> QED BY <2>1, <2>2, <2>3 DEF ExclusionCpu
<1> QED BY <1>6, <1>7, <1>8, <1>9 DEF IInv

\* susp_ready has the process the desuspendidor pops.
LEMMA DesuspenderInv == ASSUME IInv, Desuspender PROVE IInv'
<1> USE DEF Desuspender, mundo, colas, hilos, pcbs, memoria, cpu
<1>1. TypeOK /\ Punteros /\ SemaforosExactos /\ ExclusionCpu /\ Sitios
  BY DEF IInv, TypeOK
<1>2. /\ Sitios' /\ pc["des"] = "extraer" /\ pc'["des"] = "encolar"
      /\ \A h \in Hilos : h # "des" => pc'[h] = pc[h]
  <2>1. "encolar" \in Lugares["des"] /\ "des" \in Hilos
    BY <1>1 DEF Lugares, Pasando, Hilos, APasar
  <2>2. Ir("des", "extraer", "encolar")
    OBVIOUS
  <2> HIDE DEF Desuspender
  <2> QED BY <1>1, <2>1, <2>2, IrSitios
<1>3. sem' \in [Semaforos -> Nat] /\ sem' = sem
  BY <1>1 DEF TypeOK
<1>4. /\ susp_ready' \in Seq(Procesos) /\ Len(susp_ready') = Len(susp_ready) - 1
      /\ en' \in [Hilos -> Procesos \union {Nadie}] /\ en'["des"] \in Procesos
      /\ \A h \in Hilos : h # "des" => en'[h] = en[h]
  <2>1. susp_ready \in Seq(Procesos) /\ Len(susp_ready) > 0
    BY <1>1, <1>2 DEF TypeOK, SemaforosExactos, SemNew, SemSuspReady, Admitiendo,
       Desuspendiendo, Ind,
           Semaforos
  <2>2. /\ Head(susp_ready) \in Procesos /\ Tail(susp_ready) \in Seq(Procesos)
        /\ Len(Tail(susp_ready)) = Len(susp_ready) - 1
    BY <2>1, CabezaYCola
  <2> QED BY <1>1, <2>2 DEF TypeOK, Tomar, Hilos
<1>5. /\ Desuspendiendo' = Desuspendiendo - 1
      /\ UNCHANGED <<Planificando, Extrayendo, Admitiendo, Sirviendo, Atendiendo,
                     Empujan>>
  <2> HIDE DEF Desuspender
  <2> QED BY <1>1, <1>2 DEF Empujan, Empujando, Planificando, Extrayendo, Admitiendo,
             Sirviendo, Desuspendiendo, Atendiendo, Ind, Pasando, Hilos, APasar
<1>6. TypeOK'
  BY <1>1, <1>2, <1>3, <1>4, <1>5 DEF TypeOK
<1>7. Punteros'
  BY <1>1, <1>2, <1>3, <1>4, <1>5 DEF Punteros, TypeOK, Hilos, APasar, Pasando
<1>8. SemaforosExactos'
  <2>1. UNCHANGED <<new, ready, blocked>>
    OBVIOUS
  <2> HIDE DEF Desuspender
  <2>2. SemSuspReady'
    <3>1. /\ sem["susp_ready"] \in Nat /\ sem'["susp_ready"] \in Nat
          /\ Len(susp_ready) \in Nat
          /\ sem'["susp_ready"] = sem["susp_ready"] /\ SemSuspReady
      BY <1>1, <1>3, <2>1, Naturales DEF Semaforos, SemaforosExactos
    <3>2. /\ Desuspendiendo \in Nat /\ Desuspendiendo' \in Nat
          /\ Desuspendiendo' = Desuspendiendo - 1
      BY <1>5, Contadores
        <3> QED BY <1>4, <3>1, <3>2 DEF SemSuspReady
  <2>3. SemNew' /\ SemReady' /\ SemBloqueados'
    BY <1>1, <1>2, <1>3, <1>4, <1>5, <2>1, Naturales, Contadores DEF SemaforosExactos,
       SemNew, SemReady, SemBloqueados, Semaforos
  <2> QED BY <2>2, <2>3 DEF SemaforosExactos
<1>9. ExclusionCpu'
  <2>1. Len(despacho)' = Len(despacho) /\ Len(devueltos)' = Len(devueltos)
    OBVIOUS
  <2> HIDE DEF Desuspender
  <2>2. /\ sem["planificacion"] \in Nat /\ sem'["planificacion"] \in Nat
        /\ Len(despacho) \in Nat
        /\ Len(devueltos) \in Nat /\ sem'["planificacion"] = sem["planificacion"]
        /\ ExclusionCpu
    BY <1>1, <1>3, Naturales DEF Semaforos
  <2>3. /\ Planificando \in Nat /\ Planificando' \in Nat /\ Planificando' = Planificando
        /\ Atendiendo \in Nat /\ Atendiendo' \in Nat /\ Atendiendo' = Atendiendo
    BY <1>5, Contadores
  <2> QED BY <2>1, <2>2, <2>3 DEF ExclusionCpu
<1> QED BY <1>6, <1>7, <1>8, <1>9 DEF IInv

\* A push to ready is owed a post until PostReady.
LEMMA EncolarInv == ASSUME IInv, NEW t \in APasar, Encolar(t) PROVE IInv'
<1> USE DEF Encolar, mundo, colas, hilos, pcbs, memoria, cpu
<1>1. TypeOK /\ Punteros /\ SemaforosExactos /\ ExclusionCpu /\ Sitios
  BY DEF IInv, TypeOK
<1>2. /\ Sitios' /\ pc[t] = "encolar"
      /\ pc'[t] \in {"pedir_tabla", "interrumpir", "post"}
      /\ \A h \in Hilos : h # t => pc'[h] = pc[h]
  <2>1. TrasEncolar(t) \in Lugares[t] /\ t \in Hilos
    BY <1>1 DEF Lugares, Pasando, Hilos, APasar, TrasEncolar, TrasTabla
  <2>2. Ir(t, "encolar", TrasEncolar(t))
    OBVIOUS
  <2>3. TrasEncolar(t) \in {"pedir_tabla", "interrumpir", "post"}
    BY DEF TrasEncolar, TrasTabla
  <2> HIDE DEF Encolar
  <2> QED BY <1>1, <2>1, <2>2, <2>3, IrSitios
<1>3. sem' \in [Semaforos -> Nat] /\ sem' = sem
  BY <1>1 DEF TypeOK
<1>4. t \in Hilos /\ en[t] \in Procesos
  BY <1>1, <1>2 DEF Hilos, APasar, Pasando, Punteros
<1>5. ready' \in Seq(Procesos) /\ Len(ready') = Len(ready) + 1
  BY <1>1, <1>4, Agregar DEF TypeOK
<1>6. UNCHANGED <<Planificando, Extrayendo, Admitiendo, Sirviendo, Desuspendiendo,
                  Atendiendo>>
  <2> HIDE DEF Encolar
  <2> QED BY <1>1, <1>2 DEF Empujan, Empujando, Planificando, Extrayendo, Admitiendo,
             Sirviendo, Desuspendiendo, Atendiendo, Ind, Pasando, Hilos, APasar
<1>7. Empujan' = Empujan + 1
  <2>1. Empujando(t) = 0
    BY <1>1, <1>2 DEF Empujando, Ind, Pasando
  <2>2. Empujando(t)' = 1
    BY <1>1, <1>2 DEF Empujando, Ind, Pasando
  <2> HIDE DEF Encolar
  <2>3. Empujando(t)' = Empujando(t) + 1
    BY <2>1, <2>2
  <2> QED BY <1>2, <2>3, EmpujaUno DEF Hilos, APasar
<1>8. TypeOK'
  BY <1>1, <1>2, <1>3, <1>4, <1>5, <1>6, <1>7 DEF TypeOK
<1>9. Punteros'
  BY <1>1, <1>2, <1>3, <1>4, <1>5, <1>6, <1>7 DEF Punteros, TypeOK, Hilos, APasar,
     Pasando
<1>10. SemaforosExactos'
  <2>1. UNCHANGED <<new, blocked, susp_ready>>
    OBVIOUS
  <2> HIDE DEF Encolar
  <2>2. SemReady'
    <3>1. /\ sem["ready"] \in Nat /\ sem'["ready"] \in Nat /\ Len(ready) \in Nat
          /\ sem'["ready"] = sem["ready"] /\ SemReady
      BY <1>1, <1>3, <2>1, Naturales DEF Semaforos, SemaforosExactos
    <3>2. /\ Extrayendo \in Nat /\ Extrayendo' \in Nat /\ Extrayendo' = Extrayendo
          /\ Empujan \in Nat /\ Empujan' \in Nat /\ Empujan' = Empujan + 1
      BY <1>6, <1>7, Contadores
        <3>3. Len(ready) + 1 = sem["ready"] + Extrayendo + (Empujan + 1)
      BY <3>1, <3>2 DEF SemReady
    <3> QED BY <1>5, <3>1, <3>2, <3>3 DEF SemReady
  <2>3. SemNew' /\ SemBloqueados' /\ SemSuspReady'
    BY <1>1, <1>2, <1>3, <1>4, <1>5, <1>6, <1>7, <2>1, Naturales,
       Contadores DEF SemaforosExactos, SemNew, SemBloqueados, SemSuspReady, Semaforos
  <2> QED BY <2>2, <2>3 DEF SemaforosExactos
<1>11. ExclusionCpu'
  <2>1. Len(despacho)' = Len(despacho) /\ Len(devueltos)' = Len(devueltos)
    OBVIOUS
  <2> HIDE DEF Encolar
  <2>2. /\ sem["planificacion"] \in Nat /\ sem'["planificacion"] \in Nat
        /\ Len(despacho) \in Nat
        /\ Len(devueltos) \in Nat /\ sem'["planificacion"] = sem["planificacion"]
        /\ ExclusionCpu
    BY <1>1, <1>3, Naturales DEF Semaforos
  <2>3. /\ Planificando \in Nat /\ Planificando' \in Nat /\ Planificando' = Planificando
        /\ Atendiendo \in Nat /\ Atendiendo' \in Nat /\ Atendiendo' = Atendiendo
    BY <1>6, <1>7, Contadores
  <2> QED BY <2>1, <2>2, <2>3 DEF ExclusionCpu
<1> QED BY <1>8, <1>9, <1>10, <1>11 DEF IInv

\* Asking memory for a table moves no process.
LEMMA PedirTablaInv == ASSUME IInv, NEW t \in APasar, PedirTabla(t) PROVE IInv'
<1> USE DEF PedirTabla, mundo, colas, hilos, pcbs, memoria, cpu
<1>1. TypeOK /\ Punteros /\ SemaforosExactos /\ ExclusionCpu /\ Sitios
  BY DEF IInv, TypeOK
<1>2. /\ Sitios' /\ pc[t] = "pedir_tabla" /\ pc'[t] = "recibir_tabla"
      /\ \A h \in Hilos : h # t => pc'[h] = pc[h]
  <2>1. "recibir_tabla" \in Lugares[t] /\ t \in Hilos
    BY <1>1 DEF Lugares, Pasando, Hilos, APasar
  <2>2. Ir(t, "pedir_tabla", "recibir_tabla")
    OBVIOUS
  <2> HIDE DEF PedirTabla
  <2> QED BY <1>1, <2>1, <2>2, IrSitios
<1>3. sem' \in [Semaforos -> Nat] /\ sem' = sem
  BY <1>1 DEF TypeOK
<1>4. t \in Hilos /\ en[t] \in Procesos
  BY <1>1, <1>2 DEF Hilos, APasar, Pasando, Punteros
<1>5. tablas' \in Seq(Procesos) /\ respuestas' \in Seq(Nat)
  <2>1. tablas \in Seq(Procesos) /\ respuestas \in Seq(Nat) /\ Len(tablas) \in Nat
    BY <1>1 DEF TypeOK
  <2> QED BY <1>4, <2>1, Agregar
<1>6. UNCHANGED <<Planificando, Extrayendo, Admitiendo, Sirviendo, Desuspendiendo,
                  Atendiendo, Empujan>>
  <2> HIDE DEF PedirTabla
  <2> QED BY <1>1, <1>2 DEF Empujan, Empujando, Planificando, Extrayendo, Admitiendo,
             Sirviendo, Desuspendiendo, Atendiendo, Ind, Pasando, Hilos, APasar
<1>7. TypeOK'
  BY <1>1, <1>2, <1>3, <1>4, <1>5, <1>6 DEF TypeOK
<1>8. Punteros'
  BY <1>1, <1>2, <1>3, <1>4, <1>5, <1>6 DEF Punteros, TypeOK, Hilos, APasar, Pasando
<1>9. SemaforosExactos'
  <2>1. UNCHANGED <<new, ready, blocked, susp_ready>>
    OBVIOUS
  <2> HIDE DEF PedirTabla
  <2>2. SemNew' /\ SemReady' /\ SemBloqueados' /\ SemSuspReady'
    BY <1>1, <1>2, <1>3, <1>4, <1>5, <1>6, <2>1, Naturales,
       Contadores DEF SemaforosExactos, SemNew, SemReady, SemBloqueados, SemSuspReady,
       Semaforos
  <2> QED BY <2>2 DEF SemaforosExactos
<1>10. ExclusionCpu'
  <2>1. Len(despacho)' = Len(despacho) /\ Len(devueltos)' = Len(devueltos)
    OBVIOUS
  <2> HIDE DEF PedirTabla
  <2>2. /\ sem["planificacion"] \in Nat /\ sem'["planificacion"] \in Nat
        /\ Len(despacho) \in Nat
        /\ Len(devueltos) \in Nat /\ sem'["planificacion"] = sem["planificacion"]
        /\ ExclusionCpu
    BY <1>1, <1>3, Naturales DEF Semaforos
  <2>3. /\ Planificando \in Nat /\ Planificando' \in Nat /\ Planificando' = Planificando
        /\ Atendiendo \in Nat /\ Atendiendo' \in Nat /\ Atendiendo' = Atendiendo
    BY <1>6, Contadores
  <2> QED BY <2>1, <2>2, <2>3 DEF ExclusionCpu
<1> QED BY <1>7, <1>8, <1>9, <1>10 DEF IInv

\* Nor does reading the answer, whoever it was for.
LEMMA RecibirTablaInv == ASSUME IInv, NEW t \in APasar, RecibirTabla(t) PROVE IInv'
<1> USE DEF RecibirTabla, mundo, colas, hilos, pcbs, memoria, cpu
<1>1. TypeOK /\ Punteros /\ SemaforosExactos /\ ExclusionCpu /\ Sitios
  BY DEF IInv, TypeOK
<1>2. /\ Sitios' /\ pc[t] = "recibir_tabla" /\ pc'[t] \in {"interrumpir", "post"}
      /\ \A h \in Hilos : h # t => pc'[h] = pc[h]
  <2>1. TrasTabla \in Lugares[t] /\ t \in Hilos
    BY <1>1 DEF Lugares, Pasando, Hilos, APasar, TrasTabla
  <2>2. Ir(t, "recibir_tabla", TrasTabla)
    OBVIOUS
  <2>3. TrasTabla \in {"interrumpir", "post"}
    BY DEF TrasTabla
  <2> HIDE DEF RecibirTabla
  <2> QED BY <1>1, <2>1, <2>2, <2>3, IrSitios
<1>3. sem' \in [Semaforos -> Nat] /\ sem' = sem
  BY <1>1 DEF TypeOK
<1>4. t \in Hilos /\ en[t] \in Procesos
  BY <1>1, <1>2 DEF Hilos, APasar, Pasando, Punteros
<1>5. respuestas' \in Seq(Nat) /\ Head(respuestas) \in Nat
  BY <1>1, CabezaYCola, NoVacia DEF TypeOK
<1>6. tabla' \in [Procesos -> Tablas]
  BY <1>1, <1>4, <1>5 DEF TypeOK, Tablas
<1>7. UNCHANGED <<Planificando, Extrayendo, Admitiendo, Sirviendo, Desuspendiendo,
                  Atendiendo, Empujan>>
  <2> HIDE DEF RecibirTabla
  <2> QED BY <1>1, <1>2 DEF Empujan, Empujando, Planificando, Extrayendo, Admitiendo,
             Sirviendo, Desuspendiendo, Atendiendo, Ind, Pasando, Hilos, APasar
<1>8. TypeOK'
  BY <1>1, <1>2, <1>3, <1>4, <1>5, <1>6, <1>7 DEF TypeOK
<1>9. Punteros'
  BY <1>1, <1>2, <1>3, <1>4, <1>5, <1>6, <1>7 DEF Punteros, TypeOK, Hilos, APasar,
     Pasando
<1>10. SemaforosExactos'
  <2>1. UNCHANGED <<new, ready, blocked, susp_ready>>
    OBVIOUS
  <2> HIDE DEF RecibirTabla
  <2>2. SemNew' /\ SemReady' /\ SemBloqueados' /\ SemSuspReady'
    BY <1>1, <1>2, <1>3, <1>4, <1>5, <1>6, <1>7, <2>1, Naturales,
       Contadores DEF SemaforosExactos, SemNew, SemReady, SemBloqueados, SemSuspReady,
       Semaforos
  <2> QED BY <2>2 DEF SemaforosExactos
<1>11. ExclusionCpu'
  <2>1. Len(despacho)' = Len(despacho) /\ Len(devueltos)' = Len(devueltos)
    OBVIOUS
  <2> HIDE DEF RecibirTabla
  <2>2. /\ sem["planificacion"] \in Nat /\ sem'["planificacion"] \in Nat
        /\ Len(despacho) \in Nat
        /\ Len(devueltos) \in Nat /\ sem'["planificacion"] = sem["planificacion"]
        /\ ExclusionCpu
    BY <1>1, <1>3, Naturales DEF Semaforos
  <2>3. /\ Planificando \in Nat /\ Planificando' \in Nat /\ Planificando' = Planificando
        /\ Atendiendo \in Nat /\ Atendiendo' \in Nat /\ Atendiendo' = Atendiendo
    BY <1>7, Contadores
  <2> QED BY <2>1, <2>2, <2>3 DEF ExclusionCpu
<1> QED BY <1>8, <1>9, <1>10, <1>11 DEF IInv

\* An INTERRUPCION sent inside pasar_a_ready moves no process.
LEMMA InterrumpirInv == ASSUME IInv, NEW t \in APasar, Interrumpir(t) PROVE IInv'
<1> USE DEF Interrumpir, mundo, colas, hilos, pcbs, memoria, cpu
<1>1. TypeOK /\ Punteros /\ SemaforosExactos /\ ExclusionCpu /\ Sitios
  BY DEF IInv, TypeOK
<1>2. /\ Sitios' /\ pc[t] = "interrumpir" /\ pc'[t] = "post"
      /\ \A h \in Hilos : h # t => pc'[h] = pc[h]
  <2>1. "post" \in Lugares[t] /\ t \in Hilos
    BY <1>1 DEF Lugares, Pasando, Hilos, APasar
  <2>2. Ir(t, "interrumpir", "post")
    OBVIOUS
  <2> HIDE DEF Interrumpir
  <2> QED BY <1>1, <2>1, <2>2, IrSitios
<1>3. sem' \in [Semaforos -> Nat] /\ sem' = sem
  BY <1>1 DEF TypeOK
<1>4. t \in Hilos /\ en[t] \in Procesos
  BY <1>1, <1>2 DEF Hilos, APasar, Pasando, Punteros
<1>5. irq' \in Nat
  BY <1>1 DEF TypeOK, SolicitarInterrupcion
<1>6. UNCHANGED <<Planificando, Extrayendo, Admitiendo, Sirviendo, Desuspendiendo,
                  Atendiendo, Empujan>>
  <2> HIDE DEF Interrumpir
  <2> QED BY <1>1, <1>2 DEF Empujan, Empujando, Planificando, Extrayendo, Admitiendo,
             Sirviendo, Desuspendiendo, Atendiendo, Ind, Pasando, Hilos, APasar
<1>7. TypeOK'
  BY <1>1, <1>2, <1>3, <1>4, <1>5, <1>6 DEF TypeOK
<1>8. Punteros'
  BY <1>1, <1>2, <1>3, <1>4, <1>5, <1>6 DEF Punteros, TypeOK, Hilos, APasar, Pasando
<1>9. SemaforosExactos'
  <2>1. UNCHANGED <<new, ready, blocked, susp_ready>>
    OBVIOUS
  <2> HIDE DEF Interrumpir
  <2>2. SemNew' /\ SemReady' /\ SemBloqueados' /\ SemSuspReady'
    BY <1>1, <1>2, <1>3, <1>4, <1>5, <1>6, <2>1, Naturales,
       Contadores DEF SemaforosExactos, SemNew, SemReady, SemBloqueados, SemSuspReady,
       Semaforos
  <2> QED BY <2>2 DEF SemaforosExactos
<1>10. ExclusionCpu'
  <2>1. Len(despacho)' = Len(despacho) /\ Len(devueltos)' = Len(devueltos)
    OBVIOUS
  <2> HIDE DEF Interrumpir
  <2>2. /\ sem["planificacion"] \in Nat /\ sem'["planificacion"] \in Nat
        /\ Len(despacho) \in Nat
        /\ Len(devueltos) \in Nat /\ sem'["planificacion"] = sem["planificacion"]
        /\ ExclusionCpu
    BY <1>1, <1>3, Naturales DEF Semaforos
  <2>3. /\ Planificando \in Nat /\ Planificando' \in Nat /\ Planificando' = Planificando
        /\ Atendiendo \in Nat /\ Atendiendo' \in Nat /\ Atendiendo' = Atendiendo
    BY <1>6, Contadores
  <2> QED BY <2>1, <2>2, <2>3 DEF ExclusionCpu
<1> QED BY <1>7, <1>8, <1>9, <1>10 DEF IInv

\* The post owed by pasar_a_ready is paid.
LEMMA PostReadyInv == ASSUME IInv, NEW t \in APasar, PostReady(t) PROVE IInv'
<1> USE DEF PostReady, mundo, colas, hilos, pcbs, memoria, cpu
<1>1. TypeOK /\ Punteros /\ SemaforosExactos /\ ExclusionCpu /\ Sitios
  BY DEF IInv, TypeOK
<1>2. /\ Sitios' /\ pc[t] = "post"
      /\ pc'[t] \in {"new", "interrumpir2", "bloqueados", "susp_ready", "liberar"}
      /\ \A h \in Hilos : h # t => pc'[h] = pc[h]
  <2>1. TrasPasar(t) \in Lugares[t] /\ t \in Hilos
    BY <1>1 DEF Lugares, Pasando, Hilos, APasar, Inicio, TrasPasar
  <2>2. Ir(t, "post", TrasPasar(t))
    OBVIOUS
  <2>3. TrasPasar(t) \in {"new", "interrumpir2", "bloqueados", "susp_ready", "liberar"}
    BY DEF TrasPasar, Inicio, APasar
  <2> HIDE DEF PostReady
  <2> QED BY <1>1, <2>1, <2>2, <2>3, IrSitios
<1>3. /\ sem' \in [Semaforos -> Nat] /\ sem'["ready"] = sem["ready"] + 1
      /\ \A r \in Semaforos : r # "ready" => sem'[r] = sem[r]
  <2>1. Post("ready") /\ "ready" \in Semaforos
    BY DEF Semaforos
  <2> HIDE DEF PostReady
  <2> QED BY <1>1, <2>1, PostTipo DEF TypeOK
<1>4. /\ en' \in [Hilos -> Procesos \union {Nadie}] /\ viejo' \in [Hilos -> BOOLEAN]
      /\ \A h \in Hilos : h # t => en'[h] = en[h]
  BY <1>1 DEF TypeOK, Soltar, Hilos, APasar
<1>5. UNCHANGED <<Planificando, Extrayendo, Admitiendo, Sirviendo, Desuspendiendo,
                  Atendiendo>>
  <2> HIDE DEF PostReady
  <2> QED BY <1>1, <1>2 DEF Empujan, Empujando, Planificando, Extrayendo, Admitiendo,
             Sirviendo, Desuspendiendo, Atendiendo, Ind, Pasando, Hilos, APasar
<1>6. Empujan' = Empujan - 1
  <2>1. Empujando(t) = 1
    BY <1>1, <1>2 DEF Empujando, Ind, Pasando
  <2>2. Empujando(t)' = 0
    BY <1>1, <1>2 DEF Empujando, Ind, Pasando
  <2> HIDE DEF PostReady
  <2>3. Empujando(t)' = Empujando(t) - 1
    BY <2>1, <2>2
  <2> QED BY <1>2, <2>3, SueltaUno DEF Hilos, APasar
<1>7. TypeOK'
  BY <1>1, <1>2, <1>3, <1>4, <1>5, <1>6 DEF TypeOK
<1>8. Punteros'
  BY <1>1, <1>2, <1>3, <1>4, <1>5, <1>6 DEF Punteros, TypeOK, Hilos, APasar, Pasando
<1>9. SemaforosExactos'
  <2>1. UNCHANGED <<new, ready, blocked, susp_ready>>
    OBVIOUS
  <2> HIDE DEF PostReady
  <2>2. SemReady'
    <3>1. /\ sem["ready"] \in Nat /\ sem'["ready"] \in Nat /\ Len(ready) \in Nat
          /\ sem'["ready"] = sem["ready"] + 1 /\ SemReady
          /\ Len(ready)' = Len(ready)
      BY <1>1, <1>3, <2>1, Naturales DEF Semaforos, SemaforosExactos
    <3>2. /\ Extrayendo \in Nat /\ Extrayendo' \in Nat /\ Extrayendo' = Extrayendo
          /\ Empujan \in Nat /\ Empujan' \in Nat /\ Empujan' = Empujan - 1
      BY <1>5, <1>6, Contadores
        <3> QED BY <3>1, <3>2 DEF SemReady
  <2>3. SemNew' /\ SemBloqueados' /\ SemSuspReady'
    BY <1>1, <1>2, <1>3, <1>4, <1>5, <1>6, <2>1, Naturales,
       Contadores DEF SemaforosExactos, SemNew, SemBloqueados, SemSuspReady, Semaforos
  <2> QED BY <2>2, <2>3 DEF SemaforosExactos
<1>10. ExclusionCpu'
  <2>1. Len(despacho)' = Len(despacho) /\ Len(devueltos)' = Len(devueltos)
    OBVIOUS
  <2> HIDE DEF PostReady
  <2>2. /\ sem["planificacion"] \in Nat /\ sem'["planificacion"] \in Nat
        /\ Len(despacho) \in Nat
        /\ Len(devueltos) \in Nat /\ sem'["planificacion"] = sem["planificacion"]
        /\ ExclusionCpu
    BY <1>1, <1>3, Naturales DEF Semaforos
  <2>3. /\ Planificando \in Nat /\ Planificando' \in Nat /\ Planificando' = Planificando
        /\ Atendiendo \in Nat /\ Atendiendo' \in Nat /\ Atendiendo' = Atendiendo
    BY <1>5, <1>6, Contadores
  <2> QED BY <2>1, <2>2, <2>3 DEF ExclusionCpu
<1> QED BY <1>7, <1>8, <1>9, <1>10 DEF IInv

\* The second INTERRUPCION of the I/O thread and the desuspendidor.
LEMMA InterrumpirOtraVezInv ==
  ASSUME IInv, NEW t \in {"io", "des"}, InterrumpirOtraVez(t)
  PROVE IInv'
<1> USE DEF InterrumpirOtraVez, mundo, colas, hilos, pcbs, memoria, cpu
<1>1. TypeOK /\ Punteros /\ SemaforosExactos /\ ExclusionCpu /\ Sitios
  BY DEF IInv, TypeOK
<1>2. /\ Sitios' /\ pc[t] = "interrumpir2" /\ pc'[t] \in {"bloqueados", "susp_ready"}
      /\ \A h \in Hilos : h # t => pc'[h] = pc[h]
  <2>1. Inicio[t] \in Lugares[t] /\ t \in Hilos
    BY <1>1 DEF Lugares, Pasando, Hilos, APasar, Inicio
  <2>2. Ir(t, "interrumpir2", Inicio[t])
    OBVIOUS
  <2>3. Inicio[t] \in {"bloqueados", "susp_ready"}
    BY DEF Inicio
  <2> HIDE DEF InterrumpirOtraVez
  <2> QED BY <1>1, <2>1, <2>2, <2>3, IrSitios
<1>3. sem' \in [Semaforos -> Nat] /\ sem' = sem
  BY <1>1 DEF TypeOK
<1>4. irq' \in Nat
  BY <1>1 DEF TypeOK, SolicitarInterrupcion
<1>5. UNCHANGED <<Planificando, Extrayendo, Admitiendo, Sirviendo, Desuspendiendo,
                  Atendiendo, Empujan>>
  <2> HIDE DEF InterrumpirOtraVez
  <2> QED BY <1>1, <1>2 DEF Empujan, Empujando, Planificando, Extrayendo, Admitiendo,
             Sirviendo, Desuspendiendo, Atendiendo, Ind, Pasando, Hilos, APasar
<1>6. TypeOK'
  BY <1>1, <1>2, <1>3, <1>4, <1>5 DEF TypeOK
<1>7. Punteros'
  BY <1>1, <1>2, <1>3, <1>4, <1>5 DEF Punteros, TypeOK, Hilos, APasar, Pasando
<1>8. SemaforosExactos'
  <2>1. UNCHANGED <<new, ready, blocked, susp_ready>>
    OBVIOUS
  <2> HIDE DEF InterrumpirOtraVez
  <2>2. SemNew' /\ SemReady' /\ SemBloqueados' /\ SemSuspReady'
    BY <1>1, <1>2, <1>3, <1>4, <1>5, <2>1, Naturales, Contadores DEF SemaforosExactos,
       SemNew, SemReady, SemBloqueados, SemSuspReady, Semaforos
  <2> QED BY <2>2 DEF SemaforosExactos
<1>9. ExclusionCpu'
  <2>1. Len(despacho)' = Len(despacho) /\ Len(devueltos)' = Len(devueltos)
    OBVIOUS
  <2> HIDE DEF InterrumpirOtraVez
  <2>2. /\ sem["planificacion"] \in Nat /\ sem'["planificacion"] \in Nat
        /\ Len(despacho) \in Nat
        /\ Len(devueltos) \in Nat /\ sem'["planificacion"] = sem["planificacion"]
        /\ ExclusionCpu
    BY <1>1, <1>3, Naturales DEF Semaforos
  <2>3. /\ Planificando \in Nat /\ Planificando' \in Nat /\ Planificando' = Planificando
        /\ Atendiendo \in Nat /\ Atendiendo' \in Nat /\ Atendiendo' = Atendiendo
    BY <1>5, Contadores
  <2> QED BY <2>1, <2>2, <2>3 DEF ExclusionCpu
<1> QED BY <1>6, <1>7, <1>8, <1>9 DEF IInv

\* The long-term scheduler gives back its pending pop and its place together.
LEMMA CederLugarInv == ASSUME IInv, CederLugar PROVE IInv'
<1> USE DEF CederLugar, mundo, colas, hilos, pcbs, memoria, cpu
<1>1. TypeOK /\ Punteros /\ SemaforosExactos /\ ExclusionCpu /\ Sitios
  BY DEF IInv, TypeOK
<1>2. /\ Sitios' /\ pc["ltp"] = "mirar" /\ pc'["ltp"] = "new"
      /\ \A h \in Hilos : h # "ltp" => pc'[h] = pc[h]
  <2>1. "new" \in Lugares["ltp"] /\ "ltp" \in Hilos
    BY <1>1 DEF Lugares, Pasando, Hilos, APasar
  <2>2. Ir("ltp", "mirar", "new")
    OBVIOUS
  <2> HIDE DEF CederLugar
  <2> QED BY <1>1, <2>1, <2>2, IrSitios
<1>3. /\ sem' \in [Semaforos -> Nat] /\ sem'["new"] = sem["new"] + 1
      /\ \A r \in Semaforos : r \notin {"new", "multiprogramacion"} => sem'[r] = sem[r]
  <2>1. sem \in [Semaforos -> Nat]
    BY <1>1 DEF TypeOK
  <2>2. sem' = [sem EXCEPT !["multiprogramacion"] = @ + 1, !["new"] = @ + 1]
    OBVIOUS
  <2> HIDE DEF CederLugar
  <2> QED BY <2>1, <2>2 DEF Semaforos
<1>4. /\ Admitiendo' = Admitiendo - 1
      /\ UNCHANGED <<Planificando, Extrayendo, Sirviendo, Desuspendiendo, Atendiendo,
                     Empujan>>
  <2> HIDE DEF CederLugar
  <2> QED BY <1>1, <1>2 DEF Empujan, Empujando, Planificando, Extrayendo, Admitiendo,
             Sirviendo, Desuspendiendo, Atendiendo, Ind, Pasando, Hilos, APasar
<1>5. TypeOK'
  BY <1>1, <1>2, <1>3, <1>4 DEF TypeOK
<1>6. Punteros'
  BY <1>1, <1>2, <1>3, <1>4 DEF Punteros, TypeOK, Hilos, APasar, Pasando
<1>7. SemaforosExactos'
  <2>1. UNCHANGED <<new, ready, blocked, susp_ready>>
    OBVIOUS
  <2> HIDE DEF CederLugar
  <2>2. SemNew'
    <3>1. /\ sem["new"] \in Nat /\ sem'["new"] \in Nat /\ Len(new) \in Nat
          /\ sem'["new"] = sem["new"] + 1 /\ SemNew
          /\ Len(new)' = Len(new)
      BY <1>1, <1>3, <2>1, Naturales DEF Semaforos, SemaforosExactos
    <3>2. /\ Admitiendo \in Nat /\ Admitiendo' \in Nat /\ Admitiendo' = Admitiendo - 1
      BY <1>4, Contadores
        <3> QED BY <3>1, <3>2 DEF SemNew
  <2>3. SemReady' /\ SemBloqueados' /\ SemSuspReady'
    BY <1>1, <1>2, <1>3, <1>4, <2>1, Naturales, Contadores DEF SemaforosExactos,
       SemReady, SemBloqueados, SemSuspReady, Semaforos
  <2> QED BY <2>2, <2>3 DEF SemaforosExactos
<1>8. ExclusionCpu'
  <2>1. Len(despacho)' = Len(despacho) /\ Len(devueltos)' = Len(devueltos)
    OBVIOUS
  <2> HIDE DEF CederLugar
  <2>2. /\ sem["planificacion"] \in Nat /\ sem'["planificacion"] \in Nat
        /\ Len(despacho) \in Nat
        /\ Len(devueltos) \in Nat /\ sem'["planificacion"] = sem["planificacion"]
        /\ ExclusionCpu
    BY <1>1, <1>3, Naturales DEF Semaforos
  <2>3. /\ Planificando \in Nat /\ Planificando' \in Nat /\ Planificando' = Planificando
        /\ Atendiendo \in Nat /\ Atendiendo' \in Nat /\ Atendiendo' = Atendiendo
    BY <1>4, Contadores
  <2> QED BY <2>1, <2>2, <2>3 DEF ExclusionCpu
<1> QED BY <1>5, <1>6, <1>7, <1>8 DEF IInv

\* The unit of the blocked semaphore becomes the device's pending pop, of a first element.
LEMMA IniciarIOInv == ASSUME IInv, IniciarIO PROVE IInv'
<1> USE DEF IniciarIO, mundo, colas, hilos, pcbs, memoria, cpu
<1>1. TypeOK /\ Punteros /\ SemaforosExactos /\ ExclusionCpu /\ Sitios
  BY DEF IInv, TypeOK
<1>2. /\ Sitios' /\ pc["io"] = "bloqueados" /\ pc'["io"] = "usleep"
      /\ \A h \in Hilos : h # "io" => pc'[h] = pc[h]
  <2>1. "usleep" \in Lugares["io"] /\ "io" \in Hilos
    BY <1>1 DEF Lugares, Pasando, Hilos, APasar
  <2>2. Ir("io", "bloqueados", "usleep")
    OBVIOUS
  <2> HIDE DEF IniciarIO
  <2> QED BY <1>1, <2>1, <2>2, IrSitios
<1>3. /\ sem' \in [Semaforos -> Nat] /\ sem'["bloqueados"] = sem["bloqueados"] - 1
      /\ sem["bloqueados"] > 0
      /\ \A r \in Semaforos : r # "bloqueados" => sem'[r] = sem[r]
  <2>1. Wait("bloqueados") /\ "bloqueados" \in Semaforos
    BY DEF Semaforos
  <2> HIDE DEF IniciarIO
  <2> QED BY <1>1, <2>1, WaitTipo DEF TypeOK
<1>4. atendido' \in DOMAIN bloqueos /\ atendido' # 0
  <2>1. blocked \in Seq(DOMAIN bloqueos) /\ Len(blocked) > 0
    BY <1>1, <1>3 DEF TypeOK, SemaforosExactos, SemBloqueados, Sirviendo, Ind, Semaforos
  <2>2. Head(blocked) \in DOMAIN bloqueos
    BY <2>1, CabezaYCola
  <2>3. DOMAIN bloqueos = 1..Len(bloqueos) /\ Len(bloqueos) \in Nat
    BY <1>1 DEF TypeOK
  <2> QED BY <2>2, <2>3
<1>5. /\ Sirviendo' = Sirviendo + 1
      /\ UNCHANGED <<Planificando, Extrayendo, Admitiendo, Desuspendiendo, Atendiendo,
                     Empujan>>
  <2> HIDE DEF IniciarIO
  <2> QED BY <1>1, <1>2 DEF Empujan, Empujando, Planificando, Extrayendo, Admitiendo,
             Sirviendo, Desuspendiendo, Atendiendo, Ind, Pasando, Hilos, APasar
<1>6. TypeOK'
  BY <1>1, <1>2, <1>3, <1>4, <1>5 DEF TypeOK
<1>7. Punteros'
  BY <1>1, <1>2, <1>3, <1>4, <1>5 DEF Punteros, TypeOK, Hilos, APasar, Pasando
<1>8. SemaforosExactos'
  <2>1. UNCHANGED <<new, ready, blocked, susp_ready>>
    OBVIOUS
  <2> HIDE DEF IniciarIO
  <2>2. SemBloqueados'
    <3>1. /\ sem["bloqueados"] \in Nat /\ sem'["bloqueados"] \in Nat
          /\ Len(blocked) \in Nat
          /\ sem'["bloqueados"] = sem["bloqueados"] - 1 /\ SemBloqueados
          /\ Len(blocked)' = Len(blocked)
      BY <1>1, <1>3, <2>1, Naturales DEF Semaforos, SemaforosExactos
    <3>2. /\ Sirviendo \in Nat /\ Sirviendo' \in Nat /\ Sirviendo' = Sirviendo + 1
      BY <1>5, Contadores
        <3> QED BY <3>1, <3>2 DEF SemBloqueados
  <2>3. SemNew' /\ SemReady' /\ SemSuspReady'
    BY <1>1, <1>2, <1>3, <1>4, <1>5, <2>1, Naturales, Contadores DEF SemaforosExactos,
       SemNew, SemReady, SemSuspReady, Semaforos
  <2> QED BY <2>2, <2>3 DEF SemaforosExactos
<1>9. ExclusionCpu'
  <2>1. Len(despacho)' = Len(despacho) /\ Len(devueltos)' = Len(devueltos)
    OBVIOUS
  <2> HIDE DEF IniciarIO
  <2>2. /\ sem["planificacion"] \in Nat /\ sem'["planificacion"] \in Nat
        /\ Len(despacho) \in Nat
        /\ Len(devueltos) \in Nat /\ sem'["planificacion"] = sem["planificacion"]
        /\ ExclusionCpu
    BY <1>1, <1>3, Naturales DEF Semaforos
  <2>3. /\ Planificando \in Nat /\ Planificando' \in Nat /\ Planificando' = Planificando
        /\ Atendiendo \in Nat /\ Atendiendo' \in Nat /\ Atendiendo' = Atendiendo
    BY <1>5, Contadores
  <2> QED BY <2>1, <2>2, <2>3 DEF ExclusionCpu
<1> QED BY <1>6, <1>7, <1>8, <1>9 DEF IInv

\* blocked has the blocking the device pops.
LEMMA TerminarIOInv == ASSUME IInv, TerminarIO PROVE IInv'
<1> USE DEF TerminarIO, mundo, colas, hilos, pcbs, memoria, cpu
<1>1. TypeOK /\ Punteros /\ SemaforosExactos /\ ExclusionCpu /\ Sitios
  BY DEF IInv, TypeOK
<1>2. /\ Sitios' /\ pc["io"] = "usleep" /\ pc'["io"] = "decidir"
      /\ \A h \in Hilos : h # "io" => pc'[h] = pc[h]
  <2>1. "decidir" \in Lugares["io"] /\ "io" \in Hilos
    BY <1>1 DEF Lugares, Pasando, Hilos, APasar
  <2>2. Ir("io", "usleep", "decidir")
    OBVIOUS
  <2> HIDE DEF TerminarIO
  <2> QED BY <1>1, <2>1, <2>2, IrSitios
<1>3. sem' \in [Semaforos -> Nat] /\ sem' = sem
  BY <1>1 DEF TypeOK
<1>4. blocked' \in Seq(DOMAIN bloqueos) /\ Len(blocked') = Len(blocked) - 1
  <2>1. blocked \in Seq(DOMAIN bloqueos) /\ Len(blocked) > 0
    BY <1>1, <1>2 DEF TypeOK, SemaforosExactos, SemBloqueados, Sirviendo, Ind, Semaforos
  <2> QED BY <2>1, CabezaYCola
<1>5. /\ Sirviendo' = Sirviendo - 1
      /\ UNCHANGED <<Planificando, Extrayendo, Admitiendo, Desuspendiendo, Atendiendo,
                     Empujan>>
  <2> HIDE DEF TerminarIO
  <2> QED BY <1>1, <1>2 DEF Empujan, Empujando, Planificando, Extrayendo, Admitiendo,
             Sirviendo, Desuspendiendo, Atendiendo, Ind, Pasando, Hilos, APasar
<1>6. TypeOK'
  BY <1>1, <1>2, <1>3, <1>4, <1>5 DEF TypeOK
<1>7. Punteros'
  BY <1>1, <1>2, <1>3, <1>4, <1>5 DEF Punteros, TypeOK, Hilos, APasar, Pasando
<1>8. SemaforosExactos'
  <2>1. UNCHANGED <<new, ready, susp_ready>>
    OBVIOUS
  <2> HIDE DEF TerminarIO
  <2>2. SemBloqueados'
    <3>1. /\ sem["bloqueados"] \in Nat /\ sem'["bloqueados"] \in Nat
          /\ Len(blocked) \in Nat
          /\ sem'["bloqueados"] = sem["bloqueados"] /\ SemBloqueados
      BY <1>1, <1>3, <2>1, Naturales DEF Semaforos, SemaforosExactos
    <3>2. /\ Sirviendo \in Nat /\ Sirviendo' \in Nat /\ Sirviendo' = Sirviendo - 1
      BY <1>5, Contadores
        <3> QED BY <1>4, <3>1, <3>2 DEF SemBloqueados
  <2>3. SemNew' /\ SemReady' /\ SemSuspReady'
    BY <1>1, <1>2, <1>3, <1>4, <1>5, <2>1, Naturales, Contadores DEF SemaforosExactos,
       SemNew, SemReady, SemSuspReady, Semaforos
  <2> QED BY <2>2, <2>3 DEF SemaforosExactos
<1>9. ExclusionCpu'
  <2>1. Len(despacho)' = Len(despacho) /\ Len(devueltos)' = Len(devueltos)
    OBVIOUS
  <2> HIDE DEF TerminarIO
  <2>2. /\ sem["planificacion"] \in Nat /\ sem'["planificacion"] \in Nat
        /\ Len(despacho) \in Nat
        /\ Len(devueltos) \in Nat /\ sem'["planificacion"] = sem["planificacion"]
        /\ ExclusionCpu
    BY <1>1, <1>3, Naturales DEF Semaforos
  <2>3. /\ Planificando \in Nat /\ Planificando' \in Nat /\ Planificando' = Planificando
        /\ Atendiendo \in Nat /\ Atendiendo' \in Nat /\ Atendiendo' = Atendiendo
    BY <1>5, Contadores
  <2> QED BY <2>1, <2>2, <2>3 DEF ExclusionCpu
<1> QED BY <1>6, <1>7, <1>8, <1>9 DEF IInv

\* The process of the finished blocking goes to the hands of pasar_a_ready.
LEMMA SalirAReadyInv == ASSUME IInv, SalirAReady PROVE IInv'
<1> USE DEF SalirAReady, mundo, colas, hilos, pcbs, memoria, cpu
<1>1. TypeOK /\ Punteros /\ SemaforosExactos /\ ExclusionCpu /\ Sitios
  BY DEF IInv, TypeOK
<1>2. /\ Sitios' /\ pc["io"] = "decidir" /\ pc'["io"] = "encolar"
      /\ \A h \in Hilos : h # "io" => pc'[h] = pc[h]
  <2>1. "encolar" \in Lugares["io"] /\ "io" \in Hilos
    BY <1>1 DEF Lugares, Pasando, Hilos, APasar
  <2>2. Ir("io", "decidir", "encolar")
    OBVIOUS
  <2> HIDE DEF SalirAReady
  <2> QED BY <1>1, <2>1, <2>2, IrSitios
<1>3. sem' \in [Semaforos -> Nat] /\ sem' = sem
  BY <1>1 DEF TypeOK
<1>4. ProcesoDe(atendido) \in Procesos
  <2>1. atendido \in DOMAIN bloqueos
    BY <1>1, <1>2 DEF TypeOK, Punteros
  <2>2. bloqueos[atendido] \in Bloqueo
    BY <1>1, <2>1 DEF TypeOK
  <2> QED BY <2>2 DEF ProcesoDe, Bloqueo
<1>5. bloqueos' \in Seq(Bloqueo) /\ DOMAIN bloqueos' = DOMAIN bloqueos
  <2>1. atendido \in DOMAIN bloqueos /\ bloqueos \in Seq(Bloqueo) /\ bloqueos[atendido] \in Bloqueo
    BY <1>1, <1>2 DEF TypeOK, Punteros
  <2>2. [bloqueos[atendido] EXCEPT !.salida = "ready"] \in Bloqueo
    BY <1>1, <2>1 DEF Bloqueo
  <2>3. bloqueos' = [bloqueos EXCEPT ![atendido] = [bloqueos[atendido] EXCEPT !.salida = "ready"]]
    OBVIOUS
  <2> QED BY <2>1, <2>2, <2>3, Reemplazar
<1>6. /\ en' \in [Hilos -> Procesos \union {Nadie}] /\ en'["io"] \in Procesos
      /\ \A h \in Hilos : h # "io" => en'[h] = en[h]
  BY <1>1, <1>4 DEF TypeOK, Tomar, Hilos
<1>7. UNCHANGED <<Planificando, Extrayendo, Admitiendo, Sirviendo, Desuspendiendo,
                  Atendiendo, Empujan>>
  <2> HIDE DEF SalirAReady
  <2> QED BY <1>1, <1>2 DEF Empujan, Empujando, Planificando, Extrayendo, Admitiendo,
             Sirviendo, Desuspendiendo, Atendiendo, Ind, Pasando, Hilos, APasar
<1>8. TypeOK'
  BY <1>1, <1>2, <1>3, <1>4, <1>5, <1>6, <1>7 DEF TypeOK
<1>9. Punteros'
  BY <1>1, <1>2, <1>3, <1>4, <1>5, <1>6, <1>7 DEF Punteros, TypeOK, Hilos, APasar,
     Pasando
<1>10. SemaforosExactos'
  <2>1. UNCHANGED <<new, ready, blocked, susp_ready>>
    OBVIOUS
  <2> HIDE DEF SalirAReady
  <2>2. SemNew' /\ SemReady' /\ SemBloqueados' /\ SemSuspReady'
    BY <1>1, <1>2, <1>3, <1>4, <1>5, <1>6, <1>7, <2>1, Naturales,
       Contadores DEF SemaforosExactos, SemNew, SemReady, SemBloqueados, SemSuspReady,
       Semaforos
  <2> QED BY <2>2 DEF SemaforosExactos
<1>11. ExclusionCpu'
  <2>1. Len(despacho)' = Len(despacho) /\ Len(devueltos)' = Len(devueltos)
    OBVIOUS
  <2> HIDE DEF SalirAReady
  <2>2. /\ sem["planificacion"] \in Nat /\ sem'["planificacion"] \in Nat
        /\ Len(despacho) \in Nat
        /\ Len(devueltos) \in Nat /\ sem'["planificacion"] = sem["planificacion"]
        /\ ExclusionCpu
    BY <1>1, <1>3, Naturales DEF Semaforos
  <2>3. /\ Planificando \in Nat /\ Planificando' \in Nat /\ Planificando' = Planificando
        /\ Atendiendo \in Nat /\ Atendiendo' \in Nat /\ Atendiendo' = Atendiendo
    BY <1>7, Contadores
  <2> QED BY <2>1, <2>2, <2>3 DEF ExclusionCpu
<1> QED BY <1>8, <1>9, <1>10, <1>11 DEF IInv

\* Or to susp_ready, with its post.
LEMMA SalirASuspReadyInv == ASSUME IInv, SalirASuspReady PROVE IInv'
<1> USE DEF SalirASuspReady, mundo, colas, hilos, pcbs, memoria, cpu
<1>1. TypeOK /\ Punteros /\ SemaforosExactos /\ ExclusionCpu /\ Sitios
  BY DEF IInv, TypeOK
<1>2. /\ Sitios' /\ pc["io"] = "decidir" /\ pc'["io"] = "bloqueados"
      /\ \A h \in Hilos : h # "io" => pc'[h] = pc[h]
  <2>1. "bloqueados" \in Lugares["io"] /\ "io" \in Hilos
    BY <1>1 DEF Lugares, Pasando, Hilos, APasar
  <2>2. Ir("io", "decidir", "bloqueados")
    OBVIOUS
  <2> HIDE DEF SalirASuspReady
  <2> QED BY <1>1, <2>1, <2>2, IrSitios
<1>3. /\ sem' \in [Semaforos -> Nat] /\ sem'["susp_ready"] = sem["susp_ready"] + 1
      /\ \A r \in Semaforos : r # "susp_ready" => sem'[r] = sem[r]
  <2>1. Post("susp_ready") /\ "susp_ready" \in Semaforos
    BY DEF Semaforos
  <2> HIDE DEF SalirASuspReady
  <2> QED BY <1>1, <2>1, PostTipo DEF TypeOK
<1>4. ProcesoDe(atendido) \in Procesos
  <2>1. atendido \in DOMAIN bloqueos
    BY <1>1, <1>2 DEF TypeOK, Punteros
  <2>2. bloqueos[atendido] \in Bloqueo
    BY <1>1, <2>1 DEF TypeOK
  <2> QED BY <2>2 DEF ProcesoDe, Bloqueo
<1>5. bloqueos' \in Seq(Bloqueo) /\ DOMAIN bloqueos' = DOMAIN bloqueos
  <2>1. atendido \in DOMAIN bloqueos /\ bloqueos \in Seq(Bloqueo) /\ bloqueos[atendido] \in Bloqueo
    BY <1>1, <1>2 DEF TypeOK, Punteros
  <2>2. [bloqueos[atendido] EXCEPT !.salida = "susp_ready"] \in Bloqueo
    BY <1>1, <2>1 DEF Bloqueo
  <2>3. bloqueos' = [bloqueos EXCEPT ![atendido] = [bloqueos[atendido] EXCEPT !.salida = "susp_ready"]]
    OBVIOUS
  <2> QED BY <2>1, <2>2, <2>3, Reemplazar
<1>6. susp_ready' \in Seq(Procesos) /\ Len(susp_ready') = Len(susp_ready) + 1
  BY <1>1, <1>4, Agregar DEF TypeOK
<1>7. UNCHANGED <<Planificando, Extrayendo, Admitiendo, Sirviendo, Desuspendiendo,
                  Atendiendo, Empujan>>
  <2> HIDE DEF SalirASuspReady
  <2> QED BY <1>1, <1>2 DEF Empujan, Empujando, Planificando, Extrayendo, Admitiendo,
             Sirviendo, Desuspendiendo, Atendiendo, Ind, Pasando, Hilos, APasar
<1>8. TypeOK'
  BY <1>1, <1>2, <1>3, <1>4, <1>5, <1>6, <1>7 DEF TypeOK
<1>9. Punteros'
  BY <1>1, <1>2, <1>3, <1>4, <1>5, <1>6, <1>7 DEF Punteros, TypeOK, Hilos, APasar,
     Pasando
<1>10. SemaforosExactos'
  <2>1. UNCHANGED <<new, ready, blocked>>
    OBVIOUS
  <2> HIDE DEF SalirASuspReady
  <2>2. SemSuspReady'
    <3>1. /\ sem["susp_ready"] \in Nat /\ sem'["susp_ready"] \in Nat
          /\ Len(susp_ready) \in Nat
          /\ sem'["susp_ready"] = sem["susp_ready"] + 1 /\ SemSuspReady
      BY <1>1, <1>3, <2>1, Naturales DEF Semaforos, SemaforosExactos
    <3>2. /\ Desuspendiendo \in Nat /\ Desuspendiendo' \in Nat
          /\ Desuspendiendo' = Desuspendiendo
      BY <1>7, Contadores
        <3> QED BY <1>6, <3>1, <3>2 DEF SemSuspReady
  <2>3. SemNew' /\ SemReady' /\ SemBloqueados'
    BY <1>1, <1>2, <1>3, <1>4, <1>5, <1>6, <1>7, <2>1, Naturales,
       Contadores DEF SemaforosExactos, SemNew, SemReady, SemBloqueados, Semaforos
  <2> QED BY <2>2, <2>3 DEF SemaforosExactos
<1>11. ExclusionCpu'
  <2>1. Len(despacho)' = Len(despacho) /\ Len(devueltos)' = Len(devueltos)
    OBVIOUS
  <2> HIDE DEF SalirASuspReady
  <2>2. /\ sem["planificacion"] \in Nat /\ sem'["planificacion"] \in Nat
        /\ Len(despacho) \in Nat
        /\ Len(devueltos) \in Nat /\ sem'["planificacion"] = sem["planificacion"]
        /\ ExclusionCpu
    BY <1>1, <1>3, Naturales DEF Semaforos
  <2>3. /\ Planificando \in Nat /\ Planificando' \in Nat /\ Planificando' = Planificando
        /\ Atendiendo \in Nat /\ Atendiendo' \in Nat /\ Atendiendo' = Atendiendo
    BY <1>7, Contadores
  <2> QED BY <2>1, <2>2, <2>3 DEF ExclusionCpu
<1> QED BY <1>8, <1>9, <1>10, <1>11 DEF IInv

LEMMA PrimeroTipo ==
  ASSUME TypeOK PROVE Primero \in DOMAIN bloqueos \union {0} /\ Primero \in Nat
<1>1. /\ bloqueos \in Seq(Bloqueo) /\ DOMAIN bloqueos = 1..Len(bloqueos)
      /\ blocked \in Seq(DOMAIN bloqueos)
  BY DEF TypeOK
<1>2. blocked # <<>> => blocked[1] \in DOMAIN bloqueos
  BY <1>1
<1>. QED
  BY <1>1, <1>2 DEF Primero

\* A timer that expires starts to look for its blocking.
LEMMA VencerInv == ASSUME IInv, NEW b \in DOMAIN bloqueos, Vencer(b) PROVE IInv'
<1> USE DEF Vencer, mundo, colas, hilos, pcbs, memoria, cpu
<1>1. TypeOK /\ Punteros /\ SemaforosExactos /\ ExclusionCpu /\ Sitios
  BY DEF IInv, TypeOK
<1>2. Sitios' /\ pc' = pc
  BY <1>1 DEF Sitios
<1>3. sem' \in [Semaforos -> Nat] /\ sem' = sem
  BY <1>1 DEF TypeOK
<1>4. bloqueos' \in Seq(Bloqueo) /\ DOMAIN bloqueos' = DOMAIN bloqueos
  <2> DEFINE r == [bloqueos[b] EXCEPT !.pc = "buscando", !.i = 1, !.n = Len(blocked),
                                      !.primero = Primero]
  <2>1. /\ bloqueos \in Seq(Bloqueo) /\ bloqueos[b] \in Bloqueo /\ Len(blocked) \in Nat
        /\ Primero \in Nat
    BY <1>1, PrimeroTipo DEF TypeOK
  <2>2. r \in Bloqueo
    BY <2>1 DEF Bloqueo
  <2>3. bloqueos' = [bloqueos EXCEPT ![b] = r]
    BY <2>1 DEF Bloqueo
  <2> HIDE DEF r, Vencer
  <2> QED BY <2>1, <2>2, <2>3, Reemplazar
<1>5. UNCHANGED <<Planificando, Extrayendo, Admitiendo, Sirviendo, Desuspendiendo,
                  Atendiendo, Empujan>>
  <2> HIDE DEF Vencer
  <2> QED BY <1>1, <1>2 DEF Empujan, Empujando, Planificando, Extrayendo, Admitiendo,
             Sirviendo, Desuspendiendo, Atendiendo, Ind, Pasando, Hilos, APasar
<1>6. TypeOK'
  BY <1>1, <1>2, <1>3, <1>4, <1>5 DEF TypeOK
<1>7. Punteros'
  BY <1>1, <1>2, <1>3, <1>4, <1>5 DEF Punteros, TypeOK, Hilos, APasar, Pasando
<1>8. SemaforosExactos'
  <2>1. UNCHANGED <<new, ready, blocked, susp_ready>>
    OBVIOUS
  <2> HIDE DEF Vencer
  <2>2. SemNew' /\ SemReady' /\ SemBloqueados' /\ SemSuspReady'
    BY <1>1, <1>2, <1>3, <1>4, <1>5, <2>1, Naturales, Contadores DEF SemaforosExactos,
       SemNew, SemReady, SemBloqueados, SemSuspReady, Semaforos
  <2> QED BY <2>2 DEF SemaforosExactos
<1>9. ExclusionCpu'
  <2>1. Len(despacho)' = Len(despacho) /\ Len(devueltos)' = Len(devueltos)
    OBVIOUS
  <2> HIDE DEF Vencer
  <2>2. /\ sem["planificacion"] \in Nat /\ sem'["planificacion"] \in Nat
        /\ Len(despacho) \in Nat
        /\ Len(devueltos) \in Nat /\ sem'["planificacion"] = sem["planificacion"]
        /\ ExclusionCpu
    BY <1>1, <1>3, Naturales DEF Semaforos
  <2>3. /\ Planificando \in Nat /\ Planificando' \in Nat /\ Planificando' = Planificando
        /\ Atendiendo \in Nat /\ Atendiendo' \in Nat /\ Atendiendo' = Atendiendo
    BY <1>5, Contadores
  <2> QED BY <2>1, <2>2, <2>3 DEF ExclusionCpu
<1> QED BY <1>6, <1>7, <1>8, <1>9 DEF IInv

\* One turn of the search reads blocked and changes no queue.
LEMMA BuscarInv == ASSUME IInv, NEW b \in DOMAIN bloqueos, Buscar(b) PROVE IInv'
<1> USE DEF Buscar, mundo, colas, hilos, pcbs, memoria, cpu
<1>1. TypeOK /\ Punteros /\ SemaforosExactos /\ ExclusionCpu /\ Sitios
  BY DEF IInv, TypeOK
<1>2. Sitios' /\ pc' = pc
  BY <1>1 DEF Sitios
<1>3. sem' \in [Semaforos -> Nat] /\ sem' = sem
  BY <1>1 DEF TypeOK
<1>4. /\ bloqueos' \in Seq(Bloqueo) /\ DOMAIN bloqueos' = DOMAIN bloqueos
      /\ caido' \in BOOLEAN
  <2>1. bloqueos \in Seq(Bloqueo) /\ bloqueos[b] \in Bloqueo /\ caido \in BOOLEAN
    BY <1>1 DEF TypeOK
  <2> DEFINE r(c, k) == [bloqueos[b] EXCEPT !.pc = c, !.i = k]
  <2>2. /\ r("fin", bloqueos[b].i) \in Bloqueo
        /\ r("notificar", bloqueos[b].i) \in Bloqueo
        /\ r(bloqueos[b].pc, bloqueos[b].i + 1) \in Bloqueo
    <3>1. /\ bloqueos[b].i \in Nat /\ bloqueos[b].i + 1 \in Nat
          /\ bloqueos[b].pc \in {"durmiendo", "buscando", "notificar", "confirmar", "fin"}
      BY <2>1 DEF Bloqueo
    <3> HIDE DEF Buscar
    <3> QED BY <2>1, <3>1 DEF Bloqueo
  <2>3. \/ bloqueos' = bloqueos
        \/ bloqueos' = [bloqueos EXCEPT ![b] = r("fin", bloqueos[b].i)]
        \/ bloqueos' = [bloqueos EXCEPT ![b] = r("notificar", bloqueos[b].i)]
        \/ bloqueos' = [bloqueos EXCEPT ![b] = r(bloqueos[b].pc, bloqueos[b].i + 1)]
    BY <2>1 DEF Bloqueo
  <2>4. caido' \in BOOLEAN
    BY <2>1
  <2> HIDE DEF r, Buscar
  <2> QED BY <2>1, <2>2, <2>3, <2>4, Reemplazar
<1>5. UNCHANGED <<Planificando, Extrayendo, Admitiendo, Sirviendo, Desuspendiendo,
                  Atendiendo, Empujan>>
  <2> HIDE DEF Buscar
  <2> QED BY <1>1, <1>2 DEF Empujan, Empujando, Planificando, Extrayendo, Admitiendo,
             Sirviendo, Desuspendiendo, Atendiendo, Ind, Pasando, Hilos, APasar
<1>6. TypeOK'
  BY <1>1, <1>2, <1>3, <1>4, <1>5 DEF TypeOK
<1>7. Punteros'
  BY <1>1, <1>2, <1>3, <1>4, <1>5 DEF Punteros, TypeOK, Hilos, APasar, Pasando
<1>8. SemaforosExactos'
  <2>1. UNCHANGED <<new, ready, blocked, susp_ready>>
    OBVIOUS
  <2> HIDE DEF Buscar
  <2>2. SemNew' /\ SemReady' /\ SemBloqueados' /\ SemSuspReady'
    BY <1>1, <1>2, <1>3, <1>4, <1>5, <2>1, Naturales, Contadores DEF SemaforosExactos,
       SemNew, SemReady, SemBloqueados, SemSuspReady, Semaforos
  <2> QED BY <2>2 DEF SemaforosExactos
<1>9. ExclusionCpu'
  <2>1. Len(despacho)' = Len(despacho) /\ Len(devueltos)' = Len(devueltos)
    OBVIOUS
  <2> HIDE DEF Buscar
  <2>2. /\ sem["planificacion"] \in Nat /\ sem'["planificacion"] \in Nat
        /\ Len(despacho) \in Nat
        /\ Len(devueltos) \in Nat /\ sem'["planificacion"] = sem["planificacion"]
        /\ ExclusionCpu
    BY <1>1, <1>3, Naturales DEF Semaforos
  <2>3. /\ Planificando \in Nat /\ Planificando' \in Nat /\ Planificando' = Planificando
        /\ Atendiendo \in Nat /\ Atendiendo' \in Nat /\ Atendiendo' = Atendiendo
    BY <1>5, Contadores
  <2> QED BY <2>1, <2>2, <2>3 DEF ExclusionCpu
<1> QED BY <1>6, <1>7, <1>8, <1>9 DEF IInv

\* Telling memory of the suspension changes no queue.
LEMMA NotificarSuspensionInv ==
  ASSUME IInv, NEW b \in DOMAIN bloqueos, NotificarSuspension(b)
  PROVE IInv'
<1> USE DEF NotificarSuspension, mundo, colas, hilos, pcbs, memoria, cpu
<1>1. TypeOK /\ Punteros /\ SemaforosExactos /\ ExclusionCpu /\ Sitios
  BY DEF IInv, TypeOK
<1>2. Sitios' /\ pc' = pc
  BY <1>1 DEF Sitios
<1>3. sem' \in [Semaforos -> Nat] /\ sem' = sem
  BY <1>1 DEF TypeOK
<1>4. bloqueos' \in Seq(Bloqueo) /\ DOMAIN bloqueos' = DOMAIN bloqueos
  <2>1. b \in DOMAIN bloqueos /\ bloqueos \in Seq(Bloqueo) /\ bloqueos[b] \in Bloqueo
    BY <1>1, <1>2 DEF TypeOK, Punteros
  <2>2. [bloqueos[b] EXCEPT !.pc = "confirmar"] \in Bloqueo
    BY <1>1, <2>1 DEF Bloqueo
  <2>3. bloqueos' = [bloqueos EXCEPT ![b] = [bloqueos[b] EXCEPT !.pc = "confirmar"]]
    BY DEF PasoSuspensor
  <2> QED BY <2>1, <2>2, <2>3, Reemplazar
<1>5. respuestas' \in Seq(Nat)
  BY <1>1, Agregar DEF TypeOK, Confirmacion
<1>6. UNCHANGED <<Planificando, Extrayendo, Admitiendo, Sirviendo, Desuspendiendo,
                  Atendiendo, Empujan>>
  <2> HIDE DEF NotificarSuspension
  <2> QED BY <1>1, <1>2 DEF Empujan, Empujando, Planificando, Extrayendo, Admitiendo,
             Sirviendo, Desuspendiendo, Atendiendo, Ind, Pasando, Hilos, APasar
<1>7. TypeOK'
  BY <1>1, <1>2, <1>3, <1>4, <1>5, <1>6 DEF TypeOK
<1>8. Punteros'
  BY <1>1, <1>2, <1>3, <1>4, <1>5, <1>6 DEF Punteros, TypeOK, Hilos, APasar, Pasando
<1>9. SemaforosExactos'
  <2>1. UNCHANGED <<new, ready, blocked, susp_ready>>
    OBVIOUS
  <2> HIDE DEF NotificarSuspension
  <2>2. SemNew' /\ SemReady' /\ SemBloqueados' /\ SemSuspReady'
    BY <1>1, <1>2, <1>3, <1>4, <1>5, <1>6, <2>1, Naturales,
       Contadores DEF SemaforosExactos, SemNew, SemReady, SemBloqueados, SemSuspReady,
       Semaforos
  <2> QED BY <2>2 DEF SemaforosExactos
<1>10. ExclusionCpu'
  <2>1. Len(despacho)' = Len(despacho) /\ Len(devueltos)' = Len(devueltos)
    OBVIOUS
  <2> HIDE DEF NotificarSuspension
  <2>2. /\ sem["planificacion"] \in Nat /\ sem'["planificacion"] \in Nat
        /\ Len(despacho) \in Nat
        /\ Len(devueltos) \in Nat /\ sem'["planificacion"] = sem["planificacion"]
        /\ ExclusionCpu
    BY <1>1, <1>3, Naturales DEF Semaforos
  <2>3. /\ Planificando \in Nat /\ Planificando' \in Nat /\ Planificando' = Planificando
        /\ Atendiendo \in Nat /\ Atendiendo' \in Nat /\ Atendiendo' = Atendiendo
    BY <1>6, Contadores
  <2> QED BY <2>1, <2>2, <2>3 DEF ExclusionCpu
<1> QED BY <1>7, <1>8, <1>9, <1>10 DEF IInv

\* A late confirmation frees a place, which is no part of the four counts.
LEMMA ConfirmarInv == ASSUME IInv, NEW b \in DOMAIN bloqueos, Confirmar(b) PROVE IInv'
<1> USE DEF Confirmar, mundo, colas, hilos, pcbs, memoria, cpu
<1>1. TypeOK /\ Punteros /\ SemaforosExactos /\ ExclusionCpu /\ Sitios
  BY DEF IInv, TypeOK
<1>2. Sitios' /\ pc' = pc
  BY <1>1 DEF Sitios
<1>3. /\ sem' \in [Semaforos -> Nat]
      /\ \A r \in Semaforos : r # "multiprogramacion" => sem'[r] = sem[r]
  <2>1. sem \in [Semaforos -> Nat]
    BY <1>1 DEF TypeOK
  <2>2. sem' = sem \/ sem' = [sem EXCEPT !["multiprogramacion"] = @ + 1]
    BY DEF Post
  <2> HIDE DEF Confirmar
  <2> QED BY <2>1, <2>2 DEF Semaforos
<1>4. /\ bloqueos' \in Seq(Bloqueo) /\ DOMAIN bloqueos' = DOMAIN bloqueos
      /\ respuestas' \in Seq(Nat)
  <2>1. bloqueos \in Seq(Bloqueo) /\ bloqueos[b] \in Bloqueo /\ respuestas \in Seq(Nat)
    BY <1>1 DEF TypeOK
  <2> DEFINE r(x) == [bloqueos[b] EXCEPT !.pc = "fin", !.suspendido = x]
  <2>2. r(TRUE) \in Bloqueo /\ r(bloqueos[b].suspendido) \in Bloqueo
    BY <2>1 DEF Bloqueo
  <2>3. \/ bloqueos' = [bloqueos EXCEPT ![b] = r(TRUE)]
        \/ bloqueos' = [bloqueos EXCEPT ![b] = r(bloqueos[b].suspendido)]
    BY <2>1 DEF Bloqueo
  <2>4. respuestas # <<>> /\ respuestas' = Tail(respuestas)
    OBVIOUS
  <2> HIDE DEF r, Confirmar
  <2>5. Len(respuestas) > 0
    BY <2>1, <2>4, NoVacia
  <2>6. respuestas' \in Seq(Nat)
    BY <2>1, <2>4, <2>5, CabezaYCola
  <2>7. \E e \in Bloqueo : bloqueos' = [bloqueos EXCEPT ![b] = e]
    BY <2>2, <2>3
  <2> QED BY <2>1, <2>6, <2>7, Reemplazar
<1>5. UNCHANGED <<Planificando, Extrayendo, Admitiendo, Sirviendo, Desuspendiendo,
                  Atendiendo, Empujan>>
  <2> HIDE DEF Confirmar
  <2> QED BY <1>1, <1>2 DEF Empujan, Empujando, Planificando, Extrayendo, Admitiendo,
             Sirviendo, Desuspendiendo, Atendiendo, Ind, Pasando, Hilos, APasar
<1>6. TypeOK'
  BY <1>1, <1>2, <1>3, <1>4, <1>5 DEF TypeOK
<1>7. Punteros'
  BY <1>1, <1>2, <1>3, <1>4, <1>5 DEF Punteros, TypeOK, Hilos, APasar, Pasando
<1>8. SemaforosExactos'
  <2>1. UNCHANGED <<new, ready, blocked, susp_ready>>
    OBVIOUS
  <2> HIDE DEF Confirmar
  <2>2. SemNew' /\ SemReady' /\ SemBloqueados' /\ SemSuspReady'
    BY <1>1, <1>2, <1>3, <1>4, <1>5, <2>1, Naturales, Contadores DEF SemaforosExactos,
       SemNew, SemReady, SemBloqueados, SemSuspReady, Semaforos
  <2> QED BY <2>2 DEF SemaforosExactos
<1>9. ExclusionCpu'
  <2>1. Len(despacho)' = Len(despacho) /\ Len(devueltos)' = Len(devueltos)
    OBVIOUS
  <2> HIDE DEF Confirmar
  <2>2. /\ sem["planificacion"] \in Nat /\ sem'["planificacion"] \in Nat
        /\ Len(despacho) \in Nat
        /\ Len(devueltos) \in Nat /\ sem'["planificacion"] = sem["planificacion"]
        /\ ExclusionCpu
    BY <1>1, <1>3, Naturales DEF Semaforos
  <2>3. /\ Planificando \in Nat /\ Planificando' \in Nat /\ Planificando' = Planificando
        /\ Atendiendo \in Nat /\ Atendiendo' \in Nat /\ Atendiendo' = Atendiendo
    BY <1>5, Contadores
  <2> QED BY <2>1, <2>2, <2>3 DEF ExclusionCpu
<1> QED BY <1>6, <1>7, <1>8, <1>9 DEF IInv

\* The returned PCB becomes a blocking in blocked, the token goes to the listener.
LEMMA RecibirBloqueoInv == ASSUME IInv, RecibirBloqueo PROVE IInv'
<1> USE DEF RecibirBloqueo, BloqueoNuevo, mundo, colas, hilos, pcbs, memoria, cpu
<1>1. TypeOK /\ Punteros /\ SemaforosExactos /\ ExclusionCpu /\ Sitios
  BY DEF IInv, TypeOK
<1>2. /\ Sitios' /\ pc["disp"] = "escuchar" /\ pc'["disp"] = "liberar"
      /\ \A h \in Hilos : h # "disp" => pc'[h] = pc[h]
  <2>1. "liberar" \in Lugares["disp"] /\ "disp" \in Hilos
    BY <1>1 DEF Lugares, Pasando, Hilos, APasar
  <2>2. Ir("disp", "escuchar", "liberar")
    OBVIOUS
  <2> HIDE DEF RecibirBloqueo
  <2> QED BY <1>1, <2>1, <2>2, IrSitios
<1>3. /\ sem' \in [Semaforos -> Nat] /\ sem'["bloqueados"] = sem["bloqueados"] + 1
      /\ \A r \in Semaforos : r # "bloqueados" => sem'[r] = sem[r]
  <2>1. Post("bloqueados") /\ "bloqueados" \in Semaforos
    BY DEF Semaforos
  <2> HIDE DEF RecibirBloqueo
  <2> QED BY <1>1, <2>1, PostTipo DEF TypeOK
<1>4. /\ Head(devueltos) \in Devuelto /\ Head(devueltos).proc \in Procesos
      /\ devueltos' \in Seq(Devuelto) /\ Len(devueltos') = Len(devueltos) - 1
      /\ ejecutando' = FALSE /\ tabla' \in [Procesos -> Tablas]
      /\ viejo' \in [Hilos -> BOOLEAN]
  <2>1. devueltos \in Seq(Devuelto) /\ Len(devueltos) > 0
    BY <1>1, NoVacia DEF TypeOK, Recibir
  <2>2. /\ Head(devueltos) \in Devuelto /\ Tail(devueltos) \in Seq(Devuelto)
        /\ Len(Tail(devueltos)) = Len(devueltos) - 1
    BY <2>1, CabezaYCola
  <2>3. Head(devueltos).proc \in Procesos /\ Head(devueltos).tabla \in Tablas
    BY <2>2 DEF Devuelto
  <2> QED BY <1>1, <2>2, <2>3 DEF TypeOK, Recibir
<1>5. /\ bloqueos' \in Seq(Bloqueo) /\ DOMAIN bloqueos \subseteq DOMAIN bloqueos'
      /\ blocked' \in Seq(DOMAIN bloqueos') /\ Len(blocked') = Len(blocked) + 1
  <2> DEFINE r == [proc |-> Head(devueltos).proc, suspendido |-> FALSE,
                   salida |-> "pendiente", pc |-> "durmiendo", i |-> 0, n |-> 0, primero |-> 0]
  <2>1. r \in Bloqueo
    BY <1>4 DEF Bloqueo
  <2>2. bloqueos \in Seq(Bloqueo) /\ blocked \in Seq(DOMAIN bloqueos)
    BY <1>1 DEF TypeOK
  <2>3. bloqueos' = Append(bloqueos, r) /\ blocked' = Append(blocked, Len(bloqueos) + 1)
    OBVIOUS
  <2> HIDE DEF r, RecibirBloqueo
  <2>4. bloqueos' \in Seq(Bloqueo) /\ Len(bloqueos') = Len(bloqueos) + 1
    BY <2>1, <2>2, <2>3, Agregar
  <2>5. /\ DOMAIN bloqueos = 1..Len(bloqueos) /\ DOMAIN bloqueos' = 1..Len(bloqueos')
        /\ Len(bloqueos) \in Nat
    BY <2>2, <2>4
  <2>6. DOMAIN bloqueos \subseteq DOMAIN bloqueos' /\ Len(bloqueos) + 1 \in DOMAIN bloqueos'
    BY <2>4, <2>5
  <2>7. blocked \in Seq(DOMAIN bloqueos')
    BY <2>2, <2>6, Ampliar
  <2> QED BY <2>3, <2>4, <2>6, <2>7, Agregar
<1>6. restante' \in [Procesos -> Int]
  BY <1>1, <1>4, ConstantesOK DEF TypeOK, ConstantesOK
<1>7. /\ Atendiendo' = Atendiendo + 1
      /\ UNCHANGED <<Planificando, Extrayendo, Admitiendo, Sirviendo, Desuspendiendo,
                     Empujan>>
  <2> HIDE DEF RecibirBloqueo
  <2> QED BY <1>1, <1>2 DEF Empujan, Empujando, Planificando, Extrayendo, Admitiendo,
             Sirviendo, Desuspendiendo, Atendiendo, Ind, Pasando, Hilos, APasar
<1>8. TypeOK'
  BY <1>1, <1>2, <1>3, <1>4, <1>5, <1>6, <1>7 DEF TypeOK
<1>9. Punteros'
  BY <1>1, <1>2, <1>3, <1>4, <1>5, <1>6, <1>7 DEF Punteros, TypeOK, Hilos, APasar,
     Pasando
<1>10. SemaforosExactos'
  <2>1. UNCHANGED <<new, ready, susp_ready>>
    OBVIOUS
  <2> HIDE DEF RecibirBloqueo
  <2>2. SemBloqueados'
    <3>1. /\ sem["bloqueados"] \in Nat /\ sem'["bloqueados"] \in Nat
          /\ Len(blocked) \in Nat
          /\ sem'["bloqueados"] = sem["bloqueados"] + 1 /\ SemBloqueados
      BY <1>1, <1>3, <2>1, Naturales DEF Semaforos, SemaforosExactos
    <3>2. /\ Sirviendo \in Nat /\ Sirviendo' \in Nat /\ Sirviendo' = Sirviendo
      BY <1>7, Contadores
        <3> QED BY <1>4, <1>5, <3>1, <3>2 DEF SemBloqueados
  <2>3. SemNew' /\ SemReady' /\ SemSuspReady'
    BY <1>1, <1>2, <1>3, <1>4, <1>5, <1>6, <1>7, <2>1, Naturales,
       Contadores DEF SemaforosExactos, SemNew, SemReady, SemSuspReady, Semaforos
  <2> QED BY <2>2, <2>3 DEF SemaforosExactos
<1>11. ExclusionCpu'
  <2>1. Len(despacho)' = Len(despacho)
    BY DEF Recibir
  <2> HIDE DEF RecibirBloqueo
  <2>2. /\ sem["planificacion"] \in Nat /\ sem'["planificacion"] \in Nat
        /\ Len(despacho) \in Nat
        /\ Len(devueltos) \in Nat /\ sem'["planificacion"] = sem["planificacion"]
        /\ ExclusionCpu
    BY <1>1, <1>3, Naturales DEF Semaforos
  <2>3. /\ Planificando \in Nat /\ Planificando' \in Nat /\ Planificando' = Planificando
        /\ Atendiendo \in Nat /\ Atendiendo' \in Nat /\ Atendiendo' = Atendiendo + 1
    BY <1>7, Contadores
  <2> QED BY <1>4, <2>1, <2>2, <2>3 DEF ExclusionCpu
<1> QED BY <1>8, <1>9, <1>10, <1>11 DEF IInv

\* The returned PCB goes to the hands of the listener, with the token.
LEMMA RecibirInterrumpidoInv == ASSUME IInv, RecibirInterrumpido PROVE IInv'
<1> USE DEF RecibirInterrumpido, mundo, colas, hilos, pcbs, memoria, cpu
<1>1. TypeOK /\ Punteros /\ SemaforosExactos /\ ExclusionCpu /\ Sitios
  BY DEF IInv, TypeOK
<1>2. /\ Sitios' /\ pc["disp"] = "escuchar" /\ pc'["disp"] = "encolar"
      /\ \A h \in Hilos : h # "disp" => pc'[h] = pc[h]
  <2>1. "encolar" \in Lugares["disp"] /\ "disp" \in Hilos
    BY <1>1 DEF Lugares, Pasando, Hilos, APasar
  <2>2. Ir("disp", "escuchar", "encolar")
    OBVIOUS
  <2> HIDE DEF RecibirInterrumpido
  <2> QED BY <1>1, <2>1, <2>2, IrSitios
<1>3. sem' \in [Semaforos -> Nat] /\ sem' = sem
  BY <1>1 DEF TypeOK
<1>4. /\ Head(devueltos) \in Devuelto /\ Head(devueltos).proc \in Procesos
      /\ devueltos' \in Seq(Devuelto) /\ Len(devueltos') = Len(devueltos) - 1
      /\ ejecutando' = FALSE /\ tabla' \in [Procesos -> Tablas]
      /\ viejo' \in [Hilos -> BOOLEAN]
  <2>1. devueltos \in Seq(Devuelto) /\ Len(devueltos) > 0
    BY <1>1, NoVacia DEF TypeOK, Recibir
  <2>2. /\ Head(devueltos) \in Devuelto /\ Tail(devueltos) \in Seq(Devuelto)
        /\ Len(Tail(devueltos)) = Len(devueltos) - 1
    BY <2>1, CabezaYCola
  <2>3. Head(devueltos).proc \in Procesos /\ Head(devueltos).tabla \in Tablas
    BY <2>2 DEF Devuelto
  <2> QED BY <1>1, <2>2, <2>3 DEF TypeOK, Recibir
<1>5. /\ en' \in [Hilos -> Procesos \union {Nadie}] /\ en'["disp"] \in Procesos
      /\ \A h \in Hilos : h # "disp" => en'[h] = en[h]
  BY <1>1, <1>4 DEF TypeOK, Tomar, Hilos
<1>6. restante' \in [Procesos -> Int]
  <2>1. PICK e \in Estimaciones \union {restante[Head(devueltos).proc]} :
            restante' = [restante EXCEPT ![Head(devueltos).proc] = e]
    OBVIOUS
  <2>2. e \in Int
    BY <1>1, <1>4, <2>1, ConstantesOK DEF TypeOK, ConstantesOK
  <2> QED BY <1>1, <2>1, <2>2 DEF TypeOK
<1>7. /\ Atendiendo' = Atendiendo + 1
      /\ UNCHANGED <<Planificando, Extrayendo, Admitiendo, Sirviendo, Desuspendiendo,
                     Empujan>>
  <2> HIDE DEF RecibirInterrumpido
  <2> QED BY <1>1, <1>2 DEF Empujan, Empujando, Planificando, Extrayendo, Admitiendo,
             Sirviendo, Desuspendiendo, Atendiendo, Ind, Pasando, Hilos, APasar
<1>8. TypeOK'
  BY <1>1, <1>2, <1>3, <1>4, <1>5, <1>6, <1>7 DEF TypeOK
<1>9. Punteros'
  BY <1>1, <1>2, <1>3, <1>4, <1>5, <1>6, <1>7 DEF Punteros, TypeOK, Hilos, APasar,
     Pasando
<1>10. SemaforosExactos'
  <2>1. UNCHANGED <<new, ready, blocked, susp_ready>>
    OBVIOUS
  <2> HIDE DEF RecibirInterrumpido
  <2>2. SemNew' /\ SemReady' /\ SemBloqueados' /\ SemSuspReady'
    BY <1>1, <1>2, <1>3, <1>4, <1>5, <1>6, <1>7, <2>1, Naturales,
       Contadores DEF SemaforosExactos, SemNew, SemReady, SemBloqueados, SemSuspReady,
       Semaforos
  <2> QED BY <2>2 DEF SemaforosExactos
<1>11. ExclusionCpu'
  <2>1. Len(despacho)' = Len(despacho)
    BY DEF Recibir
  <2> HIDE DEF RecibirInterrumpido
  <2>2. /\ sem["planificacion"] \in Nat /\ sem'["planificacion"] \in Nat
        /\ Len(despacho) \in Nat
        /\ Len(devueltos) \in Nat /\ sem'["planificacion"] = sem["planificacion"]
        /\ ExclusionCpu
    BY <1>1, <1>3, Naturales DEF Semaforos
  <2>3. /\ Planificando \in Nat /\ Planificando' \in Nat /\ Planificando' = Planificando
        /\ Atendiendo \in Nat /\ Atendiendo' \in Nat /\ Atendiendo' = Atendiendo + 1
    BY <1>7, Contadores
  <2> QED BY <1>4, <2>1, <2>2, <2>3 DEF ExclusionCpu
<1> QED BY <1>8, <1>9, <1>10, <1>11 DEF IInv

\* The finished process leaves, the token goes to the listener.
LEMMA RecibirExitInv == ASSUME IInv, RecibirExit PROVE IInv'
<1> USE DEF RecibirExit, mundo, colas, hilos, pcbs, memoria, cpu
<1>1. TypeOK /\ Punteros /\ SemaforosExactos /\ ExclusionCpu /\ Sitios
  BY DEF IInv, TypeOK
<1>2. /\ Sitios' /\ pc["disp"] = "escuchar" /\ pc'["disp"] = "liberar"
      /\ \A h \in Hilos : h # "disp" => pc'[h] = pc[h]
  <2>1. "liberar" \in Lugares["disp"] /\ "disp" \in Hilos
    BY <1>1 DEF Lugares, Pasando, Hilos, APasar
  <2>2. Ir("disp", "escuchar", "liberar")
    OBVIOUS
  <2> HIDE DEF RecibirExit
  <2> QED BY <1>1, <2>1, <2>2, IrSitios
<1>3. /\ sem' \in [Semaforos -> Nat]
      /\ sem'["multiprogramacion"] = sem["multiprogramacion"] + 1
      /\ \A r \in Semaforos : r # "multiprogramacion" => sem'[r] = sem[r]
  <2>1. Post("multiprogramacion") /\ "multiprogramacion" \in Semaforos
    BY DEF Semaforos
  <2> HIDE DEF RecibirExit
  <2> QED BY <1>1, <2>1, PostTipo DEF TypeOK
<1>4. /\ Head(devueltos) \in Devuelto /\ Head(devueltos).proc \in Procesos
      /\ devueltos' \in Seq(Devuelto) /\ Len(devueltos') = Len(devueltos) - 1
      /\ ejecutando' = FALSE /\ tabla' \in [Procesos -> Tablas]
      /\ viejo' \in [Hilos -> BOOLEAN]
  <2>1. devueltos \in Seq(Devuelto) /\ Len(devueltos) > 0
    BY <1>1, NoVacia DEF TypeOK, Recibir
  <2>2. /\ Head(devueltos) \in Devuelto /\ Tail(devueltos) \in Seq(Devuelto)
        /\ Len(Tail(devueltos)) = Len(devueltos) - 1
    BY <2>1, CabezaYCola
  <2>3. Head(devueltos).proc \in Procesos /\ Head(devueltos).tabla \in Tablas
    BY <2>2 DEF Devuelto
  <2> QED BY <1>1, <2>2, <2>3 DEF TypeOK, Recibir
<1>5. /\ Atendiendo' = Atendiendo + 1
      /\ UNCHANGED <<Planificando, Extrayendo, Admitiendo, Sirviendo, Desuspendiendo,
                     Empujan>>
  <2> HIDE DEF RecibirExit
  <2> QED BY <1>1, <1>2 DEF Empujan, Empujando, Planificando, Extrayendo, Admitiendo,
             Sirviendo, Desuspendiendo, Atendiendo, Ind, Pasando, Hilos, APasar
<1>6. TypeOK'
  BY <1>1, <1>2, <1>3, <1>4, <1>5 DEF TypeOK
<1>7. Punteros'
  BY <1>1, <1>2, <1>3, <1>4, <1>5 DEF Punteros, TypeOK, Hilos, APasar, Pasando
<1>8. SemaforosExactos'
  <2>1. UNCHANGED <<new, ready, blocked, susp_ready>>
    OBVIOUS
  <2> HIDE DEF RecibirExit
  <2>2. SemNew' /\ SemReady' /\ SemBloqueados' /\ SemSuspReady'
    BY <1>1, <1>2, <1>3, <1>4, <1>5, <2>1, Naturales, Contadores DEF SemaforosExactos,
       SemNew, SemReady, SemBloqueados, SemSuspReady, Semaforos
  <2> QED BY <2>2 DEF SemaforosExactos
<1>9. ExclusionCpu'
  <2>1. Len(despacho)' = Len(despacho)
    BY DEF Recibir
  <2> HIDE DEF RecibirExit
  <2>2. /\ sem["planificacion"] \in Nat /\ sem'["planificacion"] \in Nat
        /\ Len(despacho) \in Nat
        /\ Len(devueltos) \in Nat /\ sem'["planificacion"] = sem["planificacion"]
        /\ ExclusionCpu
    BY <1>1, <1>3, Naturales DEF Semaforos
  <2>3. /\ Planificando \in Nat /\ Planificando' \in Nat /\ Planificando' = Planificando
        /\ Atendiendo \in Nat /\ Atendiendo' \in Nat /\ Atendiendo' = Atendiendo + 1
    BY <1>5, Contadores
  <2> QED BY <1>4, <2>1, <2>2, <2>3 DEF ExclusionCpu
<1> QED BY <1>6, <1>7, <1>8, <1>9 DEF IInv

\* The listener posts the token it holds.
LEMMA LiberarCpuInv == ASSUME IInv, LiberarCpu PROVE IInv'
<1> USE DEF LiberarCpu, mundo, colas, hilos, pcbs, memoria, cpu
<1>1. TypeOK /\ Punteros /\ SemaforosExactos /\ ExclusionCpu /\ Sitios
  BY DEF IInv, TypeOK
<1>2. /\ Sitios' /\ pc["disp"] = "liberar" /\ pc'["disp"] = "escuchar"
      /\ \A h \in Hilos : h # "disp" => pc'[h] = pc[h]
  <2>1. "escuchar" \in Lugares["disp"] /\ "disp" \in Hilos
    BY <1>1 DEF Lugares, Pasando, Hilos, APasar
  <2>2. Ir("disp", "liberar", "escuchar")
    OBVIOUS
  <2> HIDE DEF LiberarCpu
  <2> QED BY <1>1, <2>1, <2>2, IrSitios
<1>3. /\ sem' \in [Semaforos -> Nat] /\ sem'["planificacion"] = sem["planificacion"] + 1
      /\ \A r \in Semaforos : r # "planificacion" => sem'[r] = sem[r]
  <2>1. Post("planificacion") /\ "planificacion" \in Semaforos
    BY DEF Semaforos
  <2> HIDE DEF LiberarCpu
  <2> QED BY <1>1, <2>1, PostTipo DEF TypeOK
<1>4. /\ Atendiendo' = Atendiendo - 1
      /\ UNCHANGED <<Planificando, Extrayendo, Admitiendo, Sirviendo, Desuspendiendo,
                     Empujan>>
  <2> HIDE DEF LiberarCpu
  <2> QED BY <1>1, <1>2 DEF Empujan, Empujando, Planificando, Extrayendo, Admitiendo,
             Sirviendo, Desuspendiendo, Atendiendo, Ind, Pasando, Hilos, APasar
<1>5. TypeOK'
  BY <1>1, <1>2, <1>3, <1>4 DEF TypeOK
<1>6. Punteros'
  BY <1>1, <1>2, <1>3, <1>4 DEF Punteros, TypeOK, Hilos, APasar, Pasando
<1>7. SemaforosExactos'
  <2>1. UNCHANGED <<new, ready, blocked, susp_ready>>
    OBVIOUS
  <2> HIDE DEF LiberarCpu
  <2>2. SemNew' /\ SemReady' /\ SemBloqueados' /\ SemSuspReady'
    BY <1>1, <1>2, <1>3, <1>4, <2>1, Naturales, Contadores DEF SemaforosExactos,
       SemNew, SemReady, SemBloqueados, SemSuspReady, Semaforos
  <2> QED BY <2>2 DEF SemaforosExactos
<1>8. ExclusionCpu'
  <2>1. Len(despacho)' = Len(despacho) /\ Len(devueltos)' = Len(devueltos)
    OBVIOUS
  <2> HIDE DEF LiberarCpu
  <2>2. /\ sem["planificacion"] \in Nat /\ sem'["planificacion"] \in Nat
        /\ Len(despacho) \in Nat
        /\ Len(devueltos) \in Nat /\ sem'["planificacion"] = sem["planificacion"] + 1
        /\ ExclusionCpu
    BY <1>1, <1>3, Naturales DEF Semaforos
  <2>3. /\ Planificando \in Nat /\ Planificando' \in Nat /\ Planificando' = Planificando
        /\ Atendiendo \in Nat /\ Atendiendo' \in Nat /\ Atendiendo' = Atendiendo - 1
    BY <1>4, Contadores
  <2> QED BY <2>1, <2>2, <2>3 DEF ExclusionCpu
<1> QED BY <1>5, <1>6, <1>7, <1>8 DEF IInv

\* The CPU moves the head of the PCBs sent to it to the PCBs it has returned.
LEMMA DevolverTipo ==
  ASSUME despacho \in Seq(PCB), devueltos \in Seq(Devuelto),
         NEW op \in {"BLOQUEO_IO", "INTERRUPCION", "EXIT"}, Devolver(op)
  PROVE  /\ despacho' \in Seq(PCB) /\ Len(despacho') = Len(despacho) - 1
         /\ devueltos' \in Seq(Devuelto) /\ Len(devueltos') = Len(devueltos) + 1
<1>1. Len(despacho) > 0
  BY NoVacia DEF Devolver
<1>2. /\ Head(despacho) \in PCB /\ Tail(despacho) \in Seq(PCB)
      /\ Len(Tail(despacho)) = Len(despacho) - 1
  BY <1>1, CabezaYCola
<1> DEFINE r == [op |-> op, proc |-> Head(despacho).proc, tabla |-> Head(despacho).tabla]
<1>3. r \in Devuelto
  BY <1>2 DEF PCB, Devuelto
<1>4. despacho' = Tail(despacho) /\ devueltos' = Append(devueltos, r)
  BY DEF Devolver
<1> HIDE DEF r
<1> QED BY <1>2, <1>3, <1>4, Agregar

\* The CPU returns a PCB with BLOQUEO_IO: the token travels with it.
LEMMA CpuBloqueoInv == ASSUME IInv, CpuBloqueo PROVE IInv'
<1> USE DEF CpuBloqueo, Devolver, mundo, colas, hilos, pcbs, memoria, cpu
<1>1. TypeOK /\ Punteros /\ SemaforosExactos /\ ExclusionCpu /\ Sitios
  BY DEF IInv, TypeOK
<1>2. Sitios' /\ pc' = pc
  BY <1>1 DEF Sitios
<1>3. sem' \in [Semaforos -> Nat] /\ sem' = sem
  BY <1>1 DEF TypeOK
<1>4. /\ despacho' \in Seq(PCB) /\ Len(despacho') = Len(despacho) - 1
      /\ devueltos' \in Seq(Devuelto) /\ Len(devueltos') = Len(devueltos) + 1
  BY <1>1, DevolverTipo DEF TypeOK
<1>5. irq' \in Nat
  BY <1>1 DEF TypeOK
<1>6. UNCHANGED <<Planificando, Extrayendo, Admitiendo, Sirviendo, Desuspendiendo,
                  Atendiendo, Empujan>>
  <2> HIDE DEF CpuBloqueo
  <2> QED BY <1>1, <1>2 DEF Empujan, Empujando, Planificando, Extrayendo, Admitiendo,
             Sirviendo, Desuspendiendo, Atendiendo, Ind, Pasando, Hilos, APasar
<1>7. TypeOK'
  BY <1>1, <1>2, <1>3, <1>4, <1>5, <1>6 DEF TypeOK
<1>8. Punteros'
  BY <1>1, <1>2, <1>3, <1>4, <1>5, <1>6 DEF Punteros, TypeOK, Hilos, APasar, Pasando
<1>9. SemaforosExactos'
  <2>1. UNCHANGED <<new, ready, blocked, susp_ready>>
    BY DEF Devolver
  <2> HIDE DEF CpuBloqueo, Devolver
  <2>2. SemNew' /\ SemReady' /\ SemBloqueados' /\ SemSuspReady'
    BY <1>1, <1>2, <1>3, <1>4, <1>5, <1>6, <2>1, Naturales,
       Contadores DEF SemaforosExactos, SemNew, SemReady, SemBloqueados, SemSuspReady,
       Semaforos
  <2> QED BY <2>2 DEF SemaforosExactos
<1>10. ExclusionCpu'
  <2> HIDE DEF CpuBloqueo, Devolver
  <2>2. /\ sem["planificacion"] \in Nat /\ sem'["planificacion"] \in Nat
        /\ Len(despacho) \in Nat
        /\ Len(devueltos) \in Nat /\ sem'["planificacion"] = sem["planificacion"]
        /\ ExclusionCpu
    BY <1>1, <1>3, Naturales DEF Semaforos
  <2>3. /\ Planificando \in Nat /\ Planificando' \in Nat /\ Planificando' = Planificando
        /\ Atendiendo \in Nat /\ Atendiendo' \in Nat /\ Atendiendo' = Atendiendo
    BY <1>6, Contadores
  <2> QED BY <1>4, <2>2, <2>3 DEF ExclusionCpu
<1> QED BY <1>7, <1>8, <1>9, <1>10 DEF IInv

\* The CPU returns a PCB with EXIT.
LEMMA CpuExitInv == ASSUME IInv, CpuExit PROVE IInv'
<1> USE DEF CpuExit, Devolver, mundo, colas, hilos, pcbs, memoria, cpu
<1>1. TypeOK /\ Punteros /\ SemaforosExactos /\ ExclusionCpu /\ Sitios
  BY DEF IInv, TypeOK
<1>2. Sitios' /\ pc' = pc
  BY <1>1 DEF Sitios
<1>3. sem' \in [Semaforos -> Nat] /\ sem' = sem
  BY <1>1 DEF TypeOK
<1>4. /\ despacho' \in Seq(PCB) /\ Len(despacho') = Len(despacho) - 1
      /\ devueltos' \in Seq(Devuelto) /\ Len(devueltos') = Len(devueltos) + 1
  BY <1>1, DevolverTipo DEF TypeOK
<1>5. irq' \in Nat
  BY <1>1 DEF TypeOK
<1>6. UNCHANGED <<Planificando, Extrayendo, Admitiendo, Sirviendo, Desuspendiendo,
                  Atendiendo, Empujan>>
  <2> HIDE DEF CpuExit
  <2> QED BY <1>1, <1>2 DEF Empujan, Empujando, Planificando, Extrayendo, Admitiendo,
             Sirviendo, Desuspendiendo, Atendiendo, Ind, Pasando, Hilos, APasar
<1>7. TypeOK'
  BY <1>1, <1>2, <1>3, <1>4, <1>5, <1>6 DEF TypeOK
<1>8. Punteros'
  BY <1>1, <1>2, <1>3, <1>4, <1>5, <1>6 DEF Punteros, TypeOK, Hilos, APasar, Pasando
<1>9. SemaforosExactos'
  <2>1. UNCHANGED <<new, ready, blocked, susp_ready>>
    BY DEF Devolver
  <2> HIDE DEF CpuExit, Devolver
  <2>2. SemNew' /\ SemReady' /\ SemBloqueados' /\ SemSuspReady'
    BY <1>1, <1>2, <1>3, <1>4, <1>5, <1>6, <2>1, Naturales,
       Contadores DEF SemaforosExactos, SemNew, SemReady, SemBloqueados, SemSuspReady,
       Semaforos
  <2> QED BY <2>2 DEF SemaforosExactos
<1>10. ExclusionCpu'
  <2> HIDE DEF CpuExit, Devolver
  <2>2. /\ sem["planificacion"] \in Nat /\ sem'["planificacion"] \in Nat
        /\ Len(despacho) \in Nat
        /\ Len(devueltos) \in Nat /\ sem'["planificacion"] = sem["planificacion"]
        /\ ExclusionCpu
    BY <1>1, <1>3, Naturales DEF Semaforos
  <2>3. /\ Planificando \in Nat /\ Planificando' \in Nat /\ Planificando' = Planificando
        /\ Atendiendo \in Nat /\ Atendiendo' \in Nat /\ Atendiendo' = Atendiendo
    BY <1>6, Contadores
  <2> QED BY <1>4, <2>2, <2>3 DEF ExclusionCpu
<1> QED BY <1>7, <1>8, <1>9, <1>10 DEF IInv

\* The CPU returns a PCB with INTERRUPCION.
LEMMA CpuInterrumpeInv == ASSUME IInv, CpuInterrumpe PROVE IInv'
<1> USE DEF CpuInterrumpe, Devolver, mundo, colas, hilos, pcbs, memoria, cpu
<1>1. TypeOK /\ Punteros /\ SemaforosExactos /\ ExclusionCpu /\ Sitios
  BY DEF IInv, TypeOK
<1>2. Sitios' /\ pc' = pc
  BY <1>1 DEF Sitios
<1>3. sem' \in [Semaforos -> Nat] /\ sem' = sem
  BY <1>1 DEF TypeOK
<1>4. /\ despacho' \in Seq(PCB) /\ Len(despacho') = Len(despacho) - 1
      /\ devueltos' \in Seq(Devuelto) /\ Len(devueltos') = Len(devueltos) + 1
  BY <1>1, DevolverTipo DEF TypeOK
<1>5. irq' \in Nat
  BY <1>1 DEF TypeOK
<1>6. UNCHANGED <<Planificando, Extrayendo, Admitiendo, Sirviendo, Desuspendiendo,
                  Atendiendo, Empujan>>
  <2> HIDE DEF CpuInterrumpe
  <2> QED BY <1>1, <1>2 DEF Empujan, Empujando, Planificando, Extrayendo, Admitiendo,
             Sirviendo, Desuspendiendo, Atendiendo, Ind, Pasando, Hilos, APasar
<1>7. TypeOK'
  BY <1>1, <1>2, <1>3, <1>4, <1>5, <1>6 DEF TypeOK
<1>8. Punteros'
  BY <1>1, <1>2, <1>3, <1>4, <1>5, <1>6 DEF Punteros, TypeOK, Hilos, APasar, Pasando
<1>9. SemaforosExactos'
  <2>1. UNCHANGED <<new, ready, blocked, susp_ready>>
    BY DEF Devolver
  <2> HIDE DEF CpuInterrumpe, Devolver
  <2>2. SemNew' /\ SemReady' /\ SemBloqueados' /\ SemSuspReady'
    BY <1>1, <1>2, <1>3, <1>4, <1>5, <1>6, <2>1, Naturales,
       Contadores DEF SemaforosExactos, SemNew, SemReady, SemBloqueados, SemSuspReady,
       Semaforos
  <2> QED BY <2>2 DEF SemaforosExactos
<1>10. ExclusionCpu'
  <2> HIDE DEF CpuInterrumpe, Devolver
  <2>2. /\ sem["planificacion"] \in Nat /\ sem'["planificacion"] \in Nat
        /\ Len(despacho) \in Nat
        /\ Len(devueltos) \in Nat /\ sem'["planificacion"] = sem["planificacion"]
        /\ ExclusionCpu
    BY <1>1, <1>3, Naturales DEF Semaforos
  <2>3. /\ Planificando \in Nat /\ Planificando' \in Nat /\ Planificando' = Planificando
        /\ Atendiendo \in Nat /\ Atendiendo' \in Nat /\ Atendiendo' = Atendiendo
    BY <1>6, Contadores
  <2> QED BY <1>4, <2>2, <2>3 DEF ExclusionCpu
<1> QED BY <1>7, <1>8, <1>9, <1>10 DEF IInv

\* A console's process enters new and is counted.
LEMMA AtenderConsolaInv ==
  ASSUME IInv, NEW p \in Procesos, AtenderConsola(p)
  PROVE IInv'
<1> USE DEF AtenderConsola, mundo, colas, hilos, pcbs, memoria, cpu
<1>1. TypeOK /\ Punteros /\ SemaforosExactos /\ ExclusionCpu /\ Sitios
  BY DEF IInv, TypeOK
<1>2. Sitios' /\ pc' = pc
  BY <1>1 DEF Sitios
<1>3. /\ sem' \in [Semaforos -> Nat] /\ sem'["new"] = sem["new"] + 1
      /\ \A r \in Semaforos : r # "new" => sem'[r] = sem[r]
  <2>1. Post("new") /\ "new" \in Semaforos
    BY DEF Semaforos
  <2> HIDE DEF AtenderConsola
  <2> QED BY <1>1, <2>1, PostTipo DEF TypeOK
<1>4. new' \in Seq(Procesos) /\ Len(new') = Len(new) + 1
  BY <1>1, Agregar DEF TypeOK
<1>5. UNCHANGED <<Planificando, Extrayendo, Admitiendo, Sirviendo, Desuspendiendo,
                  Atendiendo, Empujan>>
  <2> HIDE DEF AtenderConsola
  <2> QED BY <1>1, <1>2 DEF Empujan, Empujando, Planificando, Extrayendo, Admitiendo,
             Sirviendo, Desuspendiendo, Atendiendo, Ind, Pasando, Hilos, APasar
<1>6. TypeOK'
  BY <1>1, <1>2, <1>3, <1>4, <1>5 DEF TypeOK
<1>7. Punteros'
  BY <1>1, <1>2, <1>3, <1>4, <1>5 DEF Punteros, TypeOK, Hilos, APasar, Pasando
<1>8. SemaforosExactos'
  <2>1. UNCHANGED <<ready, blocked, susp_ready>>
    OBVIOUS
  <2> HIDE DEF AtenderConsola
  <2>2. SemNew'
    <3>1. /\ sem["new"] \in Nat /\ sem'["new"] \in Nat /\ Len(new) \in Nat
          /\ sem'["new"] = sem["new"] + 1 /\ SemNew
      BY <1>1, <1>3, <2>1, Naturales DEF Semaforos, SemaforosExactos
    <3>2. /\ Admitiendo \in Nat /\ Admitiendo' \in Nat /\ Admitiendo' = Admitiendo
      BY <1>5, Contadores
        <3> QED BY <1>4, <3>1, <3>2 DEF SemNew
  <2>3. SemReady' /\ SemBloqueados' /\ SemSuspReady'
    BY <1>1, <1>2, <1>3, <1>4, <1>5, <2>1, Naturales, Contadores DEF SemaforosExactos,
       SemReady, SemBloqueados, SemSuspReady, Semaforos
  <2> QED BY <2>2, <2>3 DEF SemaforosExactos
<1>9. ExclusionCpu'
  <2>1. Len(despacho)' = Len(despacho) /\ Len(devueltos)' = Len(devueltos)
    OBVIOUS
  <2> HIDE DEF AtenderConsola
  <2>2. /\ sem["planificacion"] \in Nat /\ sem'["planificacion"] \in Nat
        /\ Len(despacho) \in Nat
        /\ Len(devueltos) \in Nat /\ sem'["planificacion"] = sem["planificacion"]
        /\ ExclusionCpu
    BY <1>1, <1>3, Naturales DEF Semaforos
  <2>3. /\ Planificando \in Nat /\ Planificando' \in Nat /\ Planificando' = Planificando
        /\ Atendiendo \in Nat /\ Atendiendo' \in Nat /\ Atendiendo' = Atendiendo
    BY <1>5, Contadores
  <2> QED BY <2>1, <2>2, <2>3 DEF ExclusionCpu
<1> QED BY <1>6, <1>7, <1>8, <1>9 DEF IInv

-----------------------------------------------------------------------------
(* From the steps to the theorems.                                         *)

\* Empty queues, semaphores at zero, and the token in its semaphore.
LEMMA InicioInv == Init => IInv
<1> SUFFICES ASSUME Init PROVE IInv
  OBVIOUS
<1>1. TypeOK
  <2>1. sem \in [Semaforos -> Nat]
    BY ConstantesOK DEF Init, ConstantesOK
  <2>2. Sitios
    BY DEF Init, Sitios, Inicio, Lugares, Hilos
  <2>3. restante \in [Procesos -> Int]
    BY ConstantesOK DEF Init, ConstantesOK
  <2>4. /\ new \in Seq(Procesos) /\ ready \in Seq(Procesos)
        /\ susp_ready \in Seq(Procesos)
        /\ bloqueos \in Seq(Bloqueo) /\ blocked \in Seq(DOMAIN bloqueos)
        /\ respuestas \in Seq(Nat) /\ tablas \in Seq(Procesos)
        /\ despacho \in Seq(PCB) /\ devueltos \in Seq(Devuelto)
    BY DEF Init
  <2>5. /\ en \in [Hilos -> Procesos \union {Nadie}] /\ viejo \in [Hilos -> BOOLEAN]
        /\ tabla \in [Procesos -> Tablas]
    BY DEF Init, Tablas
  <2> QED BY <2>1, <2>2, <2>3, <2>4, <2>5 DEF Init, TypeOK
<1>2. Punteros
  BY DEF Init, Punteros, Inicio, APasar, Pasando
<1>3. /\ Planificando = 0 /\ Extrayendo = 0 /\ Admitiendo = 0 /\ Sirviendo = 0
      /\ Desuspendiendo = 0 /\ Atendiendo = 0 /\ Empujan = 0
  BY DEF Init, Inicio, Ind, Pasando, Planificando, Extrayendo, Admitiendo, Sirviendo, Desuspendiendo, Atendiendo, Empujan, Empujando
<1>4. /\ sem["planificacion"] = 1 /\ sem["new"] = 0 /\ sem["ready"] = 0
      /\ sem["bloqueados"] = 0 /\ sem["susp_ready"] = 0
  BY DEF Init, Semaforos
<1>5. /\ Len(new) = 0 /\ Len(ready) = 0 /\ Len(blocked) = 0 /\ Len(susp_ready) = 0
      /\ Len(despacho) = 0 /\ Len(devueltos) = 0
  BY DEF Init
<1>6. SemaforosExactos
  BY <1>3, <1>4, <1>5 DEF SemaforosExactos, SemNew, SemReady, SemBloqueados,
     SemSuspReady
<1>7. ExclusionCpu
  BY <1>3, <1>4, <1>5 DEF ExclusionCpu
<1> QED BY <1>1, <1>2, <1>6, <1>7 DEF IInv

\* Every step of pasar_a_ready, by whichever thread.
LEMMA PasarAReadyInv == ASSUME IInv, NEW t \in APasar, PasarAReady(t) PROVE IInv'
  BY EncolarInv, PedirTablaInv, RecibirTablaInv, InterrumpirInv, PostReadyInv
     DEF PasarAReady

\* Every step of the short-term scheduler.
LEMMA PlanificadorInv == ASSUME IInv, Planificador PROVE IInv'
  BY EsperarCpuInv, EsperarReadyInv, ExtraerInv, EnviarInv, MarcarInv DEF Planificador

\* Every step of the long-term scheduler.
LEMMA LargoPlazoInv == ASSUME IInv, LargoPlazo PROVE IInv'
<1>1. "ltp" \in APasar
  BY DEF APasar
<1> QED BY <1>1, EsperarNewInv, EsperarGradoInv, AdmitirNuevoInv, CederLugarInv,
           PasarAReadyInv DEF LargoPlazo

\* Every step of the I/O device.
LEMMA DispositivoInv == ASSUME IInv, Dispositivo PROVE IInv'
<1>1. "io" \in APasar /\ "io" \in {"io", "des"}
  BY DEF APasar
<1> QED BY <1>1, IniciarIOInv, TerminarIOInv, SalirAReadyInv, SalirASuspReadyInv,
           PasarAReadyInv, InterrumpirOtraVezInv DEF Dispositivo

\* Every step of the desuspendidor.
LEMMA DesuspendidorInv == ASSUME IInv, Desuspendidor PROVE IInv'
<1>1. "des" \in APasar /\ "des" \in {"io", "des"}
  BY DEF APasar
<1> QED BY <1>1, EsperarSuspReadyInv, EsperarLugarInv, DesuspenderInv, PasarAReadyInv,
           InterrumpirOtraVezInv DEF Desuspendidor

\* Every step of the listener.
LEMMA EscuchaInv == ASSUME IInv, Escucha PROVE IInv'
<1>1. "disp" \in APasar
  BY DEF APasar
<1> QED BY <1>1, RecibirBloqueoInv, RecibirInterrumpidoInv, RecibirExitInv,
           LiberarCpuInv,
           PasarAReadyInv DEF Escucha

\* Every step of a suspender.
LEMMA SuspensorInv == ASSUME IInv, NEW b \in DOMAIN bloqueos, Suspensor(b) PROVE IInv'
  BY VencerInv, BuscarInv, NotificarSuspensionInv, ConfirmarInv DEF Suspensor

\* Every step of the CPU.
LEMMA CpuInv == ASSUME IInv, Cpu PROVE IInv'
  BY CpuBloqueoInv, CpuExitInv, CpuInterrumpeInv DEF Cpu

\* A step that changes nothing keeps the invariant.
LEMMA QuietoInv == ASSUME IInv, UNCHANGED vars PROVE IInv'
<1> USE DEF vars, mundo, colas, hilos, pcbs, memoria, cpu
<1>1. TypeOK'
  BY DEF IInv, TypeOK, Sitios
<1>2. Punteros'
  BY DEF IInv, Punteros
<1>3. SemaforosExactos'
  BY DEF IInv, SemaforosExactos, SemNew, SemReady, SemBloqueados, SemSuspReady,
     Extrayendo,
         Admitiendo, Sirviendo, Desuspendiendo, Empujan, Empujando
<1>4. ExclusionCpu'
  BY DEF IInv, ExclusionCpu, Planificando, Atendiendo
<1> QED BY <1>1, <1>2, <1>3, <1>4 DEF IInv

\* IInv is inductive.
LEMMA SiguienteInv == IInv /\ [Next]_vars => IInv'
<1> SUFFICES ASSUME IInv, [Next]_vars PROVE IInv'
  OBVIOUS
<1>1. CASE \E p \in Procesos : AtenderConsola(p)
  BY <1>1, AtenderConsolaInv
<1>2. CASE Planificador  BY <1>2, PlanificadorInv
<1>3. CASE LargoPlazo    BY <1>3, LargoPlazoInv
<1>4. CASE Dispositivo   BY <1>4, DispositivoInv
<1>5. CASE Desuspendidor BY <1>5, DesuspendidorInv
<1>6. CASE Escucha       BY <1>6, EscuchaInv
<1>7. CASE \E b \in DOMAIN bloqueos : Suspensor(b)
  BY <1>7, SuspensorInv
<1>8. CASE Cpu           BY <1>8, CpuInv
<1>9. CASE UNCHANGED vars
  BY <1>9, QuietoInv
<1> QED BY <1>1, <1>2, <1>3, <1>4, <1>5, <1>6, <1>7, <1>8, <1>9 DEF Next, Paso, Reposo

\* The inductive invariant holds of every behaviour.
LEMMA InvarianteInductivo == Spec => []IInv
<1>1. Init => IInv
  BY InicioInv
<1>2. IInv /\ [Next]_vars => IInv'
  BY SiguienteInv
<1> QED BY <1>1, <1>2, PTL DEF Spec

-----------------------------------------------------------------------------
(* The theorems.                                                           *)

\* Every variable of the kernel keeps its type, and every thread is at a place
\* of its own code, however many processes, places and blockings there are.
THEOREM TipoCorrecto == Spec => []TypeOK
<1>1. IInv => TypeOK
  BY DEF IInv
<1> QED BY <1>1, InvarianteInductivo, PTL

\* No thread of the kernel uses a process pointer it has not got: the scheduler
\* sends a PCB it has extracted, pasar_a_ready runs on a process, and the I/O
\* device serves a blocking (kernel.c:341, 484-521).
THEOREM PunterosValidos == Spec => []Punteros
<1>1. IInv => Punteros
  BY DEF IInv
<1> QED BY <1>1, InvarianteInductivo, PTL

\* sem_planificacion is one token: free, with the scheduler, with the PCB at
\* the CPU, or with the listener that has yet to post it.
THEOREM TestigoUnico == Spec => []ExclusionCpu
<1>1. IInv => ExclusionCpu
  BY DEF IInv
<1> QED BY <1>1, InvarianteInductivo, PTL

\* The CPU holds one process at most, and while it holds one no other is being
\* taken out of ready nor is the listener serving an older return.
UnoEnCpu == /\ Len(despacho) + Len(devueltos) <= 1
            /\ despacho # <<>> => pc["disp"] = "escuchar" /\ pc["stp"] # "enviar"

\* At most one PCB is with the CPU or on its way back: enviar_pcb never
\* overlaps another dispatch (kernel.c:235, 302).
THEOREM CpuParaUno == Spec => []UnoEnCpu
<1>1. IInv => UnoEnCpu
  <2> SUFFICES ASSUME IInv PROVE UnoEnCpu
    OBVIOUS
  <2>1. /\ ExclusionCpu /\ sem["planificacion"] \in Nat
        /\ Len(despacho) \in Nat /\ Len(devueltos) \in Nat
    BY Naturales DEF IInv
  <2>2. Planificando \in Nat /\ Atendiendo \in Nat
    BY Contadores
  <2>3. Len(despacho) + Len(devueltos) <= 1
    BY <2>1, <2>2 DEF ExclusionCpu
  <2>4. ASSUME despacho # <<>> PROVE Planificando = 0 /\ Atendiendo = 0
    <3>1. Len(despacho) > 0
      BY <2>4, NoVacia DEF IInv, TypeOK
    <3> QED BY <2>1, <2>2, <3>1 DEF ExclusionCpu
  <2> QED BY <2>3, <2>4 DEF UnoEnCpu, Planificando, Atendiendo, Ind
<1> QED BY <1>1, InvarianteInductivo, PTL

\* Each counting semaphore is the length of its queue, up to the threads that
\* are between the queue and the semaphore (kernel.c:147-148, 341-345, 506-520).
THEOREM SemaforosCuentan == Spec => []SemaforosExactos
<1>1. IInv => SemaforosExactos
  BY DEF IInv
<1> QED BY <1>1, InvarianteInductivo, PTL

\* So no thread pops an empty queue: queue_pop, list_remove and list_get are
\* only reached with an element there.
SinPopVacio == /\ pc["stp"] = "extraer" => ready # <<>>
               /\ pc["ltp"] = "mirar" => new # <<>>
               /\ pc["io"] = "usleep" => blocked # <<>>
               /\ pc["des"] = "extraer" => susp_ready # <<>>

\* list_pop and queue_pop (kernel.c:232, 341, 427, 553) always find an element.
THEOREM NuncaPopVacio == Spec => []SinPopVacio
<1>1. IInv => SinPopVacio
  <2> SUFFICES ASSUME IInv PROVE SinPopVacio
    OBVIOUS
  <2>1. /\ SemNew /\ SemReady /\ SemBloqueados /\ SemSuspReady
        /\ sem["new"] \in Nat /\ sem["ready"] \in Nat /\ sem["bloqueados"] \in Nat
        /\ sem["susp_ready"] \in Nat
    BY Naturales DEF IInv, SemaforosExactos
  <2>2. ASSUME pc["stp"] = "extraer" PROVE Len(ready) > 0
    <3>1. Extrayendo = 1 /\ Empujan \in Nat
      BY <2>2, Contadores DEF Extrayendo, Ind
    <3> QED BY <2>1, <3>1 DEF SemReady
  <2>3. ASSUME pc["ltp"] = "mirar" PROVE Len(new) > 0
    <3>1. Admitiendo = 1
      BY <2>3 DEF Admitiendo, Ind
    <3> QED BY <2>1, <3>1 DEF SemNew
  <2>4. ASSUME pc["io"] = "usleep" PROVE Len(blocked) > 0
    <3>1. Sirviendo = 1
      BY <2>4 DEF Sirviendo, Ind
    <3> QED BY <2>1, <3>1 DEF SemBloqueados
  <2>5. ASSUME pc["des"] = "extraer" PROVE Len(susp_ready) > 0
    <3>1. Desuspendiendo = 1
      BY <2>5 DEF Desuspendiendo, Ind
    <3> QED BY <2>1, <3>1 DEF SemSuspReady
  <2> QED BY <2>2, <2>3, <2>4, <2>5 DEF SinPopVacio
<1> QED BY <1>1, InvarianteInductivo, PTL

=============================================================================
