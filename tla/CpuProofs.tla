------------------------------ MODULE CpuProofs ------------------------------
(***************************************************************************)
(* What is proved of Cpu, for any set of processes, any programs and any   *)
(* number of interruptions.                                                *)
(***************************************************************************)
EXTENDS Cpu, TLAPS

\* From the fetch of an instruction to the end of its turn, pcb is a PCB and
\* pos one of its instructions.
EnCurso ==
  pcDisp \in {"ejecutar", "check", "decidir"} =>
    pcb \in PCB /\ pos + 1 \in DOMAIN Programa[pcb.proc]

IInv == TypeOK /\ EnCurso /\ UnaSolaCopia /\ EnOrden

-----------------------------------------------------------------------------
(* Sequences of at most one message.                                       *)

\* A socket with something to read has a first message, of the socket's type.
LEMMA Primero ==
  ASSUME NEW S, NEW s \in Seq(S), s # <<>>
  PROVE  Head(s) \in S /\ Tail(s) \in Seq(S) /\ Len(Tail(s)) = Len(s) - 1
         /\ 1 \in DOMAIN s /\ s[1] = Head(s) /\ Len(s) \in Nat /\ Len(s) >= 1
  OBVIOUS

\* A message written to an empty socket is the only one there.
LEMMA Unico ==
  ASSUME NEW S, NEW m \in S
  PROVE  /\ Append(<<>>, m) \in Seq(S) /\ Append(<<>>, m) # <<>>
         /\ Len(Append(<<>>, m)) = 1 /\ Head(Append(<<>>, m)) = m
         /\ \A i \in DOMAIN Append(<<>>, m) : Append(<<>>, m)[i] = m
  OBVIOUS

\* Length zero and the empty socket are the same.
LEMMA Vacia ==
  ASSUME NEW S, NEW s \in Seq(S)
  PROVE  Len(s) \in Nat /\ (Len(s) = 0 <=> s = <<>>)
  OBVIOUS

\* The fields of the message the kernel reads next.
LEMMA CabezaDevueltos ==
  ASSUME TypeOK, devueltos # <<>>
  PROVE  /\ Head(devueltos) \in Devuelto /\ Head(devueltos) = devueltos[1] /\ 1 \in DOMAIN devueltos
         /\ Head(devueltos).proc \in Procesos /\ Head(devueltos).pc \in Nat
<1>1. devueltos \in Seq(Devuelto)
  BY DEF TypeOK
<1>2. Head(devueltos) \in Devuelto /\ Head(devueltos) = devueltos[1] /\ 1 \in DOMAIN devueltos
  BY <1>1, Primero
<1>3. QED
  BY <1>2 DEF Devuelto

\* The fields of the message the CPU reads next.
LEMMA CabezaDispatch ==
  ASSUME TypeOK, dispatch # <<>>
  PROVE  /\ Head(dispatch) \in PCB /\ Head(dispatch) = dispatch[1] /\ 1 \in DOMAIN dispatch
         /\ Head(dispatch).proc \in Procesos /\ Head(dispatch).pc \in Nat
<1>1. dispatch \in Seq(PCB)
  BY DEF TypeOK
<1>2. Head(dispatch) \in PCB /\ Head(dispatch) = dispatch[1] /\ 1 \in DOMAIN dispatch
  BY <1>1, Primero
<1>3. QED
  BY <1>2 DEF PCB

\* While a PCB is in the hands of the dispatch thread both sockets are empty.
LEMMA ManoSola ==
  ASSUME TypeOK, UnaSolaCopia, EnMano
  PROVE  dispatch = <<>> /\ devueltos = <<>>
  BY Vacia DEF TypeOK, UnaSolaCopia

\* A message on one socket excludes the other socket and the hands.
LEMMA SocketSolo ==
  ASSUME TypeOK, UnaSolaCopia
  PROVE  /\ dispatch # <<>>  => devueltos = <<>> /\ ~EnMano /\ Len(dispatch) = 1
         /\ devueltos # <<>> => dispatch = <<>> /\ ~EnMano /\ Len(devueltos) = 1
<1>. DEFINE mano == IF EnMano THEN 1 ELSE 0
            ida == Len(dispatch)
            vuelta == Len(devueltos)
<1>1. ida \in Nat /\ (ida = 0 <=> dispatch = <<>>)
  BY Vacia DEF TypeOK
<1>2. vuelta \in Nat /\ (vuelta = 0 <=> devueltos = <<>>)
  BY Vacia DEF TypeOK
<1>3. mano \in {0, 1} /\ (EnMano => mano = 1)
  OBVIOUS
<1>4. ida + vuelta + mano <= 1
  BY DEF UnaSolaCopia
<1>. HIDE DEF mano, ida, vuelta
<1>5. ida # 0 => vuelta = 0 /\ mano = 0 /\ ida = 1
  BY <1>1, <1>2, <1>3, <1>4
<1>6. vuelta # 0 => ida = 0 /\ mano = 0 /\ vuelta = 1
  BY <1>1, <1>2, <1>3, <1>4
<1>7. /\ dispatch # <<>>  => devueltos = <<>> /\ ~EnMano /\ ida = 1
      /\ devueltos # <<>> => dispatch = <<>> /\ ~EnMano /\ vuelta = 1
  BY <1>1, <1>2, <1>3, <1>5, <1>6
<1>8. QED
  BY <1>7 DEF ida, vuelta

-----------------------------------------------------------------------------
(* The initial state and the steps of the kernel.                          *)

\* Nothing sent, nothing executed.
LEMMA InicioInv == ASSUME Init PROVE IInv
<1>1. pcDisp = "recibir" /\ dispatch = <<>> /\ devueltos = <<>>
  BY DEF Init
<1>2. ~EnMano
  BY <1>1 DEF EnMano
<1>3. TypeOK
  <2>1. dispatch \in Seq(PCB) /\ devueltos \in Seq(Devuelto)
    BY <1>1
  <2>2. contador \in [Procesos -> Nat] /\ ejecutadas \in [Procesos -> Nat]
    BY DEF Init
  <2>3. pedidas \in 0..MaxInterrupciones /\ irq \in Nat /\ sem \in Nat /\ pos \in Nat
    BY ConstantesOK DEF Init
  <2>4. /\ enCpu \in Procesos \union {Nadie} /\ terminados \subseteq Procesos
        /\ pcInt = "recibir" /\ pcb \in PCB \union {SinPCB} /\ interrupcion \in BOOLEAN
    BY DEF Init
  <2>5. QED
    BY <1>1, <2>1, <2>2, <2>3, <2>4 DEF TypeOK
<1>4. UnaSolaCopia
  BY <1>1, <1>2 DEF UnaSolaCopia
<1>5. EnCurso /\ EnOrden
  BY <1>1 DEF Init, EnCurso, EnOrden
<1>6. QED
  BY <1>3, <1>4, <1>5 DEF IInv

\* The kernel sends only with nothing outstanding.
LEMMA DespacharInv == ASSUME IInv, NEW p \in Procesos, Despachar(p) PROVE IInv'
<1>0. TypeOK /\ EnCurso /\ UnaSolaCopia /\ EnOrden /\ p # Nadie /\ enCpu = Nadie
  BY ConstantesOK DEF IInv, Despachar
<1>1. dispatch = <<>> /\ devueltos = <<>> /\ ~EnMano
  <2>1. dispatch # <<>> => Head(dispatch).proc \in Procesos
    BY <1>0, CabezaDispatch
  <2>2. devueltos # <<>> => Head(devueltos).proc \in Procesos
    BY <1>0, CabezaDevueltos
  <2>3. EnMano => pcb.proc \in Procesos
    BY <1>0 DEF EnCurso, EnMano, PCB
  <2>4. QED
    BY <1>0, <2>1, <2>2, <2>3, ConstantesOK DEF UnaSolaCopia
<1>. DEFINE m == [proc |-> p, pc |-> contador[p]]
<1>2. m \in PCB
  BY <1>0 DEF TypeOK, PCB
<1>3. dispatch' = Append(<<>>, m) /\ enCpu' = p
  BY <1>1 DEF Despachar
<1>4. ~EnMano' /\ devueltos' = <<>>
  BY <1>1 DEF Despachar, EnMano, EsIOoEXIT, Instruccion, ciclo
<1>5. TypeOK'
  BY <1>0, <1>2, <1>3, Unico DEF Despachar, TypeOK, ciclo
<1>6. EnCurso'
  BY <1>0 DEF Despachar, EnCurso, ciclo
<1>7. UnaSolaCopia'
  BY <1>2, <1>3, <1>4, Unico DEF UnaSolaCopia
<1>8. EnOrden'
  <2>1. contador[p] = ejecutadas[p]
    BY <1>0 DEF EnOrden
  <2>2. \A i \in DOMAIN dispatch' : dispatch'[i] = m
    BY <1>2, <1>3, Unico
  <2>3. \A i \in DOMAIN dispatch' : dispatch'[i].pc = ejecutadas'[dispatch'[i].proc]
    BY <2>1, <2>2 DEF Despachar
  <2>4. \A q \in Procesos \ {enCpu'} : contador'[q] = ejecutadas'[q]
    BY <1>0, <1>3, ConstantesOK DEF Despachar, EnOrden
  <2>5. QED
    BY <1>0, <1>4, <2>3, <2>4 DEF Despachar, EnOrden, ciclo
<1>9. QED
  BY <1>5, <1>6, <1>7, <1>8 DEF IInv

\* What comes back is the process that was sent, with the counter it reached.
LEMMA RecibirDevueltoInv == ASSUME IInv, RecibirDevuelto PROVE IInv'
<1>0. TypeOK /\ EnCurso /\ UnaSolaCopia /\ EnOrden /\ devueltos # <<>>
  BY DEF IInv, RecibirDevuelto
<1>. DEFINE d == Head(devueltos)
<1>1. d \in Devuelto /\ d.proc \in Procesos /\ d.pc \in Nat /\ d = devueltos[1] /\ 1 \in DOMAIN devueltos
  BY <1>0, CabezaDevueltos
<1>2. dispatch = <<>> /\ ~EnMano /\ Len(devueltos) = 1
  BY <1>0, SocketSolo
<1>3. devueltos' = <<>>
  <2>1. devueltos' \in Seq(Devuelto) /\ Len(devueltos') = 0
    BY <1>0, <1>2, Primero DEF TypeOK, RecibirDevuelto
  <2>2. QED
    BY <2>1, Vacia
<1>4. ~EnMano' /\ dispatch' = <<>>
  BY <1>2 DEF RecibirDevuelto, EnMano, EsIOoEXIT, Instruccion, ciclo
<1>5. TypeOK'
  BY <1>0, <1>1, <1>3 DEF RecibirDevuelto, TypeOK, ciclo
<1>6. EnCurso'
  BY <1>0 DEF RecibirDevuelto, EnCurso, ciclo
<1>7. UnaSolaCopia'
  BY <1>3, <1>4 DEF UnaSolaCopia
<1>8. EnOrden'
  <2>1. d.pc = ejecutadas[d.proc] /\ d.proc = enCpu
    BY <1>0, <1>1 DEF EnOrden, UnaSolaCopia
  <2>2. \A q \in Procesos : contador'[q] = ejecutadas'[q]
    BY <1>0, <1>1, <2>1 DEF RecibirDevuelto, EnOrden, TypeOK
  <2>3. QED
    BY <1>0, <1>3, <1>4, <2>2 DEF RecibirDevuelto, EnOrden, ciclo
<1>9. QED
  BY <1>5, <1>6, <1>7, <1>8 DEF IInv

\* An interruption moves no PCB.
LEMMA InterrumpirInv == ASSUME IInv, Interrumpir PROVE IInv'
<1>0. TypeOK /\ EnCurso /\ UnaSolaCopia /\ EnOrden
  BY DEF IInv
<1>1. TypeOK'
  <2>1. pedidas' \in 0..MaxInterrupciones /\ irq' \in Nat
    BY <1>0, ConstantesOK DEF TypeOK, Interrumpir
  <2>2. QED
    BY <1>0, <2>1 DEF TypeOK, Interrumpir, ciclo
<1>2. EnCurso' /\ UnaSolaCopia' /\ EnOrden'
  BY <1>0 DEF Interrumpir, EnCurso, UnaSolaCopia, EnOrden, EnMano, EsIOoEXIT, Instruccion, ciclo
<1>3. QED
  BY <1>1, <1>2 DEF IInv
-----------------------------------------------------------------------------
(* The dispatch thread.                                                    *)

\* From the socket to the hands: the first instruction fetched is the one the
\* counter names.
LEMMA RecibirPCBInv == ASSUME IInv, RecibirPCB PROVE IInv'
<1>0. TypeOK /\ EnCurso /\ UnaSolaCopia /\ EnOrden /\ dispatch # <<>>
  BY DEF IInv, RecibirPCB
<1>. DEFINE m == Head(dispatch)
<1>1. m \in PCB /\ m.proc \in Procesos /\ m.pc \in Nat /\ m = dispatch[1] /\ 1 \in DOMAIN dispatch
  BY <1>0, CabezaDispatch
<1>2. devueltos = <<>> /\ Len(dispatch) = 1
  BY <1>0, SocketSolo
<1>3. dispatch' = <<>> /\ devueltos' = <<>>
  <2>1. dispatch' \in Seq(PCB) /\ Len(dispatch') = 0
    BY <1>0, <1>2, Primero DEF TypeOK, RecibirPCB
  <2>2. QED
    BY <1>2, <2>1, Vacia DEF RecibirPCB
<1>4. pcb' = m /\ pos' = m.pc /\ pcDisp' \in {"ejecutar", "recibir"}
  BY DEF RecibirPCB
<1>5. TypeOK'
  BY <1>0, <1>1, <1>3, <1>4 DEF RecibirPCB, TypeOK, kernel
<1>6. EnCurso'
  <2>1. SUFFICES ASSUME pcDisp' = "ejecutar"
                 PROVE  pcb' \in PCB /\ pos' + 1 \in DOMAIN Programa[pcb'.proc]
    BY <1>4 DEF EnCurso
  <2>2. pos' < Len(Programa[pcb'.proc])
    BY <2>1 DEF RecibirPCB
  <2>3. Programa[m.proc] \in Seq(Instrucciones)
    BY <1>1, ConstantesOK
  <2>4. QED
    BY <1>1, <1>4, <2>2, <2>3
<1>7. UnaSolaCopia'
  <2>1. m.proc = enCpu' /\ pcb'.proc = enCpu'
    BY <1>0, <1>4 DEF UnaSolaCopia, RecibirPCB, kernel
  <2>2. QED
    BY <1>3, <2>1 DEF UnaSolaCopia
<1>8. EnOrden'
  <2>1. m.pc = ejecutadas[m.proc]
    BY <1>0, <1>1 DEF EnOrden
  <2>2. QED
    BY <1>0, <1>3, <1>4, <2>1 DEF EnOrden, RecibirPCB, kernel
<1>9. QED
  BY <1>5, <1>6, <1>7, <1>8 DEF IInv

\* An instruction and its counter; I/O and EXIT put the PCB on its way back.
LEMMA EjecutarInv == ASSUME IInv, Ejecutar PROVE IInv'
<1>0. TypeOK /\ EnCurso /\ UnaSolaCopia /\ EnOrden /\ EnMano /\ pcDisp = "ejecutar" /\ pcDisp' = "check"
  BY DEF IInv, Ejecutar, EnMano
<1>1. dispatch = <<>> /\ devueltos = <<>> /\ dispatch' = <<>> /\ enCpu' = enCpu /\ pcb.proc = enCpu
  BY <1>0, ManoSola DEF Ejecutar, kernel, UnaSolaCopia
<1>2. pcb \in PCB /\ pcb.proc \in Procesos /\ pcb.pc \in Nat /\ pos + 1 \in DOMAIN Programa[pcb.proc]
  BY <1>0 DEF EnCurso, PCB
<1>3. pcb' = [proc |-> pcb.proc, pc |-> pcb.pc + 1] /\ pcb' \in PCB /\ pos' = pos
  BY <1>2 DEF Ejecutar, PCB
<1>4. ejecutadas' \in [Procesos -> Nat] /\ ejecutadas'[pcb.proc] = pcb.pc + 1
      /\ \A q \in Procesos \ {enCpu} : ejecutadas'[q] = ejecutadas[q]
  BY <1>0, <1>1, <1>2 DEF Ejecutar, EnOrden, TypeOK
<1>5. Instruccion' = Instruccion /\ EsIOoEXIT' = EsIOoEXIT
  BY <1>3 DEF Instruccion, EsIOoEXIT
<1>6. \/ EsIOoEXIT /\ \E m \in Devuelto : /\ devueltos' = Append(<<>>, m)
                                         /\ m.proc = pcb'.proc /\ m.pc = pcb'.pc
      \/ ~EsIOoEXIT /\ devueltos' = <<>>
  <2>1. CASE Instruccion = "I/O"
    <3>. DEFINE m == [op |-> "BLOQUEO_IO", proc |-> pcb'.proc, pc |-> pcb'.pc]
    <3>1. m \in Devuelto
      BY <1>2, <1>3 DEF Devuelto
    <3>2. devueltos' = Append(<<>>, m)
      BY <1>1, <2>1 DEF Ejecutar, Enviar
    <3>3. QED
      BY <2>1, <3>1, <3>2 DEF EsIOoEXIT
  <2>2. CASE Instruccion = "EXIT"
    <3>. DEFINE m == [op |-> "FINALIZACION_PROCESO", proc |-> pcb'.proc, pc |-> pcb'.pc]
    <3>1. m \in Devuelto
      BY <1>2, <1>3 DEF Devuelto
    <3>2. devueltos' = Append(<<>>, m)
      BY <1>1, <2>2 DEF Ejecutar, Enviar
    <3>3. QED
      BY <2>2, <3>1, <3>2 DEF EsIOoEXIT
  <2>3. CASE Instruccion \notin {"I/O", "EXIT"}
    BY <1>1, <2>3 DEF Ejecutar, EsIOoEXIT
  <2>4. QED
    BY <2>1, <2>2, <2>3
<1>7. devueltos' \in Seq(Devuelto)
  <2>1. CASE devueltos' = <<>>
    BY <2>1
  <2>2. CASE \E m \in Devuelto : devueltos' = Append(<<>>, m)
    BY <2>2, Unico
  <2>3. QED
    BY <1>6, <2>1, <2>2
<1>8. TypeOK'
  BY <1>0, <1>1, <1>3, <1>4, <1>7 DEF TypeOK, Ejecutar, kernel
<1>9. EnCurso'
  BY <1>2, <1>3 DEF EnCurso
<1>10. EnMano' <=> ~EsIOoEXIT
  BY <1>0, <1>5 DEF EnMano
<1>11. UnaSolaCopia' /\ \A i \in DOMAIN devueltos' : devueltos'[i].pc = ejecutadas'[devueltos'[i].proc]
  <2>1. CASE EsIOoEXIT
    <3>1. PICK m \in Devuelto : /\ devueltos' = Append(<<>>, m)
                                /\ m.proc = pcb'.proc /\ m.pc = pcb'.pc
      BY <1>6, <2>1
    <3>2. Len(devueltos') = 1 /\ Head(devueltos') = m /\ \A i \in DOMAIN devueltos' : devueltos'[i] = m
      BY <3>1, Unico
    <3>3. QED
      BY <1>1, <1>3, <1>4, <1>10, <2>1, <3>1, <3>2 DEF UnaSolaCopia
  <2>2. CASE ~EsIOoEXIT
    BY <1>1, <1>3, <1>6, <1>10, <2>2 DEF UnaSolaCopia
  <2>3. QED
    BY <2>1, <2>2
<1>12. EnOrden'
  <2>1. \A q \in Procesos \ {enCpu'} : contador'[q] = ejecutadas'[q]
    BY <1>0, <1>1, <1>4 DEF EnOrden, Ejecutar, kernel
  <2>2. pos' = pcb.pc /\ pos \in Nat
    BY <1>0, <1>3 DEF EnOrden, TypeOK
  <2>3. QED
    BY <1>0, <1>1, <1>2, <1>3, <1>4, <1>11, <2>1, <2>2 DEF EnOrden
<1>13. QED
  BY <1>8, <1>9, <1>11, <1>12 DEF IInv

\* The flag sends the PCB only if I/O or EXIT has not sent it already.
LEMMA CheckInterruptInv == ASSUME IInv, CheckInterrupt PROVE IInv'
<1>0. TypeOK /\ EnCurso /\ UnaSolaCopia /\ EnOrden /\ pcDisp = "check" /\ pcDisp' = "decidir"
  BY DEF IInv, CheckInterrupt
<1>1. /\ dispatch' = dispatch /\ enCpu' = enCpu /\ pcb' = pcb /\ pos' = pos
      /\ interrupcion' = interrupcion /\ ejecutadas' = ejecutadas
  BY DEF CheckInterrupt, kernel
<1>2. pcb \in PCB /\ pcb.proc \in Procesos /\ pcb.pc \in Nat
  BY <1>0 DEF EnCurso, PCB
<1>3. EsIOoEXIT' = EsIOoEXIT
  BY <1>1 DEF Instruccion, EsIOoEXIT
<1>4. EnMano <=> ~EsIOoEXIT
  BY <1>0 DEF EnMano
<1>5. EnMano' <=> ~EsIOoEXIT /\ ~interrupcion
  BY <1>0, <1>1, <1>3 DEF EnMano
<1>6. EnCurso'
  BY <1>0, <1>1 DEF EnCurso
<1>7. CASE interrupcion /\ ~EsIOoEXIT
  <2>. DEFINE m == [op |-> "INTERRUPCION", proc |-> pcb.proc, pc |-> pcb.pc]
  <2>1. m \in Devuelto
    BY <1>2 DEF Devuelto
  <2>2. dispatch = <<>> /\ devueltos = <<>>
    BY <1>0, <1>4, <1>7, ManoSola
  <2>3. devueltos' = Append(<<>>, m)
    BY <1>7, <2>2 DEF CheckInterrupt
  <2>4. /\ devueltos' \in Seq(Devuelto) /\ Len(devueltos') = 1 /\ Head(devueltos') = m
        /\ \A i \in DOMAIN devueltos' : devueltos'[i] = m
    BY <2>1, <2>3, Unico
  <2>5. TypeOK'
    BY <1>0, <2>4 DEF TypeOK, CheckInterrupt, kernel
  <2>6. UnaSolaCopia'
    BY <1>0, <1>1, <1>4, <1>5, <1>7, <2>2, <2>4 DEF UnaSolaCopia
  <2>7. EnOrden'
    BY <1>0, <1>1, <2>2, <2>4 DEF EnOrden, CheckInterrupt, kernel
  <2>8. QED
    BY <1>6, <2>5, <2>6, <2>7 DEF IInv
<1>8. CASE ~(interrupcion /\ ~EsIOoEXIT)
  <2>1. devueltos' = devueltos
    BY <1>8 DEF CheckInterrupt
  <2>2. TypeOK'
    BY <1>0, <2>1 DEF TypeOK, CheckInterrupt, kernel
  <2>3. EnMano' <=> EnMano
    BY <1>4, <1>5, <1>8
  <2>4. UnaSolaCopia'
    BY <1>0, <1>1, <2>1, <2>3 DEF UnaSolaCopia
  <2>5. EnOrden'
    BY <1>0, <1>1, <2>1 DEF EnOrden, CheckInterrupt, kernel
  <2>6. QED
    BY <1>6, <2>2, <2>4, <2>5 DEF IInv
<1>9. QED
  BY <1>7, <1>8

\* The next turn keeps the PCB in the hands; leaving the loop lets go of it,
\* whether or not it was sent.
LEMMA DecidirInv == ASSUME IInv, Decidir PROVE IInv'
<1>0. TypeOK /\ EnCurso /\ UnaSolaCopia /\ EnOrden /\ pcDisp = "decidir"
  BY DEF IInv, Decidir
<1>1. /\ dispatch' = dispatch /\ devueltos' = devueltos /\ enCpu' = enCpu /\ pcb' = pcb
      /\ contador' = contador /\ ejecutadas' = ejecutadas /\ interrupcion' = interrupcion
  BY DEF Decidir, kernel, sockets
<1>2. pcb \in PCB /\ pcb.proc \in Procesos /\ pos \in Nat /\ pos + 1 \in DOMAIN Programa[pcb.proc]
  BY <1>0 DEF EnCurso, PCB, TypeOK
<1>3. pcDisp' \in {"limpiar", "ejecutar", "recibir"} /\ pos' \in Nat
  BY <1>2 DEF Decidir
<1>4. TypeOK'
  <2>1. pcInt' = pcInt /\ terminados' = terminados /\ pedidas' = pedidas /\ irq' = irq /\ sem' = sem
    BY DEF Decidir, kernel, sockets
  <2>2. pcDisp' \in {"recibir", "ejecutar", "check", "decidir", "limpiar", "post"}
    BY <1>3
  <2>3. QED
    BY <1>0, <1>1, <1>3, <2>1, <2>2 DEF TypeOK
<1>5. pcDisp' = "ejecutar" => /\ ~interrupcion /\ ~EsIOoEXIT
                             /\ pos' = pos + 1 /\ pos' < Len(Programa[pcb.proc])
  BY <1>1 DEF Decidir
<1>6. EnMano' => pcDisp' = "ejecutar" /\ EnMano
  BY <1>0, <1>3, <1>5 DEF EnMano
<1>7. EnCurso'
  <2>1. Programa[pcb.proc] \in Seq(Instrucciones)
    BY <1>2, ConstantesOK
  <2>2. pcDisp' = "ejecutar" => pos' + 1 \in DOMAIN Programa[pcb.proc]
    BY <1>2, <1>5, <2>1
  <2>3. QED
    BY <1>1, <1>2, <1>3, <2>2 DEF EnCurso
<1>8. UnaSolaCopia'
  <2>1. Len(dispatch) \in Nat /\ Len(devueltos) \in Nat
    BY <1>0, Vacia DEF TypeOK
  <2>2. QED
    BY <1>0, <1>1, <1>6, <2>1 DEF UnaSolaCopia
<1>9. EnOrden'
  BY <1>0, <1>1, <1>3, <1>5 DEF EnOrden
<1>10. QED
  BY <1>4, <1>7, <1>8, <1>9 DEF IInv

\* Clearing the flag and posting the semaphore come after the PCB is let go.
LEMMA LimpiarInv == ASSUME IInv, Limpiar \/ PostInterrupt PROVE IInv'
<1>0. TypeOK /\ EnCurso /\ UnaSolaCopia /\ EnOrden /\ pcDisp \in {"limpiar", "post"}
  BY DEF IInv, Limpiar, PostInterrupt
<1>1. /\ UNCHANGED <<enCpu, contador, terminados, pedidas, dispatch, devueltos, irq, pcb, pos,
                    pcInt, ejecutadas>>
      /\ pcDisp' \in {"post", "recibir"}
  BY DEF Limpiar, PostInterrupt, kernel, sockets
<1>2. ~EnMano /\ ~EnMano'
  BY <1>0, <1>1 DEF EnMano
<1>3. TypeOK'
  <2>1. sem' \in Nat
    BY <1>0 DEF TypeOK, Limpiar, PostInterrupt
  <2>2. interrupcion' \in BOOLEAN
    BY <1>0 DEF TypeOK, Limpiar, PostInterrupt
  <2>3. QED
    BY <1>0, <1>1, <2>1, <2>2 DEF TypeOK
<1>4. UnaSolaCopia'
  BY <1>0, <1>1, <1>2 DEF UnaSolaCopia
<1>5. EnCurso' /\ EnOrden'
  BY <1>0, <1>1 DEF EnCurso, EnOrden
<1>6. QED
  BY <1>3, <1>4, <1>5 DEF IInv

-----------------------------------------------------------------------------
(* The interrupt thread.                                                   *)

\* Setting the flag between the two readings takes the PCB out of the hands of
\* the loop: no copy is made, and one may be lost.
LEMMA InterruptInv == ASSUME IInv, Interrupt PROVE IInv'
<1>0. TypeOK /\ EnCurso /\ UnaSolaCopia /\ EnOrden
  BY DEF IInv
<1>1. /\ UNCHANGED <<enCpu, contador, terminados, pedidas, dispatch, devueltos, pcDisp, pcb, pos,
                    ejecutadas>>
      /\ (interrupcion' = interrupcion \/ interrupcion' = TRUE)
  BY DEF Interrupt, RecibirInterrupcion, EsperarInterrupt, kernel, sockets, ciclo
<1>2. EnMano' => EnMano
  BY <1>0, <1>1 DEF EnMano, EsIOoEXIT, Instruccion, TypeOK
<1>3. TypeOK'
  <2>1. irq' \in Nat /\ sem' \in Nat
    BY <1>0 DEF TypeOK, Interrupt, RecibirInterrupcion, EsperarInterrupt, sockets
  <2>2. pcInt' \in {"recibir", "esperar"} /\ interrupcion' \in BOOLEAN
    BY <1>0 DEF TypeOK, Interrupt, RecibirInterrupcion, EsperarInterrupt
  <2>3. QED
    BY <1>0, <1>1, <2>1, <2>2 DEF TypeOK
<1>4. UnaSolaCopia'
  <2>1. Len(dispatch) \in Nat /\ Len(devueltos) \in Nat
    BY <1>0, Vacia DEF TypeOK
  <2>2. QED
    BY <1>0, <1>1, <1>2, <2>1 DEF UnaSolaCopia
<1>5. EnCurso' /\ EnOrden'
  BY <1>0, <1>1 DEF EnCurso, EnOrden
<1>6. QED
  BY <1>3, <1>4, <1>5 DEF IInv

-----------------------------------------------------------------------------
(* The invariant, and what follows from it.                                *)

\* A step that changes nothing.
LEMMA QuietoInv == ASSUME IInv, UNCHANGED vars PROVE IInv'
<1>1. UNCHANGED <<enCpu, contador, terminados, pedidas, dispatch, devueltos, irq, pcDisp, pcb, pos,
                  pcInt, interrupcion, sem, ejecutadas>>
  BY DEF vars, kernel, sockets, ciclo
<1>2. QED
  BY <1>1 DEF IInv, TypeOK, EnCurso, UnaSolaCopia, EnOrden, EnMano, EsIOoEXIT, Instruccion

\* Every step keeps the invariant.
LEMMA SiguienteInv == IInv /\ [Next]_vars => IInv'
<1>1. SUFFICES ASSUME IInv, [Next]_vars PROVE IInv'
  OBVIOUS
<1>2. CASE \E p \in Procesos : Despachar(p)
  BY <1>1, <1>2, DespacharInv
<1>3. CASE RecibirDevuelto
  BY <1>1, <1>3, RecibirDevueltoInv
<1>4. CASE Interrumpir
  BY <1>1, <1>4, InterrumpirInv
<1>5. CASE Ciclo
  BY <1>1, <1>5, RecibirPCBInv, EjecutarInv, CheckInterruptInv, DecidirInv, LimpiarInv DEF Ciclo
<1>6. CASE Interrupt
  BY <1>1, <1>6, InterruptInv
<1>7. CASE UNCHANGED vars
  BY <1>1, <1>7, QuietoInv
<1>8. QED
  BY <1>1, <1>2, <1>3, <1>4, <1>5, <1>6, <1>7 DEF Next

\* The inductive invariant holds of every behaviour.
THEOREM InvarianteCpu == Spec => []IInv
<1>1. Init => IInv
  BY InicioInv
<1>2. QED
  BY <1>1, SiguienteInv, PTL DEF Spec

\* The variables of both threads, the sockets and the kernel's side keep their
\* types.
THEOREM TipoCorrectoCpu == Spec => []TypeOK
<1>1. IInv => TypeOK
  BY DEF IInv
<1>2. QED
  BY <1>1, InvarianteCpu, PTL

\* A PCB is on one socket, on the other or in the hands of the dispatch thread:
\* whatever the interruptions, it is never given back twice and never executes
\* after being given back.
THEOREM CopiaUnica == Spec => []UnaSolaCopia
<1>1. IInv => UnaSolaCopia
  BY DEF IInv
<1>2. QED
  BY <1>1, InvarianteCpu, PTL

\* No instruction of a process is skipped or repeated, however its execution is
\* cut by I/O and interruptions.
THEOREM InstruccionesEnOrden == Spec => []EnOrden
<1>1. IInv => EnOrden
  BY DEF IInv
<1>2. QED
  BY <1>1, InvarianteCpu, PTL

\* A step of Cpu is a step of the contract or changes nothing of it.
LEMMA PasoDelContrato ==
  IInv /\ [Next]_vars => [Contrato!Next]_(Contrato!vars)
<1>1. SUFFICES ASSUME IInv, [Next]_vars PROVE Contrato!Next \/ UNCHANGED <<enCpu, terminados>>
  BY DEF Contrato!vars
<1>2. ASSUME NEW p \in Procesos, Despachar(p) PROVE Contrato!Next
  BY <1>2 DEF Despachar, Contrato!Next, Contrato!Despachar
<1>3. CASE RecibirDevuelto
  <2>. DEFINE d == Head(devueltos)
  <2>1. TypeOK /\ UnaSolaCopia /\ devueltos # <<>>
    BY <1>1, <1>3 DEF IInv, RecibirDevuelto
  <2>2. d.proc \in Procesos /\ d.proc = enCpu /\ enCpu # Nadie
    BY <2>1, CabezaDevueltos, ConstantesOK DEF UnaSolaCopia
  <2>3. enCpu' = Nadie
        /\ terminados' = IF d.op = "FINALIZACION_PROCESO" THEN terminados \union {enCpu} ELSE terminados
    BY <1>3, <2>2 DEF RecibirDevuelto
  <2>4. QED
    BY <2>2, <2>3 DEF Contrato!Next, Contrato!Devolver, Contrato!Terminar
<1>4. CASE Interrumpir \/ Interrupt \/ Ciclo \/ UNCHANGED vars
  <2>1. CASE Interrumpir
    BY <2>1 DEF Interrumpir
  <2>2. CASE Interrupt
    BY <2>2 DEF Interrupt, RecibirInterrupcion, EsperarInterrupt, kernel
  <2>3. CASE Ciclo
    BY <2>3 DEF Ciclo, RecibirPCB, Ejecutar, CheckInterrupt, Decidir, Limpiar, PostInterrupt, kernel
  <2>4. CASE UNCHANGED vars
    BY <2>4 DEF vars, kernel
  <2>5. QED
    BY <1>4, <2>1, <2>2, <2>3, <2>4
<1>5. QED
  BY <1>1, <1>2, <1>3, <1>4 DEF Next

\* The CPU keeps the safety half of what the kernel relies on it for.
THEOREM CumpleContrato == Spec => ImplementaContratoSeguro
<1>1. Init => Contrato!Init
  BY DEF Init, Contrato!Init
<1>2. QED
  BY <1>1, PasoDelContrato, InvarianteCpu, PTL DEF Spec, ImplementaContratoSeguro

-----------------------------------------------------------------------------
(* The race is the only way to lose a PCB.                                 *)

\* A process the kernel may still send has an instruction left, unless its EXIT
\* is on its way; the one it waits for has not ended.
Quedan ==
  /\ enCpu \notin terminados
  /\ \A p \in Procesos \ terminados :
       \/ ejecutadas[p] < Len(Programa[p])
       \/ /\ devueltos # <<>>
          /\ Head(devueltos).op = "FINALIZACION_PROCESO" /\ Head(devueltos).proc = p

\* What the kernel waits for is on a socket or in the hands of the loop.
Pendiente == enCpu # Nadie => dispatch # <<>> \/ devueltos # <<>> \/ EnMano

\* A program is a sequence of instructions that ends at its EXIT.
LEMMA Fin ==
  ASSUME NEW p \in Procesos, NEW i \in Nat, i + 1 \in DOMAIN Programa[p]
  PROVE  /\ Len(Programa[p]) \in Nat /\ i < Len(Programa[p])
         /\ Programa[p][i + 1] # "EXIT" => i + 1 < Len(Programa[p])
<1>1. Programa[p] \in Seq(Instrucciones)
  BY ConstantesOK
<1>2. Programa[p][i + 1] = "EXIT" <=> i + 1 = Len(Programa[p])
  BY ConstantesOK
<1>3. Len(Programa[p]) \in Nat /\ i + 1 <= Len(Programa[p])
  BY <1>1
<1>4. QED
  BY <1>2, <1>3

\* Nothing is executed or terminated yet.
LEMMA InicioQuedan == ASSUME Init PROVE Quedan
<1>1. SUFFICES ASSUME NEW p \in Procesos PROVE ejecutadas[p] < Len(Programa[p])
  BY DEF Init, Quedan
<1>2. Programa[p] \in Seq(Instrucciones) /\ Programa[p] # <<>>
  BY ConstantesOK
<1>3. Len(Programa[p]) \in Nat /\ Len(Programa[p]) # 0
  BY <1>2, Vacia
<1>4. QED
  BY <1>3 DEF Init

\* The EXIT of a process takes it out of those that may be sent.
LEMMA RecibirDevueltoQuedan == ASSUME IInv, Quedan, RecibirDevuelto PROVE Quedan'
<1>1. TypeOK /\ devueltos # <<>>
  BY DEF IInv, RecibirDevuelto
<1>2. Head(devueltos).proc \in Procesos
  BY <1>1, CabezaDevueltos
<1>3. /\ enCpu' = Nadie /\ ejecutadas' = ejecutadas
      /\ terminados' = IF Head(devueltos).op = "FINALIZACION_PROCESO"
                         THEN terminados \union {Head(devueltos).proc} ELSE terminados
  BY DEF RecibirDevuelto
<1>4. enCpu' \notin terminados'
  BY <1>1, <1>2, <1>3, ConstantesOK DEF TypeOK
<1>5. ASSUME NEW p \in Procesos \ terminados' PROVE ejecutadas'[p] < Len(Programa[p])
  <2>1. p \in Procesos \ terminados
        /\ ~(Head(devueltos).op = "FINALIZACION_PROCESO" /\ Head(devueltos).proc = p)
    BY <1>3, <1>5
  <2>2. QED
    BY <1>3, <2>1 DEF Quedan
<1>6. QED
  BY <1>4, <1>5 DEF Quedan

\* The counter of a process reaches the end of its program with its EXIT.
LEMMA EjecutarQuedan == ASSUME IInv, Quedan, Ejecutar PROVE Quedan'
<1>1. TypeOK /\ EnCurso /\ UnaSolaCopia /\ EnOrden /\ EnMano /\ pcDisp = "ejecutar"
  BY DEF IInv, Ejecutar, EnMano
<1>2. devueltos = <<>> /\ enCpu' = enCpu /\ terminados' = terminados
  BY <1>1, ManoSola DEF Ejecutar, kernel
<1>3. pcb \in PCB /\ pcb.proc \in Procesos /\ pcb.pc \in Nat /\ pos \in Nat
      /\ pos + 1 \in DOMAIN Programa[pcb.proc]
  BY <1>1 DEF EnCurso, PCB, TypeOK
<1>4. ejecutadas'[pcb.proc] = pos + 1
      /\ \A q \in Procesos \ {pcb.proc} : ejecutadas'[q] = ejecutadas[q]
  BY <1>1, <1>3 DEF Ejecutar, EnOrden, TypeOK
<1>5. ASSUME NEW p \in Procesos \ terminados'
      PROVE  \/ ejecutadas'[p] < Len(Programa[p])
             \/ /\ devueltos' # <<>>
                /\ Head(devueltos').op = "FINALIZACION_PROCESO" /\ Head(devueltos').proc = p
  <2>1. CASE p # pcb.proc
    BY <1>2, <1>4, <1>5, <2>1 DEF Quedan
  <2>2. CASE p = pcb.proc /\ Instruccion # "EXIT"
    <3>1. pos + 1 < Len(Programa[p])
      BY <1>3, <2>2, Fin DEF Instruccion
    <3>2. QED
      BY <1>4, <2>2, <3>1
  <2>3. CASE p = pcb.proc /\ Instruccion = "EXIT"
    <3>. DEFINE m == [op |-> "FINALIZACION_PROCESO", proc |-> pcb'.proc, pc |-> pcb'.pc]
    <3>1. pcb' = [proc |-> pcb.proc, pc |-> pcb.pc + 1]
      BY <1>3 DEF Ejecutar, PCB
    <3>2. m \in Devuelto /\ m.op = "FINALIZACION_PROCESO" /\ m.proc = p
      BY <1>3, <2>3, <3>1 DEF Devuelto
    <3>3. devueltos' = Append(<<>>, m)
      BY <1>2, <2>3 DEF Ejecutar, Enviar
    <3>. HIDE DEF m
    <3>4. devueltos' # <<>> /\ Head(devueltos') = m
      BY <3>2, <3>3, Unico
    <3>5. QED
      BY <3>2, <3>4
  <2>4. QED
    BY <2>1, <2>2, <2>3
<1>6. QED
  BY <1>2, <1>5 DEF Quedan

\* An interruption is written to an empty socket: no EXIT is there.
LEMMA CheckInterruptQuedan == ASSUME IInv, Quedan, CheckInterrupt PROVE Quedan'
<1>1. UNCHANGED <<enCpu, terminados, ejecutadas>>
  BY DEF CheckInterrupt, kernel
<1>2. CASE interrupcion /\ ~EsIOoEXIT
  <2>1. TypeOK /\ UnaSolaCopia /\ EnMano
    BY <1>2 DEF IInv, EnMano, CheckInterrupt
  <2>2. devueltos = <<>>
    BY <2>1, ManoSola
  <2>3. QED
    BY <1>1, <2>2 DEF Quedan
<1>3. CASE ~(interrupcion /\ ~EsIOoEXIT)
  BY <1>1, <1>3 DEF CheckInterrupt, Quedan
<1>4. QED
  BY <1>2, <1>3

\* Every step keeps it.
LEMMA SiguienteQuedan == ASSUME IInv, Quedan, [Next]_vars PROVE Quedan'
<1>1. CASE \E p \in Procesos : Despachar(p)
  <2>1. PICK p \in Procesos : Despachar(p)
    BY <1>1
  <2>2. enCpu' = p /\ p \notin terminados /\ UNCHANGED <<terminados, devueltos, ejecutadas>>
    BY <2>1 DEF Despachar
  <2>3. QED
    BY <2>2 DEF Quedan
<1>2. CASE RecibirDevuelto \/ Ejecutar \/ CheckInterrupt
  BY <1>2, RecibirDevueltoQuedan, EjecutarQuedan, CheckInterruptQuedan
<1>3. CASE \/ Interrumpir \/ RecibirPCB \/ Decidir \/ Limpiar \/ PostInterrupt \/ Interrupt
           \/ UNCHANGED vars
  <2>1. UNCHANGED <<enCpu, terminados, devueltos, ejecutadas>>
    BY <1>3 DEF Interrumpir, RecibirPCB, Decidir, Limpiar, PostInterrupt, Interrupt,
                RecibirInterrupcion, EsperarInterrupt, vars, kernel, sockets
  <2>2. QED
    BY <2>1 DEF Quedan
<1>4. QED
  BY <1>1, <1>2, <1>3 DEF Next, Ciclo

\* What the CPU receives has an instruction to execute: the loop is entered.
LEMMA RecibirPCBPendiente == ASSUME IInv, Quedan, RecibirPCB PROVE EnMano'
<1>1. TypeOK /\ UnaSolaCopia /\ EnOrden /\ dispatch # <<>>
  BY DEF IInv, RecibirPCB
<1>2. /\ Head(dispatch) = dispatch[1] /\ 1 \in DOMAIN dispatch
      /\ Head(dispatch).proc \in Procesos
  BY <1>1, CabezaDispatch
<1>3. devueltos = <<>> /\ Head(dispatch).proc = enCpu
  BY <1>1, SocketSolo DEF UnaSolaCopia
<1>4. Head(dispatch).pc = ejecutadas[enCpu]
  BY <1>1, <1>2, <1>3 DEF EnOrden
<1>5. ejecutadas[enCpu] < Len(Programa[enCpu])
  BY <1>2, <1>3 DEF Quedan
<1>6. pos' < Len(Programa[pcb'.proc])
  BY <1>3, <1>4, <1>5 DEF RecibirPCB
<1>7. QED
  BY <1>6 DEF RecibirPCB, EnMano

\* A step that reaches no race keeps what the kernel waits for.
LEMMA SiguientePendiente ==
  ASSUME IInv, Quedan, Pendiente, [Next]_vars, ~Carrera' PROVE Pendiente'
<1>0. TypeOK /\ EnCurso /\ UnaSolaCopia /\ EnOrden
  BY DEF IInv
<1>1. CASE \E p \in Procesos : Despachar(p)
  <2>1. PICK p \in Procesos : Despachar(p)
    BY <1>1
  <2>2. enCpu = Nadie /\ dispatch' = Append(dispatch, [proc |-> p, pc |-> contador[p]])
    BY <2>1 DEF Despachar
  <2>3. dispatch \in Seq(PCB) /\ [proc |-> p, pc |-> contador[p]] \in PCB
    BY <1>0 DEF TypeOK, PCB
  <2>4. dispatch' # <<>>
    BY <2>2, <2>3
  <2>5. QED
    BY <2>4 DEF Pendiente
<1>2. CASE RecibirDevuelto
  BY <1>2 DEF RecibirDevuelto, Pendiente
<1>3. CASE Interrumpir \/ UNCHANGED vars
  <2>1. UNCHANGED <<enCpu, dispatch, devueltos, pcDisp, pcb, pos, interrupcion>>
    BY <1>3 DEF Interrumpir, vars, kernel, sockets, ciclo
  <2>2. QED
    BY <2>1 DEF Pendiente, EnMano, EsIOoEXIT, Instruccion
<1>4. CASE RecibirPCB
  BY <1>4, RecibirPCBPendiente DEF Pendiente
<1>5. CASE Ejecutar
  <2>1. pcb.proc \in Procesos /\ pcb' = [proc |-> pcb.proc, pc |-> pcb.pc + 1] /\ pos' = pos
        /\ pcDisp' = "check"
    BY <1>0, <1>5 DEF Ejecutar, EnCurso, PCB
  <2>2. Instruccion' = Instruccion
    BY <2>1 DEF Instruccion
  <2>3. CASE EsIOoEXIT
    <3>1. devueltos \in Seq(Devuelto)
      BY <1>0 DEF TypeOK
    <3>2. \E m : devueltos' = Append(devueltos, m)
      BY <1>5, <2>3 DEF Ejecutar, EsIOoEXIT, Enviar
    <3>3. devueltos' # <<>>
      BY <3>1, <3>2
    <3>4. QED
      BY <3>3 DEF Pendiente
  <2>4. CASE ~EsIOoEXIT
    BY <2>1, <2>2, <2>4 DEF EnMano, EsIOoEXIT, Pendiente
  <2>5. QED
    BY <2>3, <2>4
<1>6. CASE CheckInterrupt
  <2>1. UNCHANGED <<enCpu, dispatch, pcb, pos, interrupcion>> /\ pcDisp = "check" /\ pcDisp' = "decidir"
    BY <1>6 DEF CheckInterrupt, kernel
  <2>2. EnMano <=> ~EsIOoEXIT
    BY <2>1 DEF EnMano
  <2>3. EnMano' <=> ~EsIOoEXIT /\ ~interrupcion
    BY <2>1 DEF EnMano, EsIOoEXIT, Instruccion
  <2>4. devueltos \in Seq(Devuelto)
    BY <1>0 DEF TypeOK
  <2>5. CASE interrupcion /\ ~EsIOoEXIT
    <3>1. \E m : devueltos' = Append(devueltos, m)
      BY <1>6, <2>5 DEF CheckInterrupt
    <3>2. devueltos' # <<>>
      BY <2>4, <3>1
    <3>3. QED
      BY <3>2 DEF Pendiente
  <2>6. CASE ~(interrupcion /\ ~EsIOoEXIT)
    <3>1. devueltos' = devueltos
      BY <1>6, <2>6 DEF CheckInterrupt
    <3>2. QED
      BY <2>1, <2>2, <2>3, <2>6, <3>1 DEF Pendiente
  <2>7. QED
    BY <2>5, <2>6
<1>7. CASE Decidir
  <2>1. UNCHANGED <<enCpu, dispatch, devueltos, pcb>> /\ pcDisp = "decidir"
    BY <1>7 DEF Decidir, kernel, sockets
  <2>2. ASSUME EnMano PROVE EnMano'
    <3>1. ~EsIOoEXIT /\ ~interrupcion
      BY <2>1, <2>2 DEF EnMano
    <3>2. pcb.proc \in Procesos /\ pos \in Nat /\ pos + 1 \in DOMAIN Programa[pcb.proc]
      BY <1>0, <2>1 DEF EnCurso, PCB, TypeOK
    <3>3. pos + 1 < Len(Programa[pcb.proc])
      BY <3>1, <3>2, Fin DEF EsIOoEXIT, Instruccion
    <3>4. pcDisp' = "ejecutar"
      BY <1>7, <3>1, <3>3 DEF Decidir
    <3>5. QED
      BY <3>4 DEF EnMano
  <2>3. QED
    BY <2>1, <2>2 DEF Pendiente
<1>8. CASE Limpiar \/ PostInterrupt
  <2>1. UNCHANGED <<enCpu, dispatch, devueltos>> /\ ~EnMano
    BY <1>8 DEF Limpiar, PostInterrupt, kernel, sockets, EnMano
  <2>2. QED
    BY <2>1 DEF Pendiente
<1>9. CASE Interrupt
  <2>1. UNCHANGED <<enCpu, dispatch, devueltos, pcDisp, pcb, pos>>
        /\ interrupcion' \in {interrupcion, TRUE}
    BY <1>9 DEF Interrupt, RecibirInterrupcion, EsperarInterrupt, kernel, sockets, ciclo
  <2>2. EsIOoEXIT' <=> EsIOoEXIT
    BY <2>1 DEF EsIOoEXIT, Instruccion
  <2>3. ASSUME EnMano, ~EnMano' PROVE FALSE
    <3>1. pcDisp = "decidir" /\ ~EsIOoEXIT /\ interrupcion'
      BY <2>1, <2>2, <2>3 DEF EnMano
    <3>2. dispatch = <<>> /\ devueltos = <<>> /\ pcb.proc = enCpu
      BY <1>0, <2>3, ManoSola DEF UnaSolaCopia
    <3>3. Carrera'
      BY <2>1, <2>2, <3>1, <3>2 DEF Carrera
    <3>4. QED
      BY <3>3
  <2>4. QED
    BY <2>1, <2>3 DEF Pendiente
<1>10. QED
  BY <1>1, <1>2, <1>3, <1>4, <1>5, <1>6, <1>7, <1>8, <1>9 DEF Next, Ciclo

\* A process that has not ended has an instruction left, or its EXIT is on its
\* way: the CPU never receives a PCB it has nothing to execute of.
THEOREM QuedanInstrucciones == Spec => []Quedan
<1>1. Init => Quedan
  BY InicioQuedan
<1>2. IInv /\ Quedan /\ [Next]_vars => Quedan'
  BY SiguienteQuedan
<1>3. QED
  BY <1>1, <1>2, InvarianteCpu, PTL DEF Spec

\* Unless the flag is set between its two readings with the PCB not sent
\* (cpu.c:143-147), the kernel is never left waiting for a PCB the CPU has let
\* go: late, repeated and idle interruptions lose none.
THEOREM SoloLaCarreraPierde == Spec /\ []~Carrera => []SinPerdidos
<1>1. Init => Pendiente
  BY DEF Init, Pendiente
<1>2. IInv /\ Quedan /\ Pendiente /\ [Next]_vars /\ ~Carrera' => Pendiente'
  BY SiguientePendiente
<1>3. Pendiente => SinPerdidos
  BY DEF Pendiente, SinPerdidos, EnMano
<1>4. QED
  BY <1>1, <1>2, <1>3, InvarianteCpu, QuedanInstrucciones, PTL DEF Spec
=============================================================================
