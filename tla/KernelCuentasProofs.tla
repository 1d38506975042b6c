------------------------- MODULE KernelCuentasProofs -------------------------
(***************************************************************************)
(* More proofs about Kernel, for any processes, degree, estimate and       *)
(* number of blockings: what needs counting.  No process is lost or        *)
(* duplicated, every reader of conexion_con_memoria has an answer, the     *)
(* degree of multiprogramming is exceeded only by late suspensions, every  *)
(* step of the kernel is an arc of CicloDeVida or a stutter, and a process *)
(* gets another's table only when answers of memory overlap.               *)
(***************************************************************************)
EXTENDS KernelProofs, FiniteSetTheorems, FunctionTheorems

-----------------------------------------------------------------------------
(* Counting.                                                               *)

LEMMA IndTipo == \A b : Ind(b) \in {0, 1}
  BY DEF Ind

\* Two finite sets that differ in one element at most.
LEMMA CambiaUno ==
  ASSUME NEW A, IsFiniteSet(A), NEW B, NEW t, A \ {t} = B \ {t}
  PROVE  /\ IsFiniteSet(B) /\ Cardinality(A) \in Nat /\ Cardinality(B) \in Nat
         /\ Cardinality(B) = Cardinality(A) - Ind(t \in A) + Ind(t \in B)
<1>1. /\ IsFiniteSet(A \ {t}) /\ Cardinality(A) \in Nat
      /\ Cardinality(A \ {t}) = Cardinality(A) - Ind(t \in A)
  BY FS_RemoveElement, FS_CardinalityType DEF Ind
<1>2. Cardinality(A \ {t}) \in Nat
  BY <1>1, FS_CardinalityType
<1>3. B = (A \ {t}) \union (IF t \in B THEN {t} ELSE {})
  OBVIOUS
<1>4. CASE t \in B
  <2>1. B = (A \ {t}) \union {t} /\ t \notin A \ {t}
    BY <1>3, <1>4
  <2>2. IsFiniteSet(B) /\ Cardinality(B) = Cardinality(A \ {t}) + 1
    BY <1>1, <2>1, FS_AddElement
  <2>3. QED
    BY <1>1, <1>2, <1>4, <2>2 DEF Ind
<1>5. CASE t \notin B
  <2>1. B = A \ {t}
    BY <1>5
  <2>2. QED
    BY <1>1, <1>2, <1>5, <2>1 DEF Ind
<1>6. QED
  BY <1>4, <1>5

\* How many elements of a queue are in C.
Cuantos(s, C) == Cardinality({i \in DOMAIN s : s[i] \in C})

LEMMA CuantosTipo ==
  ASSUME NEW S, NEW s \in Seq(S), NEW C
  PROVE  IsFiniteSet({i \in DOMAIN s : s[i] \in C}) /\ Cuantos(s, C) \in Nat
<1>1. IsFiniteSet(1..Len(s)) /\ {i \in DOMAIN s : s[i] \in C} \subseteq 1..Len(s)
  BY FS_Interval
<1>2. IsFiniteSet({i \in DOMAIN s : s[i] \in C})
  BY <1>1, FS_Subset
<1>3. QED
  BY <1>2, FS_CardinalityType DEF Cuantos

LEMMA CuantosAgregar ==
  ASSUME NEW S, NEW s \in Seq(S), NEW e \in S, NEW C
  PROVE  Cuantos(Append(s, e), C) = Cuantos(s, C) + Ind(e \in C)
<1>. DEFINE A == {i \in DOMAIN s : s[i] \in C}
            n == Len(s) + 1
            B == {i \in DOMAIN Append(s, e) : Append(s, e)[i] \in C}
<1>1. /\ n \notin DOMAIN s /\ DOMAIN Append(s, e) = DOMAIN s \union {n}
      /\ Append(s, e)[n] = e
      /\ \A i \in DOMAIN s : Append(s, e)[i] = s[i]
  <2>1. /\ Len(s) \in Nat /\ DOMAIN s = 1..Len(s) /\ DOMAIN Append(s, e) = 1..(Len(s) + 1)
        /\ Append(s, e)[n] = e /\ \A i \in DOMAIN s : Append(s, e)[i] = s[i]
    OBVIOUS
  <2>2. QED
    BY <2>1
<1>. HIDE DEF n
<1>2. A \ {n} = B \ {n} /\ n \notin A /\ (n \in B <=> e \in C)
  BY <1>1
<1>3. IsFiniteSet(A) /\ Cuantos(s, C) = Cardinality(A)
  BY CuantosTipo DEF Cuantos
<1>4. Cuantos(Append(s, e), C) = Cardinality(B)
  BY DEF Cuantos
<1>. HIDE DEF A, B
<1>5. /\ Cardinality(A) \in Nat
      /\ Cardinality(B) = Cardinality(A) - Ind(n \in A) + Ind(n \in B)
  BY <1>2, <1>3, CambiaUno
<1>6. Ind(n \in A) = 0 /\ Ind(n \in B) = Ind(e \in C) /\ Ind(e \in C) \in Nat
  BY <1>2 DEF Ind
<1>7. QED
  BY <1>3, <1>4, <1>5, <1>6

LEMMA CuantosQuitar ==
  ASSUME NEW S, NEW s \in Seq(S), NEW i \in DOMAIN s, NEW C
  PROVE  Cuantos(SinIndice(s, i), C) = Cuantos(s, C) - Ind(s[i] \in C)
<1>. DEFINE r == SinIndice(s, i)
            A == {j \in DOMAIN s : s[j] \in C}
            B == {j \in DOMAIN r : r[j] \in C}
            f == [j \in A \ {i} |-> IF j < i THEN j ELSE j - 1]
<1>1. /\ Len(s) \in Nat /\ DOMAIN s = 1..Len(s) /\ i \in 1..Len(s)
  OBVIOUS
<1>2. /\ DOMAIN r = 1..(Len(s) - 1)
      /\ \A j \in 1..(Len(s) - 1) : r[j] = IF j < i THEN s[j] ELSE s[j + 1]
  BY DEF SinIndice
<1>. HIDE DEF r
<1>3. \A j \in A \ {i} : /\ f[j] \in B
                         /\ f[j] = IF j < i THEN j ELSE j - 1
                         /\ j \in Nat /\ j # i
  BY <1>1, <1>2
<1>4. f \in [A \ {i} -> B]
  BY <1>3
<1>5. \A j, k \in A \ {i} : f[j] = f[k] => j = k
  BY <1>1, <1>3
<1>6. ASSUME NEW k \in B
      PROVE  \E j \in A \ {i} : f[j] = k
  <2>1. k \in 1..(Len(s) - 1) /\ r[k] \in C
    BY <1>2
  <2>2. CASE k < i
    <3>1. k \in A \ {i}
      BY <1>1, <1>2, <2>1, <2>2
    <3>2. QED
      BY <3>1, <1>3, <2>2
  <2>3. CASE ~(k < i)
    <3>1. k + 1 \in A \ {i} /\ ~(k + 1 < i) /\ (k + 1) - 1 = k
      BY <1>1, <1>2, <2>1, <2>3
    <3>2. QED
      BY <3>1, <1>3
  <2>4. QED
    BY <2>2, <2>3
<1>7. IsFiniteSet(A) /\ Cuantos(s, C) = Cardinality(A) /\ (i \in A <=> s[i] \in C)
  BY CuantosTipo DEF Cuantos
<1>8. Cuantos(r, C) = Cardinality(B)
  BY DEF Cuantos
<1>. HIDE DEF A, B, f
<1>9. /\ IsFiniteSet(A \ {i}) /\ Cardinality(A) \in Nat
      /\ Cardinality(A \ {i}) = Cardinality(A) - Ind(s[i] \in C)
  BY <1>7, FS_RemoveElement, FS_CardinalityType DEF Ind
<1>10. ExistsBijection(A \ {i}, B)
  <2>1. f \in Bijection(A \ {i}, B)
    BY <1>4, <1>5, <1>6, Fun_IsBij
  <2>2. QED
    BY <2>1 DEF ExistsBijection
<1>11. Cardinality(B) = Cardinality(A \ {i})
  BY <1>9, <1>10, FS_Bijection
<1>12. QED
  BY <1>7, <1>8, <1>9, <1>11 DEF r

LEMMA CuantosCola ==
  ASSUME NEW S, NEW s \in Seq(S), Len(s) > 0, NEW C
  PROVE  Cuantos(Tail(s), C) = Cuantos(s, C) - Ind(Head(s) \in C)
<1>1. Tail(s) \in Seq(S) /\ Len(Tail(s)) = Len(s) - 1 /\ Head(s) = s[1] /\ 1 \in DOMAIN s
      /\ Len(s) \in Nat
  OBVIOUS
<1>2. \A j \in 1..(Len(s) - 1) : Tail(s)[j] = s[j + 1]
  OBVIOUS
<1>3. DOMAIN Tail(s) = 1..(Len(s) - 1)
  BY <1>1
<1>. DEFINE r == SinIndice(s, 1)
<1>4. /\ DOMAIN r = 1..(Len(s) - 1)
      /\ \A j \in 1..(Len(s) - 1) : r[j] = IF j < 1 THEN s[j] ELSE s[j + 1]
  BY DEF SinIndice
<1>. HIDE DEF r
<1>5. \A j \in 1..(Len(s) - 1) : r[j] = Tail(s)[j]
  BY <1>1, <1>2, <1>4
<1>6. {j \in DOMAIN r : r[j] \in C} = {j \in DOMAIN Tail(s) : Tail(s)[j] \in C}
  BY <1>3, <1>4, <1>5
<1>7. Cuantos(r, C) = Cuantos(Tail(s), C)
  BY <1>6 DEF Cuantos
<1>8. Cuantos(r, C) = Cuantos(s, C) - Ind(s[1] \in C)
  BY <1>1, CuantosQuitar DEF r
<1>9. QED
  BY <1>1, <1>7, <1>8

-----------------------------------------------------------------------------
(* An answer for each reader.                                              *)

Lectores    == {t \in APasar : pc[t] = "recibir_tabla"}
Confirmando == {b \in DOMAIN bloqueos : bloqueos[b].pc = "confirmar"}

LEMMA HilosFinitos == IsFiniteSet(APasar)
<1>1. IsFiniteSet({"ltp"} \union {"io"}) /\ IsFiniteSet({"des"} \union {"disp"})
  BY FS_Singleton, FS_Union
<1>2. IsFiniteSet(({"ltp"} \union {"io"}) \union ({"des"} \union {"disp"}))
  BY <1>1, FS_Union
<1>3. APasar = ({"ltp"} \union {"io"}) \union ({"des"} \union {"disp"})
  BY DEF APasar
<1>4. QED
  BY <1>2, <1>3

LEMMA EsperanFinitos ==
  ASSUME TypeOK
  PROVE  /\ IsFiniteSet(Lectores) /\ IsFiniteSet(Confirmando)
         /\ Cardinality(Lectores) \in Nat /\ Cardinality(Confirmando) \in Nat
<1>1. IsFiniteSet(Lectores)
  BY HilosFinitos, FS_Subset DEF Lectores
<1>2. IsFiniteSet(1..Len(bloqueos)) /\ DOMAIN bloqueos = 1..Len(bloqueos)
  BY FS_Interval DEF TypeOK
<1>3. IsFiniteSet(Confirmando)
  BY <1>2, FS_Subset DEF Confirmando
<1>4. QED
  BY <1>1, <1>3, FS_CardinalityType

LEMMA RespuestasSon ==
  /\ RespuestasExactas <=> Len(respuestas) = Cardinality(Lectores) + Cardinality(Confirmando)
  /\ RespuestasExactas' <=> Len(respuestas') = Cardinality(Lectores') + Cardinality(Confirmando')
  BY DEF RespuestasExactas, Lectores, Confirmando

\* A step of a thread that neither begins nor ends to wait for an answer.
LEMMA SinEsperar ==
  ASSUME TypeOK, RespuestasExactas, UNCHANGED <<respuestas, Confirmando>>,
         NEW t \in Hilos, NEW a, NEW b, Ir(t, a, b), a # "recibir_tabla", b # "recibir_tabla"
  PROVE  RespuestasExactas'
<1>1. \A h \in APasar : pc'[h] = "recibir_tabla" <=> pc[h] = "recibir_tabla"
  BY DEF Ir, TypeOK, Sitios, APasar, Hilos
<1>2. Lectores' = Lectores
  BY <1>1 DEF Lectores
<1>3. QED
  BY <1>2, RespuestasSon

LEMMA MismosConfirmando ==
  ASSUME UNCHANGED bloqueos PROVE Confirmando' = Confirmando
  BY DEF Confirmando

\* A thread begins to wait, and its answer is on its way; or it reads one.
LEMMA RespuestasPasar ==
  ASSUME IInv, RespuestasExactas, NEW t \in APasar, PasarAReady(t)
  PROVE  RespuestasExactas'
<1>1. TypeOK /\ t \in Hilos /\ UNCHANGED bloqueos
  BY DEF IInv, PasarAReady, Encolar, PedirTabla, RecibirTabla, Interrumpir, PostReady, APasar,
     Hilos
<1>2. Confirmando' = Confirmando
  BY <1>1, MismosConfirmando
<1>3. respuestas \in Seq(Nat) /\ Len(respuestas) \in Nat
  BY <1>1 DEF TypeOK
<1>4. CASE Encolar(t)
  <2>1. UNCHANGED respuestas /\ Ir(t, "encolar", TrasEncolar(t))
        /\ TrasEncolar(t) # "recibir_tabla"
    BY <1>4 DEF Encolar, memoria, TrasEncolar, TrasTabla
  <2>2. QED
    BY <1>1, <1>2, <2>1, SinEsperar
<1>5. CASE Interrumpir(t)
  <2>1. UNCHANGED respuestas /\ Ir(t, "interrumpir", "post")
    BY <1>5 DEF Interrumpir, memoria
  <2>2. QED
    BY <1>1, <1>2, <2>1, SinEsperar
<1>6. CASE PostReady(t)
  <2>1. UNCHANGED respuestas /\ Ir(t, "post", TrasPasar(t)) /\ TrasPasar(t) # "recibir_tabla"
    BY <1>6 DEF PostReady, memoria, TrasPasar, Inicio, APasar
  <2>2. QED
    BY <1>1, <1>2, <2>1, SinEsperar
<1>7. \A h \in APasar : h # t /\ (PedirTabla(t) \/ RecibirTabla(t)) => pc'[h] = pc[h]
  BY <1>1 DEF PedirTabla, RecibirTabla, Ir, TypeOK, Sitios, APasar, Hilos
<1>8. CASE PedirTabla(t)
  <2>1. pc[t] = "pedir_tabla" /\ pc'[t] = "recibir_tabla"
    BY <1>1, <1>8 DEF PedirTabla, Ir, TypeOK, Sitios
  <2>2. Len(respuestas') = Len(respuestas) + 1
    <3>1. tablas \in Seq(Procesos) /\ Len(tablas) \in Nat
      BY <1>1 DEF TypeOK
    <3>2. respuestas' = Append(respuestas, Len(tablas))
      BY <1>8 DEF PedirTabla
    <3>3. QED
      BY <1>3, <3>1, <3>2, Agregar
  <2>3. t \notin Lectores /\ t \in Lectores' /\ Lectores \ {t} = Lectores' \ {t}
    <3>1. \A h \in APasar : h # t => pc'[h] = pc[h]
      BY <1>7, <1>8
    <3>2. QED
      BY <2>1, <3>1 DEF Lectores
  <2>4. Cardinality(Lectores') = Cardinality(Lectores) + 1
    <3>1. Cardinality(Lectores') = Cardinality(Lectores) - Ind(t \in Lectores)
                                     + Ind(t \in Lectores')
      BY <1>1, <2>3, EsperanFinitos, CambiaUno
    <3>2. Ind(t \in Lectores) = 0 /\ Ind(t \in Lectores') = 1
      BY <2>3 DEF Ind
    <3>3. Cardinality(Lectores) \in Nat
      BY <1>1, EsperanFinitos
    <3>4. QED
      BY <3>1, <3>2, <3>3
  <2>5. Confirmando' = Confirmando
    BY <1>2
  <2>6. Len(respuestas) = Cardinality(Lectores) + Cardinality(Confirmando)
    BY RespuestasSon
  <2>7. Cardinality(Lectores) \in Nat /\ Cardinality(Confirmando) \in Nat
    BY <1>1, EsperanFinitos
  <2>8. Len(respuestas') = Cardinality(Lectores') + Cardinality(Confirmando')
    BY <2>2, <2>4, <2>5, <2>6, <2>7
  <2>9. QED
    BY <2>8, RespuestasSon
<1>9. CASE RecibirTabla(t)
  <2>1. pc[t] = "recibir_tabla" /\ pc'[t] # "recibir_tabla"
    BY <1>1, <1>9 DEF RecibirTabla, Ir, TypeOK, Sitios, TrasTabla
  <2>2. Len(respuestas') = Len(respuestas) - 1
    BY <1>3, <1>9, CabezaYCola, NoVacia DEF RecibirTabla
  <2>3. t \in Lectores /\ t \notin Lectores' /\ Lectores \ {t} = Lectores' \ {t}
    BY <1>7, <1>9, <2>1 DEF Lectores
  <2>4. Cardinality(Lectores') = Cardinality(Lectores) - 1 /\ Confirmando' = Confirmando
    BY <1>1, <1>2, <2>3, EsperanFinitos, CambiaUno DEF Ind
  <2>5. Len(respuestas) = Cardinality(Lectores) + Cardinality(Confirmando)
    BY RespuestasSon
  <2>6. Cardinality(Lectores) \in Nat /\ Cardinality(Confirmando) \in Nat
    BY <1>1, EsperanFinitos
  <2>7. Len(respuestas') = Cardinality(Lectores') + Cardinality(Confirmando')
    BY <2>2, <2>4, <2>5, <2>6
  <2>8. QED
    BY <2>7, RespuestasSon
<1>10. QED
  BY <1>4, <1>5, <1>6, <1>8, <1>9 DEF PasarAReady

\* A blocking begins to wait for its confirmation, or reads one.
LEMMA RespuestasSuspensor ==
  ASSUME IInv, RespuestasExactas, NEW b \in DOMAIN bloqueos, Suspensor(b)
  PROVE  RespuestasExactas'
<1>1. TypeOK /\ respuestas \in Seq(Nat) /\ Len(respuestas) \in Nat
      /\ bloqueos \in Seq(Bloqueo) /\ UNCHANGED pc
  <2>1. TypeOK /\ respuestas \in Seq(Nat) /\ bloqueos \in Seq(Bloqueo)
    BY DEF IInv, TypeOK
  <2>2. UNCHANGED pc
    BY DEF Suspensor, Vencer, Buscar, NotificarSuspension, Confirmar, hilos
  <2>3. QED
    BY <2>1, <2>2
<1>2. Lectores' = Lectores
  BY <1>1 DEF Lectores
<1>3. /\ DOMAIN bloqueos' = DOMAIN bloqueos
      /\ \A c \in DOMAIN bloqueos : c # b => bloqueos'[c] = bloqueos[c]
  BY <1>1 DEF Suspensor, Vencer, Buscar, NotificarSuspension, Confirmar, PasoSuspensor
<1>4. Confirmando \ {b} = Confirmando' \ {b}
  BY <1>3 DEF Confirmando
<1>5. CASE Vencer(b) \/ Buscar(b)
  <2>1. UNCHANGED respuestas /\ bloqueos[b].pc # "confirmar"
    BY <1>5 DEF Vencer, Buscar, memoria
  <2>2. bloqueos'[b].pc # "confirmar"
    <3>1. bloqueos[b] \in Bloqueo
      BY <1>1
    <3>2. CASE Vencer(b)
      BY <1>1, <3>1, <3>2 DEF Vencer, Bloqueo
    <3>3. CASE Buscar(b)
      BY <1>1, <2>1, <3>1, <3>3 DEF Buscar, Bloqueo
    <3>4. QED
      BY <1>5, <3>2, <3>3
  <2>3. Confirmando' = Confirmando
    BY <1>3, <2>1, <2>2 DEF Confirmando
  <2>4. QED
    BY <1>2, <2>1, <2>3, RespuestasSon
<1>6. CASE NotificarSuspension(b)
  <2>1. bloqueos[b].pc = "notificar" /\ bloqueos'[b].pc = "confirmar"
    <3>1. bloqueos[b] \in Bloqueo
      BY <1>1
    <3>2. QED
      BY <1>1, <1>6, <3>1 DEF NotificarSuspension, PasoSuspensor, Bloqueo
  <2>2. Len(respuestas') = Len(respuestas) + 1
    <3>1. respuestas' = Append(respuestas, Confirmacion) /\ Confirmacion \in Nat
      BY <1>6 DEF NotificarSuspension, Confirmacion
    <3>2. QED
      BY <1>1, <3>1, Agregar
  <2>3. b \notin Confirmando /\ b \in Confirmando'
    BY <1>3, <2>1 DEF Confirmando
  <2>4. Cardinality(Lectores) \in Nat /\ Cardinality(Confirmando) \in Nat
    BY <1>1, EsperanFinitos
  <2>5. Cardinality(Confirmando') = Cardinality(Confirmando) + 1 /\ Lectores' = Lectores
    <3>1. Cardinality(Confirmando') = Cardinality(Confirmando) - Ind(b \in Confirmando)
                                        + Ind(b \in Confirmando')
      BY <1>1, <1>4, EsperanFinitos, CambiaUno
    <3>2. Ind(b \in Confirmando) = 0 /\ Ind(b \in Confirmando') = 1
      BY <2>3 DEF Ind
    <3>3. QED
      BY <1>2, <2>4, <3>1, <3>2
  <2>6. Len(respuestas) = Cardinality(Lectores) + Cardinality(Confirmando)
    BY RespuestasSon
  <2>7. Len(respuestas') = Cardinality(Lectores') + Cardinality(Confirmando')
    BY <2>2, <2>4, <2>5, <2>6
  <2>8. QED
    BY <2>7, RespuestasSon
<1>7. CASE Confirmar(b)
  <2>1. bloqueos[b].pc = "confirmar" /\ bloqueos'[b].pc = "fin"
    <3>1. bloqueos[b] \in Bloqueo
      BY <1>1
    <3>2. QED
      BY <1>1, <1>7, <3>1 DEF Confirmar, Bloqueo
  <2>2. Len(respuestas') = Len(respuestas) - 1
    BY <1>1, <1>7, CabezaYCola, NoVacia DEF Confirmar
  <2>3. b \in Confirmando /\ b \notin Confirmando'
    BY <1>3, <2>1 DEF Confirmando
  <2>4. Cardinality(Confirmando') = Cardinality(Confirmando) - 1 /\ Lectores' = Lectores
    BY <1>1, <1>2, <1>4, <2>3, EsperanFinitos, CambiaUno DEF Ind
  <2>5. Len(respuestas) = Cardinality(Lectores) + Cardinality(Confirmando)
    BY RespuestasSon
  <2>6. Cardinality(Lectores) \in Nat /\ Cardinality(Confirmando) \in Nat
    BY <1>1, EsperanFinitos
  <2>7. Len(respuestas') = Cardinality(Lectores') + Cardinality(Confirmando')
    BY <2>2, <2>4, <2>5, <2>6
  <2>8. QED
    BY <2>7, RespuestasSon
<1>8. QED
  BY <1>5, <1>6, <1>7 DEF Suspensor

\* A blocking that comes, or whose I/O ends, does not wait for an answer.
LEMMA ConfirmandoIgual ==
  ASSUME IInv, SalirAReady \/ SalirASuspReady \/ RecibirBloqueo
  PROVE  Confirmando' = Confirmando
<1>1. TypeOK /\ bloqueos \in Seq(Bloqueo)
  BY DEF IInv, TypeOK
<1>2. CASE SalirAReady \/ SalirASuspReady
  <2>1. \A c \in DOMAIN bloqueos : bloqueos[c] \in Bloqueo
    BY <1>1
  <2>2. PICK s \in {"ready", "susp_ready"} :
          bloqueos' = [bloqueos EXCEPT ![atendido].salida = s]
    BY <1>2 DEF SalirAReady, SalirASuspReady
  <2>3. /\ DOMAIN bloqueos' = DOMAIN bloqueos
        /\ \A c \in DOMAIN bloqueos : bloqueos'[c].pc = bloqueos[c].pc
    BY <2>1, <2>2 DEF Bloqueo
  <2>4. QED
    BY <2>3 DEF Confirmando
<1>3. CASE RecibirBloqueo
  <2>. DEFINE n == Len(bloqueos) + 1
              e == [proc |-> Head(devueltos).proc, suspendido |-> FALSE,
                    salida |-> "pendiente", pc |-> "durmiendo", i |-> 0, n |-> 0, primero |-> 0]
  <2>1. bloqueos' = Append(bloqueos, e) /\ e.pc = "durmiendo"
    BY <1>3 DEF RecibirBloqueo, BloqueoNuevo
  <2>. HIDE DEF e
  <2>2. /\ DOMAIN bloqueos' = DOMAIN bloqueos \union {n} /\ bloqueos'[n] = e
        /\ \A c \in DOMAIN bloqueos : bloqueos'[c] = bloqueos[c]
    <3>1. /\ Len(bloqueos) \in Nat /\ DOMAIN bloqueos = 1..Len(bloqueos)
          /\ DOMAIN bloqueos' = 1..(Len(bloqueos) + 1) /\ bloqueos'[n] = e
          /\ \A c \in DOMAIN bloqueos : bloqueos'[c] = bloqueos[c]
      BY <1>1, <2>1
    <3>2. QED
      BY <3>1
  <2>3. QED
    BY <2>1, <2>2 DEF Confirmando
<1>4. QED
  BY <1>2, <1>3

\* Steps of the threads that do not touch a blocking nor an answer.
LEMMA RespuestasHilo ==
  ASSUME IInv, RespuestasExactas, UNCHANGED <<respuestas, bloqueos>>,
         NEW t \in Hilos, NEW a, NEW b, Ir(t, a, b), a # "recibir_tabla", b # "recibir_tabla"
  PROVE  RespuestasExactas'
<1>1. TypeOK /\ UNCHANGED Confirmando
  BY MismosConfirmando DEF IInv
<1>. QED
  BY <1>1, SinEsperar

\* Nobody moves that waits or answers.
LEMMA RespuestasQuietas ==
  ASSUME RespuestasExactas, UNCHANGED <<respuestas, bloqueos, pc>>
  PROVE  RespuestasExactas'
  BY DEF RespuestasExactas

LEMMA RespuestasPlanificador ==
  ASSUME IInv, RespuestasExactas, Planificador PROVE RespuestasExactas'
<1>1. UNCHANGED <<respuestas, bloqueos>> /\ "stp" \in Hilos
  BY DEF Planificador, EsperarCpu, EsperarReady, Extraer, Enviar, Marcar, memoria, Hilos
<1>2. CASE EsperarCpu
  BY <1>1, <1>2, RespuestasHilo DEF EsperarCpu
<1>3. CASE EsperarReady
  BY <1>1, <1>3, RespuestasHilo DEF EsperarReady
<1>4. CASE Extraer
  BY <1>1, <1>4, RespuestasHilo DEF Extraer
<1>5. CASE Enviar
  <2>1. Ir("stp", "enviar", "marcar") \/ Ir("stp", "enviar", "planificacion")
    BY <1>5 DEF Enviar
  <2>2. QED
    BY <1>1, <2>1, RespuestasHilo
<1>6. CASE Marcar
  BY <1>1, <1>6, RespuestasHilo DEF Marcar
<1>7. QED
  BY <1>2, <1>3, <1>4, <1>5, <1>6 DEF Planificador

LEMMA RespuestasLargoPlazo ==
  ASSUME IInv, RespuestasExactas, LargoPlazo PROVE RespuestasExactas'
<1>1. CASE PasarAReady("ltp")
  BY <1>1, RespuestasPasar DEF APasar
<1>2. CASE EsperarNew
  BY <1>2, RespuestasHilo DEF EsperarNew, memoria, Hilos
<1>3. CASE EsperarGrado
  BY <1>3, RespuestasHilo DEF EsperarGrado, memoria, Hilos
<1>4. CASE AdmitirNuevo
  BY <1>4, RespuestasHilo DEF AdmitirNuevo, memoria, Hilos
<1>5. CASE CederLugar
  BY <1>5, RespuestasHilo DEF CederLugar, memoria, Hilos
<1>6. QED
  BY <1>1, <1>2, <1>3, <1>4, <1>5 DEF LargoPlazo

\* The second request for an interruption, of the I/O and unsuspending threads.
LEMMA RespuestasOtraVez ==
  ASSUME IInv, RespuestasExactas, NEW t \in {"io", "des"}, InterrumpirOtraVez(t)
  PROVE  RespuestasExactas'
<1>1. /\ Ir(t, "interrumpir2", Inicio[t]) /\ UNCHANGED <<respuestas, bloqueos>>
      /\ t \in Hilos /\ Inicio[t] # "recibir_tabla"
  BY DEF InterrumpirOtraVez, memoria, Hilos, Inicio
<1>. QED
  BY <1>1, RespuestasHilo

LEMMA RespuestasDispositivo ==
  ASSUME IInv, RespuestasExactas, Dispositivo PROVE RespuestasExactas'
<1>1. TypeOK /\ "io" \in Hilos /\ "io" \in APasar
  BY DEF IInv, Hilos, APasar
<1>2. CASE IniciarIO
  BY <1>1, <1>2, RespuestasHilo DEF IniciarIO, memoria
<1>3. CASE TerminarIO
  BY <1>1, <1>3, RespuestasHilo DEF TerminarIO, memoria
<1>4. CASE SalirAReady
  <2>1. UNCHANGED <<respuestas, Confirmando>> /\ Ir("io", "decidir", "encolar")
    BY <1>4, ConfirmandoIgual DEF SalirAReady, memoria
  <2>2. QED
    BY <1>1, <2>1, SinEsperar
<1>5. CASE SalirASuspReady
  <2>1. UNCHANGED <<respuestas, Confirmando>> /\ Ir("io", "decidir", "bloqueados")
    BY <1>5, ConfirmandoIgual DEF SalirASuspReady, memoria
  <2>2. QED
    BY <1>1, <2>1, SinEsperar
<1>6. CASE PasarAReady("io")
  BY <1>1, <1>6, RespuestasPasar
<1>7. CASE InterrumpirOtraVez("io")
  BY <1>7, RespuestasOtraVez
<1>8. QED
  BY <1>2, <1>3, <1>4, <1>5, <1>6, <1>7 DEF Dispositivo

LEMMA RespuestasDesuspendidor ==
  ASSUME IInv, RespuestasExactas, Desuspendidor PROVE RespuestasExactas'
<1>1. CASE EsperarSuspReady
  BY <1>1, RespuestasHilo DEF EsperarSuspReady, memoria, Hilos
<1>2. CASE EsperarLugar
  BY <1>2, RespuestasHilo DEF EsperarLugar, memoria, Hilos
<1>3. CASE Desuspender
  BY <1>3, RespuestasHilo DEF Desuspender, memoria, Hilos
<1>4. CASE PasarAReady("des")
  BY <1>4, RespuestasPasar DEF APasar
<1>5. CASE InterrumpirOtraVez("des")
  BY <1>5, RespuestasOtraVez
<1>6. QED
  BY <1>1, <1>2, <1>3, <1>4, <1>5 DEF Desuspendidor

LEMMA RespuestasEscucha ==
  ASSUME IInv, RespuestasExactas, Escucha PROVE RespuestasExactas'
<1>1. TypeOK /\ "disp" \in Hilos /\ "disp" \in APasar
  BY DEF IInv, Hilos, APasar
<1>2. CASE RecibirBloqueo
  <2>1. UNCHANGED <<respuestas, Confirmando>> /\ Ir("disp", "escuchar", "liberar")
    BY <1>2, ConfirmandoIgual DEF RecibirBloqueo, memoria
  <2>2. QED
    BY <1>1, <2>1, SinEsperar
<1>3. CASE RecibirInterrumpido
  BY <1>1, <1>3, RespuestasHilo DEF RecibirInterrumpido, memoria
<1>4. CASE RecibirExit
  BY <1>1, <1>4, RespuestasHilo DEF RecibirExit, memoria
<1>5. CASE LiberarCpu
  BY <1>1, <1>5, RespuestasHilo DEF LiberarCpu, memoria
<1>6. CASE PasarAReady("disp")
  BY <1>1, <1>6, RespuestasPasar
<1>7. QED
  BY <1>2, <1>3, <1>4, <1>5, <1>6 DEF Escucha

LEMMA RespuestasPaso == IInv /\ RespuestasExactas /\ [Next]_vars => RespuestasExactas'
<1> SUFFICES ASSUME IInv, RespuestasExactas, [Next]_vars PROVE RespuestasExactas'
  OBVIOUS
<1>1. CASE \E p \in Procesos : AtenderConsola(p)
  BY <1>1, RespuestasQuietas DEF AtenderConsola, hilos, memoria
<1>2. CASE Planificador  BY <1>2, RespuestasPlanificador
<1>3. CASE LargoPlazo    BY <1>3, RespuestasLargoPlazo
<1>4. CASE Dispositivo   BY <1>4, RespuestasDispositivo
<1>5. CASE Desuspendidor BY <1>5, RespuestasDesuspendidor
<1>6. CASE Escucha       BY <1>6, RespuestasEscucha
<1>7. CASE \E b \in DOMAIN bloqueos : Suspensor(b)
  BY <1>7, RespuestasSuspensor
<1>8. CASE Cpu
  BY <1>8, RespuestasQuietas
     DEF Cpu, CpuBloqueo, CpuExit, CpuInterrumpe, Devolver, hilos, memoria
<1>9. CASE UNCHANGED vars
  BY <1>9, RespuestasQuietas DEF vars, hilos, memoria
<1> QED BY <1>1, <1>2, <1>3, <1>4, <1>5, <1>6, <1>7, <1>8, <1>9 DEF Next, Paso, Reposo

LEMMA RespuestasInicio == Init => RespuestasExactas
<1> SUFFICES ASSUME Init PROVE RespuestasExactas
  OBVIOUS
<1>1. Lectores = {} /\ Confirmando = {} /\ Len(respuestas) = 0
  BY DEF Init, Lectores, Confirmando, Inicio, APasar
<1>. QED
  BY <1>1, FS_EmptySet, RespuestasSon

\* conexion_con_memoria is read by four threads and the suspenders with no
\* mutex (kernel.c:383-386, 512-513), and there is always one answer in it for
\* each of them that waits: no recibir_entero waits for an answer that will not
\* come, however the answers are mixed up.
THEOREM RespuestasJustas == Spec => []RespuestasExactas
<1>1. Init => RespuestasExactas
  BY RespuestasInicio
<1>2. IInv /\ RespuestasExactas /\ [Next]_vars => RespuestasExactas'
  BY RespuestasPaso
<1> QED BY <1>1, <1>2, InvarianteInductivo, PTL DEF Spec

-----------------------------------------------------------------------------
(* The places a process can be in, counted.                                *)

EnNew(p)       == Veces(p, new)
EnReady(p)     == Veces(p, ready)
EnSuspReady(p) == Veces(p, susp_ready)
EnBlocked(p)   == Cardinality({i \in DOMAIN blocked : ProcesoDe(blocked[i]) = p})
Saliendo(p)    == Ind(pc["io"] = "decidir" /\ atendido # 0 /\ p = ProcesoDe(atendido))
EnDespacho(p)  == VecesEn(p, despacho)
EnDevueltos(p) == VecesEn(p, devueltos)
Enviando(p)    == Ind(pc["stp"] = "enviar" /\ en["stp"] = p)
Manos(p)       == {t \in APasar : pc[t] = "encolar" /\ en[t] = p}
EnMano(p)      == Cardinality(Manos(p))

Suma(p) == Ind(p \in por_llegar) + Ind(p \in terminados)
             + EnNew(p) + EnReady(p) + EnSuspReady(p) + EnBlocked(p) + Saliendo(p)
             + EnDespacho(p) + EnDevueltos(p) + Enviando(p) + EnMano(p)

\* In a sum of eleven, only the sum of the sixth and the seventh matters.
LEMMA DosSumandos ==
  ASSUME NEW a \in Int, NEW b \in Int, NEW c \in Int, NEW d \in Int, NEW e \in Int,
         NEW f \in Int, NEW g \in Int, NEW h \in Int, NEW i \in Int, NEW j \in Int,
         NEW k \in Int, NEW f1 \in Int, NEW g1 \in Int, f1 + g1 = f + g
  PROVE  a + b + c + d + e + f1 + g1 + h + i + j + k = a + b + c + d + e + f + g + h + i + j + k
  OBVIOUS

LEMMA SumaEs ==
  /\ Conservacion <=> \A p \in Procesos : Suma(p) = 1
  /\ Conservacion' <=> \A p \in Procesos : Suma(p)' = 1
  BY DEF Conservacion, Suma, EnNew, EnReady, EnSuspReady, EnBlocked, Saliendo, EnDespacho,
     EnDevueltos, Enviando, Manos, EnMano

\* Counting a process in a queue of processes, and in one of records.
LEMMA VecesSon ==
  ASSUME NEW S, NEW s \in Seq(S), NEW p
  PROVE  Veces(p, s) = Cuantos(s, {p}) /\ Veces(p, s) \in Nat
<1>1. {i \in DOMAIN s : s[i] = p} = {i \in DOMAIN s : s[i] \in {p}}
  OBVIOUS
<1>. QED
  BY <1>1, CuantosTipo DEF Veces, Cuantos

\* The records of S that are about p.
Cuyos(S, p) == {e \in S : e.proc = p}

LEMMA VecesEnSon ==
  ASSUME NEW S, NEW s \in Seq(S), NEW p
  PROVE  VecesEn(p, s) = Cuantos(s, Cuyos(S, p)) /\ VecesEn(p, s) \in Nat
<1>1. \A i \in DOMAIN s : s[i] \in S
  OBVIOUS
<1>2. {i \in DOMAIN s : s[i].proc = p} = {i \in DOMAIN s : s[i] \in Cuyos(S, p)}
  BY <1>1 DEF Cuyos
<1>. QED
  BY <1>2, CuantosTipo DEF VecesEn, Cuantos

LEMMA VecesPasos ==
  ASSUME NEW S, NEW s \in Seq(S), NEW p
  PROVE  /\ \A e \in S : Veces(p, Append(s, e)) = Veces(p, s) + Ind(e = p)
         /\ \A i \in DOMAIN s : Veces(p, SinIndice(s, i)) = Veces(p, s) - Ind(s[i] = p)
         /\ Len(s) > 0 => Veces(p, Tail(s)) = Veces(p, s) - Ind(Head(s) = p)
<1>1. \A e : Ind(e \in {p}) = Ind(e = p)
  BY DEF Ind
<1>2. Veces(p, s) = Cuantos(s, {p})
  BY VecesSon
<1>3. ASSUME NEW e \in S PROVE Veces(p, Append(s, e)) = Veces(p, s) + Ind(e = p)
  <2>1. Append(s, e) \in Seq(S)
    OBVIOUS
  <2>2. Veces(p, Append(s, e)) = Cuantos(Append(s, e), {p})
    BY <2>1, VecesSon
  <2>3. Cuantos(Append(s, e), {p}) = Cuantos(s, {p}) + Ind(e \in {p})
    BY CuantosAgregar
  <2>. QED
    BY <1>1, <1>2, <2>2, <2>3
<1>4. ASSUME NEW i \in DOMAIN s PROVE Veces(p, SinIndice(s, i)) = Veces(p, s) - Ind(s[i] = p)
  <2>1. SinIndice(s, i) \in Seq(S)
    BY Quitar
  <2>2. Veces(p, SinIndice(s, i)) = Cuantos(SinIndice(s, i), {p})
    BY <2>1, VecesSon
  <2>3. Cuantos(SinIndice(s, i), {p}) = Cuantos(s, {p}) - Ind(s[i] \in {p})
    BY CuantosQuitar
  <2>. QED
    BY <1>1, <1>2, <2>2, <2>3
<1>5. ASSUME Len(s) > 0 PROVE Veces(p, Tail(s)) = Veces(p, s) - Ind(Head(s) = p)
  <2>1. Tail(s) \in Seq(S)
    BY <1>5
  <2>2. Veces(p, Tail(s)) = Cuantos(Tail(s), {p})
    BY <2>1, VecesSon
  <2>3. Cuantos(Tail(s), {p}) = Cuantos(s, {p}) - Ind(Head(s) \in {p})
    BY <1>5, CuantosCola
  <2>. QED
    BY <1>1, <1>2, <2>2, <2>3
<1>. QED
  BY <1>3, <1>4, <1>5

LEMMA VecesEnPasos ==
  ASSUME NEW S, NEW s \in Seq(S), NEW p
  PROVE  /\ \A e \in S : VecesEn(p, Append(s, e)) = VecesEn(p, s) + Ind(e.proc = p)
         /\ Len(s) > 0 => VecesEn(p, Tail(s)) = VecesEn(p, s) - Ind(Head(s).proc = p)
<1>1. \A e \in S : e \in Cuyos(S, p) <=> e.proc = p
  BY DEF Cuyos
<1>2. VecesEn(p, s) = Cuantos(s, Cuyos(S, p))
  BY VecesEnSon
<1>3. ASSUME NEW e \in S PROVE VecesEn(p, Append(s, e)) = VecesEn(p, s) + Ind(e.proc = p)
  <2>1. Append(s, e) \in Seq(S)
    OBVIOUS
  <2>2. VecesEn(p, Append(s, e)) = Cuantos(Append(s, e), Cuyos(S, p))
    BY <2>1, VecesEnSon
  <2>3. Cuantos(Append(s, e), Cuyos(S, p)) = Cuantos(s, Cuyos(S, p)) + Ind(e \in Cuyos(S, p))
    BY CuantosAgregar
  <2>4. e \in Cuyos(S, p) <=> e.proc = p
    BY <1>1
  <2>5. Ind(e \in Cuyos(S, p)) = Ind(e.proc = p)
    BY <2>4 DEF Ind
  <2>. QED
    BY <1>2, <2>2, <2>3, <2>5
<1>4. ASSUME Len(s) > 0 PROVE VecesEn(p, Tail(s)) = VecesEn(p, s) - Ind(Head(s).proc = p)
  <2>1. Tail(s) \in Seq(S) /\ Head(s) \in S
    BY <1>4, CabezaYCola
  <2>2. VecesEn(p, Tail(s)) = Cuantos(Tail(s), Cuyos(S, p))
    BY <2>1, VecesEnSon
  <2>3. Cuantos(Tail(s), Cuyos(S, p)) = Cuantos(s, Cuyos(S, p)) - Ind(Head(s) \in Cuyos(S, p))
    BY <1>4, CuantosCola
  <2>4. Head(s) \in Cuyos(S, p) <=> Head(s).proc = p
    BY <1>1, <2>1
  <2>5. Ind(Head(s) \in Cuyos(S, p)) = Ind(Head(s).proc = p)
    BY <2>4 DEF Ind
  <2>. QED
    BY <1>2, <2>2, <2>3, <2>5
<1>. QED
  BY <1>3, <1>4

\* Every count is a number.
LEMMA SumaTipo ==
  ASSUME TypeOK, NEW p
  PROVE  /\ Ind(p \in por_llegar) \in {0, 1} /\ Ind(p \in terminados) \in {0, 1}
         /\ EnNew(p) \in Nat /\ EnReady(p) \in Nat /\ EnSuspReady(p) \in Nat
         /\ EnBlocked(p) \in Nat /\ Saliendo(p) \in {0, 1}
         /\ EnDespacho(p) \in Nat /\ EnDevueltos(p) \in Nat
         /\ Enviando(p) \in {0, 1} /\ EnMano(p) \in Nat
<1>1. /\ new \in Seq(Procesos) /\ ready \in Seq(Procesos) /\ susp_ready \in Seq(Procesos)
      /\ despacho \in Seq(PCB) /\ devueltos \in Seq(Devuelto)
      /\ blocked \in Seq(DOMAIN bloqueos)
  BY DEF TypeOK
<1>2. EnNew(p) \in Nat /\ EnReady(p) \in Nat /\ EnSuspReady(p) \in Nat
  BY <1>1, VecesSon DEF EnNew, EnReady, EnSuspReady
<1>3. EnDespacho(p) \in Nat /\ EnDevueltos(p) \in Nat
  BY <1>1, VecesEnSon DEF EnDespacho, EnDevueltos
<1>4. EnBlocked(p) \in Nat
  <2>1. IsFiniteSet(1..Len(blocked)) /\ DOMAIN blocked = 1..Len(blocked)
    BY <1>1, FS_Interval
  <2>2. IsFiniteSet({i \in DOMAIN blocked : ProcesoDe(blocked[i]) = p})
    BY <2>1, FS_Subset
  <2>. QED
    BY <2>2, FS_CardinalityType DEF EnBlocked
<1>5. EnMano(p) \in Nat
  <2>1. IsFiniteSet(Manos(p))
    BY HilosFinitos, FS_Subset DEF Manos
  <2>. QED
    BY <2>1, FS_CardinalityType DEF EnMano
<1>6. Saliendo(p) \in {0, 1} /\ Enviando(p) \in {0, 1}
  BY IndTipo DEF Saliendo, Enviando
<1>. QED
  BY <1>2, <1>3, <1>4, <1>5, <1>6, IndTipo

\* What a step leaves alone keeps its count.
LEMMA Quietos ==
  ASSUME NEW p
  PROVE  /\ new' = new => EnNew(p)' = EnNew(p)
         /\ ready' = ready => EnReady(p)' = EnReady(p)
         /\ susp_ready' = susp_ready => EnSuspReady(p)' = EnSuspReady(p)
         /\ blocked' = blocked /\ bloqueos' = bloqueos => EnBlocked(p)' = EnBlocked(p)
         /\ pc'["io"] # "decidir" => Saliendo(p)' = 0
         /\ pc["io"] # "decidir" => Saliendo(p) = 0
         /\ pc'["io"] = pc["io"] /\ atendido' = atendido /\ bloqueos' = bloqueos
              => Saliendo(p)' = Saliendo(p)
         /\ despacho' = despacho => EnDespacho(p)' = EnDespacho(p)
         /\ devueltos' = devueltos => EnDevueltos(p)' = EnDevueltos(p)
         /\ pc'["stp"] # "enviar" => Enviando(p)' = 0
         /\ pc["stp"] # "enviar" => Enviando(p) = 0
         /\ pc'["stp"] = pc["stp"] /\ en'["stp"] = en["stp"] => Enviando(p)' = Enviando(p)
         /\ (\A t \in APasar : /\ pc'[t] = "encolar" <=> pc[t] = "encolar"
                               /\ pc[t] = "encolar" => en'[t] = en[t])
              => EnMano(p)' = EnMano(p)
<1>1. ASSUME \A t \in APasar : /\ pc'[t] = "encolar" <=> pc[t] = "encolar"
                               /\ pc[t] = "encolar" => en'[t] = en[t]
      PROVE  EnMano(p)' = EnMano(p)
  <2>1. Manos(p)' = Manos(p)
    BY <1>1 DEF Manos
  <2>. QED
    BY <2>1 DEF EnMano
<1>2. /\ new' = new => EnNew(p)' = EnNew(p)
      /\ ready' = ready => EnReady(p)' = EnReady(p)
      /\ susp_ready' = susp_ready => EnSuspReady(p)' = EnSuspReady(p)
      /\ despacho' = despacho => EnDespacho(p)' = EnDespacho(p)
      /\ devueltos' = devueltos => EnDevueltos(p)' = EnDevueltos(p)
  BY DEF EnNew, EnReady, EnSuspReady, EnDespacho, EnDevueltos
<1>3. blocked' = blocked /\ bloqueos' = bloqueos => EnBlocked(p)' = EnBlocked(p)
  BY DEF EnBlocked, ProcesoDe
<1>4. /\ pc'["io"] # "decidir" => Saliendo(p)' = 0
      /\ pc["io"] # "decidir" => Saliendo(p) = 0
      /\ pc'["stp"] # "enviar" => Enviando(p)' = 0
      /\ pc["stp"] # "enviar" => Enviando(p) = 0
  BY DEF Saliendo, Enviando, Ind
<1>5. /\ pc'["io"] = pc["io"] /\ atendido' = atendido /\ bloqueos' = bloqueos
           => Saliendo(p)' = Saliendo(p)
      /\ pc'["stp"] = pc["stp"] /\ en'["stp"] = en["stp"] => Enviando(p)' = Enviando(p)
  BY DEF Saliendo, Enviando, ProcesoDe
<1>. QED
  BY <1>1, <1>2, <1>3, <1>4, <1>5

\* A thread takes a process in its hands to put it in ready, or has put it.
LEMMA ManoToma ==
  ASSUME TypeOK, NEW t \in APasar, NEW a, NEW q, Ir(t, a, "encolar"), Tomar(t, q),
         a # "encolar", NEW p
  PROVE  EnMano(p)' = EnMano(p) + Ind(q = p)
<1>1. /\ pc[t] # "encolar" /\ pc'[t] = "encolar" /\ en'[t] = q
      /\ \A h \in APasar : h # t => pc'[h] = pc[h] /\ en'[h] = en[h]
  BY DEF TypeOK, Sitios, Ir, Tomar, APasar, Hilos
<1>2. Manos(p) \ {t} = Manos(p)' \ {t} /\ t \notin Manos(p) /\ (t \in Manos(p)' <=> q = p)
  BY <1>1 DEF Manos
<1>3. IsFiniteSet(Manos(p))
  BY HilosFinitos, FS_Subset DEF Manos
<1>4. /\ Cardinality(Manos(p)) \in Nat
      /\ Cardinality(Manos(p)') = Cardinality(Manos(p)) - Ind(t \in Manos(p))
                                    + Ind(t \in Manos(p)')
  BY <1>2, <1>3, CambiaUno
<1>5. Ind(t \in Manos(p)) = 0 /\ Ind(t \in Manos(p)') = Ind(q = p) /\ Ind(q = p) \in {0, 1}
  BY <1>2 DEF Ind
<1>. QED
  BY <1>4, <1>5 DEF EnMano

LEMMA ManoDeja ==
  ASSUME TypeOK, NEW t \in APasar, NEW b, Ir(t, "encolar", b), UNCHANGED en,
         b # "encolar", NEW p
  PROVE  EnMano(p)' = EnMano(p) - Ind(en[t] = p)
<1>1. /\ pc[t] = "encolar" /\ pc'[t] # "encolar"
      /\ \A h \in APasar : h # t => pc'[h] = pc[h] /\ en'[h] = en[h]
  BY DEF TypeOK, Sitios, Ir, APasar, Hilos
<1>2. Manos(p) \ {t} = Manos(p)' \ {t} /\ t \notin Manos(p)' /\ (t \in Manos(p) <=> en[t] = p)
  BY <1>1 DEF Manos
<1>3. IsFiniteSet(Manos(p))
  BY HilosFinitos, FS_Subset DEF Manos
<1>4. /\ Cardinality(Manos(p)) \in Nat
      /\ Cardinality(Manos(p)') = Cardinality(Manos(p)) - Ind(t \in Manos(p))
                                    + Ind(t \in Manos(p)')
  BY <1>2, <1>3, CambiaUno
<1>5. Ind(t \in Manos(p)') = 0 /\ Ind(t \in Manos(p)) = Ind(en[t] = p) /\ Ind(en[t] = p) \in {0, 1}
  BY <1>2 DEF Ind
<1>. QED
  BY <1>4, <1>5 DEF EnMano

\* The process of a blocking never changes; nor does the count of the blocked.
LEMMA BlockedIgual ==
  ASSUME TypeOK, UNCHANGED blocked,
         \A c \in DOMAIN bloqueos : bloqueos'[c].proc = bloqueos[c].proc, NEW p
  PROVE  EnBlocked(p)' = EnBlocked(p)
<1>1. \A i \in DOMAIN blocked : blocked[i] \in DOMAIN bloqueos
  BY DEF TypeOK
<1>2. {i \in DOMAIN blocked' : bloqueos'[blocked'[i]].proc = p}
        = {i \in DOMAIN blocked : bloqueos[blocked[i]].proc = p}
  BY <1>1
<1>. QED
  BY <1>2 DEF EnBlocked, ProcesoDe

-----------------------------------------------------------------------------
(* Each process is in one place.                                           *)

\* The device serves the first of the list: only it removes from there.
Servido == pc["io"] = "usleep" => atendido = Head(blocked)

\* A step in which nothing that is counted moves.
LEMMA NadieSeMueve ==
  ASSUME TypeOK, Conservacion,
         UNCHANGED <<mundo, new, ready, susp_ready, blocked, despacho, devueltos>>,
         \A c \in DOMAIN bloqueos : bloqueos'[c].proc = bloqueos[c].proc,
         \/ UNCHANGED <<pc["io"], atendido, bloqueos>>
         \/ UNCHANGED <<pc["io"], atendido>> /\ DOMAIN bloqueos' = DOMAIN bloqueos
         \/ pc["io"] # "decidir" /\ pc'["io"] # "decidir",
         \/ UNCHANGED <<pc["stp"], en["stp"]>>
         \/ pc["stp"] # "enviar" /\ pc'["stp"] # "enviar",
         \A t \in APasar : /\ pc'[t] = "encolar" <=> pc[t] = "encolar"
                           /\ pc[t] = "encolar" => en'[t] = en[t]
  PROVE  Conservacion'
<1> SUFFICES ASSUME NEW p \in Procesos PROVE Suma(p)' = 1
  BY SumaEs
<1>1. Suma(p) = 1
  BY SumaEs
<1>2. /\ EnNew(p)' = EnNew(p) /\ EnReady(p)' = EnReady(p) /\ EnSuspReady(p)' = EnSuspReady(p)
      /\ EnDespacho(p)' = EnDespacho(p) /\ EnDevueltos(p)' = EnDevueltos(p)
      /\ EnMano(p)' = EnMano(p)
  BY Quietos
<1>3. EnBlocked(p)' = EnBlocked(p)
  BY BlockedIgual
<1>4. Saliendo(p)' = Saliendo(p)
  <2>1. CASE UNCHANGED <<pc["io"], atendido>>
    <3>1. atendido \in DOMAIN bloqueos \union {0}
      BY DEF TypeOK
    <3>. QED
      BY <2>1, <3>1 DEF Saliendo, ProcesoDe
  <2>2. CASE pc["io"] # "decidir" /\ pc'["io"] # "decidir"
    BY <2>2, Quietos
  <2>. QED
    BY <2>1, <2>2
<1>5. Enviando(p)' = Enviando(p)
  BY Quietos
<1>6. Ind(p \in por_llegar)' = Ind(p \in por_llegar) /\ Ind(p \in terminados)' = Ind(p \in terminados)
  BY DEF mundo
<1>. QED
  BY <1>1, <1>2, <1>3, <1>4, <1>5, <1>6 DEF Suma

\* The steps of a thread in which no process changes hands.
LEMMA NadieSeMueveHilo ==
  ASSUME TypeOK, Conservacion,
         UNCHANGED <<mundo, colas, bloqueos, despacho, devueltos>>,
         NEW t \in Hilos, NEW a, NEW b, Ir(t, a, b),
         a \notin {"encolar", "decidir", "enviar"}, b \notin {"encolar", "decidir", "enviar"},
         \A h \in Hilos : h # t => en'[h] = en[h],
         t = "io" \/ UNCHANGED atendido
  PROVE  Conservacion'
<1>1. /\ pc[t] = a /\ pc'[t] = b
      /\ \A h \in Hilos : h # t => pc'[h] = pc[h]
  BY DEF TypeOK, Sitios, Ir
<1>2. \/ UNCHANGED <<pc["io"], atendido, bloqueos>>
      \/ pc["io"] # "decidir" /\ pc'["io"] # "decidir"
  BY <1>1 DEF Hilos
<1>3. \/ UNCHANGED <<pc["stp"], en["stp"]>>
      \/ pc["stp"] # "enviar" /\ pc'["stp"] # "enviar"
  BY <1>1 DEF Hilos
<1>4. \A h \in APasar : /\ pc'[h] = "encolar" <=> pc[h] = "encolar"
                        /\ pc[h] = "encolar" => en'[h] = en[h]
  BY <1>1 DEF Hilos, APasar
<1>. QED
  BY <1>2, <1>3, <1>4, NadieSeMueve DEF colas

\* The console hands its process over.
LEMMA ConservacionConsola ==
  ASSUME TypeOK, Conservacion, NEW q \in Procesos, AtenderConsola(q) PROVE Conservacion'
<1> SUFFICES ASSUME NEW p \in Procesos PROVE Suma(p)' = 1
  BY SumaEs
<1>1. Suma(p) = 1
  BY SumaEs
<1>2. /\ UNCHANGED <<terminados, ready, susp_ready, blocked, pc, en, atendido, bloqueos,
                     despacho, devueltos>>
      /\ new' = Append(new, q) /\ q \in por_llegar /\ por_llegar' = por_llegar \ {q}
  BY DEF AtenderConsola, hilos, cpu
<1>3. /\ EnReady(p)' = EnReady(p) /\ EnSuspReady(p)' = EnSuspReady(p)
      /\ EnBlocked(p)' = EnBlocked(p) /\ Saliendo(p)' = Saliendo(p)
      /\ EnDespacho(p)' = EnDespacho(p) /\ EnDevueltos(p)' = EnDevueltos(p)
      /\ Enviando(p)' = Enviando(p) /\ EnMano(p)' = EnMano(p)
  BY <1>2, Quietos
<1>4. EnNew(p)' = EnNew(p) + Ind(q = p)
  BY <1>2, VecesPasos DEF EnNew, TypeOK
<1>5. Ind(p \in por_llegar)' = Ind(p \in por_llegar) - Ind(q = p)
  BY <1>2 DEF Ind
<1>6. Ind(p \in terminados)' = Ind(p \in terminados)
  BY <1>2
<1>. QED
  BY <1>1, <1>3, <1>4, <1>5, <1>6, SumaTipo, IndTipo DEF Suma

\* The scheduler takes a process out of ready.
LEMMA ConservacionExtraer ==
  ASSUME TypeOK, Conservacion, Extraer PROVE Conservacion'
<1> SUFFICES ASSUME NEW p \in Procesos PROVE Suma(p)' = 1
  BY SumaEs
<1>1. Suma(p) = 1
  BY SumaEs
<1>2. UNCHANGED <<mundo, new, susp_ready, blocked, atendido, bloqueos, despacho, devueltos>>
  BY DEF Extraer, cpu
<1>3. PICK i \in DOMAIN ready : Tomar("stp", ready[i]) /\ ready' = SinIndice(ready, i)
  BY DEF Extraer, Elegibles
<1>4. /\ pc["stp"] = "extraer" /\ pc'["stp"] = "enviar" /\ en'["stp"] = ready[i]
      /\ \A h \in APasar : pc'[h] = pc[h] /\ en'[h] = en[h]
  BY <1>3 DEF Extraer, Ir, Tomar, TypeOK, Sitios, Hilos, APasar
<1>5. pc'["io"] = pc["io"]
  BY <1>4 DEF APasar
<1>6. /\ EnNew(p)' = EnNew(p) /\ EnSuspReady(p)' = EnSuspReady(p)
      /\ EnBlocked(p)' = EnBlocked(p) /\ Saliendo(p)' = Saliendo(p)
      /\ EnDespacho(p)' = EnDespacho(p) /\ EnDevueltos(p)' = EnDevueltos(p)
      /\ Enviando(p) = 0 /\ EnMano(p)' = EnMano(p)
  BY <1>2, <1>4, <1>5, Quietos
<1>7. EnReady(p)' = EnReady(p) - Ind(ready[i] = p)
  BY <1>3, VecesPasos DEF EnReady, TypeOK
<1>8. Enviando(p)' = Ind(ready[i] = p)
  BY <1>4 DEF Enviando, Ind
<1>9. Ind(p \in por_llegar)' = Ind(p \in por_llegar) /\ Ind(p \in terminados)' = Ind(p \in terminados)
  BY <1>2 DEF mundo
<1>. QED
  BY <1>1, <1>6, <1>7, <1>8, <1>9, SumaTipo, IndTipo DEF Suma

\* It sends it to the CPU.
LEMMA ConservacionEnviar ==
  ASSUME IInv, Conservacion, Enviar PROVE Conservacion'
<1> SUFFICES ASSUME NEW p \in Procesos PROVE Suma(p)' = 1
  BY SumaEs
<1>0. TypeOK
  BY DEF IInv
<1>1. Suma(p) = 1
  BY SumaEs
<1>. DEFINE e == [proc |-> en["stp"], tabla |-> tabla[en["stp"]]]
<1>2. /\ UNCHANGED <<mundo, new, ready, susp_ready, blocked, atendido, bloqueos, devueltos>>
      /\ despacho' = Append(despacho, e)
  BY DEF Enviar, colas
<1>3. /\ pc["stp"] = "enviar" /\ pc'["stp"] # "enviar"
      /\ \A h \in APasar : pc'[h] = pc[h] /\ en'[h] = en[h]
  BY <1>0 DEF Enviar, Ir, Soltar, TypeOK, Sitios, Hilos, APasar
<1>4. e \in PCB /\ e.proc = en["stp"]
  BY <1>0, <1>3 DEF IInv, Punteros, TypeOK, PCB
<1>. HIDE DEF e
<1>5. pc'["io"] = pc["io"]
  BY <1>3 DEF APasar
<1>6. /\ EnNew(p)' = EnNew(p) /\ EnReady(p)' = EnReady(p) /\ EnSuspReady(p)' = EnSuspReady(p)
      /\ EnBlocked(p)' = EnBlocked(p) /\ Saliendo(p)' = Saliendo(p)
      /\ EnDevueltos(p)' = EnDevueltos(p)
      /\ Enviando(p)' = 0 /\ EnMano(p)' = EnMano(p)
  BY <1>2, <1>3, <1>5, Quietos
<1>7. EnDespacho(p)' = EnDespacho(p) + Ind(e.proc = p)
  BY <1>0, <1>2, <1>4, VecesEnPasos DEF EnDespacho, TypeOK
<1>8. Enviando(p) = Ind(e.proc = p)
  BY <1>3, <1>4 DEF Enviando
<1>9. Ind(p \in por_llegar)' = Ind(p \in por_llegar) /\ Ind(p \in terminados)' = Ind(p \in terminados)
  BY <1>2 DEF mundo
<1>. QED
  BY <1>0, <1>1, <1>6, <1>7, <1>8, <1>9, SumaTipo, IndTipo DEF Suma

\* pasar_a_ready pushes the process its thread holds.
LEMMA ConservacionEncolar ==
  ASSUME IInv, Conservacion, NEW t \in APasar, Encolar(t) PROVE Conservacion'
<1> SUFFICES ASSUME NEW p \in Procesos PROVE Suma(p)' = 1
  BY SumaEs
<1>0. TypeOK
  BY DEF IInv
<1>1. Suma(p) = 1
  BY SumaEs
<1>2. /\ UNCHANGED <<mundo, new, susp_ready, blocked, atendido, bloqueos, despacho, devueltos, en>>
      /\ ready' = Append(ready, en[t]) /\ Ir(t, "encolar", TrasEncolar(t))
      /\ TrasEncolar(t) \notin {"encolar", "decidir", "enviar"}
  BY DEF Encolar, TrasEncolar, TrasTabla, cpu
<1>3. /\ pc[t] = "encolar" /\ pc'[t] = TrasEncolar(t) /\ pc'["stp"] = pc["stp"]
      /\ \A h \in APasar : h # t => pc'[h] = pc[h]
  BY <1>0, <1>2 DEF Ir, TypeOK, Sitios, Hilos, APasar
<1>4. en[t] \in Procesos
  BY <1>3 DEF IInv, Punteros, Pasando
<1>5. Saliendo(p)' = Saliendo(p)
  <2>1. CASE t = "io"
    BY <1>2, <1>3, <2>1, Quietos
  <2>2. CASE t # "io"
    <3>1. pc'["io"] = pc["io"]
      BY <1>3, <2>2 DEF APasar
    <3>. QED
      BY <1>2, <3>1, Quietos
  <2>. QED
    BY <2>1, <2>2
<1>6. /\ EnNew(p)' = EnNew(p) /\ EnSuspReady(p)' = EnSuspReady(p)
      /\ EnBlocked(p)' = EnBlocked(p)
      /\ EnDespacho(p)' = EnDespacho(p) /\ EnDevueltos(p)' = EnDevueltos(p)
      /\ Enviando(p)' = Enviando(p)
  BY <1>2, <1>3, Quietos
<1>7. EnReady(p)' = EnReady(p) + Ind(en[t] = p)
  BY <1>0, <1>2, <1>4, VecesPasos DEF EnReady, TypeOK
<1>8. EnMano(p)' = EnMano(p) - Ind(en[t] = p)
  BY <1>0, <1>2, ManoDeja
<1>9. Ind(p \in por_llegar)' = Ind(p \in por_llegar) /\ Ind(p \in terminados)' = Ind(p \in terminados)
  BY <1>2 DEF mundo
<1>. QED
  BY <1>0, <1>1, <1>5, <1>6, <1>7, <1>8, <1>9, SumaTipo, IndTipo DEF Suma

\* A thread that has taken a semaphore finds its queue with an element.
LEMMA HayElementos ==
  ASSUME IInv
  PROVE  /\ pc["ltp"] = "mirar" => Len(new) > 0
         /\ pc["io"] = "usleep" => Len(blocked) > 0
         /\ pc["des"] = "extraer" => Len(susp_ready) > 0
<1>1. /\ SemNew /\ SemBloqueados /\ SemSuspReady
      /\ sem["new"] \in Nat /\ sem["bloqueados"] \in Nat /\ sem["susp_ready"] \in Nat
  BY Naturales DEF IInv, SemaforosExactos
<1>2. pc["ltp"] = "mirar" => Admitiendo = 1
  BY DEF Admitiendo, Ind
<1>3. pc["io"] = "usleep" => Sirviendo = 1
  BY DEF Sirviendo, Ind
<1>4. pc["des"] = "extraer" => Desuspendiendo = 1
  BY DEF Desuspendiendo, Ind
<1>5. pc["ltp"] = "mirar" => Len(new) > 0
  BY <1>1, <1>2 DEF SemNew
<1>6. pc["io"] = "usleep" => Len(blocked) > 0
  BY <1>1, <1>3 DEF SemBloqueados
<1>7. pc["des"] = "extraer" => Len(susp_ready) > 0
  BY <1>1, <1>4 DEF SemSuspReady
<1>. QED
  BY <1>5, <1>6, <1>7

\* The long-term scheduler takes the oldest of new.
LEMMA ConservacionAdmitir ==
  ASSUME IInv, Conservacion, AdmitirNuevo PROVE Conservacion'
<1> SUFFICES ASSUME NEW p \in Procesos PROVE Suma(p)' = 1
  BY SumaEs
<1>0. TypeOK
  BY DEF IInv
<1>1. Suma(p) = 1
  BY SumaEs
<1>2. /\ UNCHANGED <<mundo, ready, susp_ready, blocked, atendido, bloqueos, despacho, devueltos>>
      /\ new' = Tail(new) /\ Tomar("ltp", Head(new)) /\ Ir("ltp", "mirar", "encolar")
  BY DEF AdmitirNuevo, cpu
<1>3. /\ pc["ltp"] = "mirar" /\ pc'["stp"] = pc["stp"] /\ pc'["io"] = pc["io"]
      /\ en'["stp"] = en["stp"]
  BY <1>0, <1>2 DEF Ir, Tomar, TypeOK, Sitios, Hilos
<1>4. Len(new) > 0
  BY <1>3, HayElementos
<1>5. /\ EnReady(p)' = EnReady(p) /\ EnSuspReady(p)' = EnSuspReady(p)
      /\ EnBlocked(p)' = EnBlocked(p) /\ Saliendo(p)' = Saliendo(p)
      /\ EnDespacho(p)' = EnDespacho(p) /\ EnDevueltos(p)' = EnDevueltos(p)
      /\ Enviando(p)' = Enviando(p)
  BY <1>2, <1>3, Quietos
<1>6. EnNew(p)' = EnNew(p) - Ind(Head(new) = p)
  BY <1>0, <1>2, <1>4, VecesPasos DEF EnNew, TypeOK
<1>7. EnMano(p)' = EnMano(p) + Ind(Head(new) = p)
  BY <1>0, <1>2, ManoToma DEF APasar
<1>8. Ind(p \in por_llegar)' = Ind(p \in por_llegar) /\ Ind(p \in terminados)' = Ind(p \in terminados)
  BY <1>2 DEF mundo
<1>. QED
  BY <1>0, <1>1, <1>5, <1>6, <1>7, <1>8, SumaTipo, IndTipo DEF Suma

\* desuspendidor takes the first of susp_ready.
LEMMA ConservacionDesuspender ==
  ASSUME IInv, Conservacion, Desuspender PROVE Conservacion'
<1> SUFFICES ASSUME NEW p \in Procesos PROVE Suma(p)' = 1
  BY SumaEs
<1>0. TypeOK
  BY DEF IInv
<1>1. Suma(p) = 1
  BY SumaEs
<1>2. /\ UNCHANGED <<mundo, new, ready, blocked, atendido, bloqueos, despacho, devueltos>>
      /\ susp_ready' = Tail(susp_ready) /\ Tomar("des", Head(susp_ready))
      /\ Ir("des", "extraer", "encolar")
  BY DEF Desuspender, cpu
<1>3. /\ pc["des"] = "extraer" /\ pc'["stp"] = pc["stp"] /\ pc'["io"] = pc["io"]
      /\ en'["stp"] = en["stp"]
  BY <1>0, <1>2 DEF Ir, Tomar, TypeOK, Sitios, Hilos
<1>4. Len(susp_ready) > 0
  BY <1>3, HayElementos
<1>5. /\ EnReady(p)' = EnReady(p) /\ EnNew(p)' = EnNew(p)
      /\ EnBlocked(p)' = EnBlocked(p) /\ Saliendo(p)' = Saliendo(p)
      /\ EnDespacho(p)' = EnDespacho(p) /\ EnDevueltos(p)' = EnDevueltos(p)
      /\ Enviando(p)' = Enviando(p)
  BY <1>2, <1>3, Quietos
<1>6. EnSuspReady(p)' = EnSuspReady(p) - Ind(Head(susp_ready) = p)
  BY <1>0, <1>2, <1>4, VecesPasos DEF EnSuspReady, TypeOK
<1>7. EnMano(p)' = EnMano(p) + Ind(Head(susp_ready) = p)
  BY <1>0, <1>2, ManoToma DEF APasar
<1>8. Ind(p \in por_llegar)' = Ind(p \in por_llegar) /\ Ind(p \in terminados)' = Ind(p \in terminados)
  BY <1>2 DEF mundo
<1>. QED
  BY <1>0, <1>1, <1>5, <1>6, <1>7, <1>8, SumaTipo, IndTipo DEF Suma

\* The I/O device takes the blocking it serves off the list: the first.
LEMMA ConservacionTerminarIO ==
  ASSUME IInv, Servido, Conservacion, TerminarIO PROVE Conservacion'
<1> SUFFICES ASSUME NEW p \in Procesos PROVE Suma(p)' = 1
  BY SumaEs
<1>0. TypeOK /\ blocked \in Seq(DOMAIN bloqueos)
  BY DEF IInv, TypeOK
<1>1. Suma(p) = 1
  BY SumaEs
<1>2. /\ UNCHANGED <<mundo, new, ready, susp_ready, atendido, bloqueos, despacho, devueltos, en>>
      /\ blocked' = Tail(blocked) /\ Ir("io", "usleep", "decidir")
  BY DEF TerminarIO, cpu
<1>3. /\ pc["io"] = "usleep" /\ pc'["io"] = "decidir"
      /\ \A h \in Hilos : h # "io" => pc'[h] = pc[h]
  BY <1>0, <1>2 DEF Ir, TypeOK, Sitios, Hilos
<1>4. Len(blocked) > 0 /\ atendido = Head(blocked) /\ Head(blocked) \in DOMAIN bloqueos
  BY <1>0, <1>3, HayElementos, CabezaYCola DEF Servido
<1>5. atendido # 0
  BY <1>3 DEF IInv, Punteros
<1>6. /\ EnReady(p)' = EnReady(p) /\ EnNew(p)' = EnNew(p) /\ EnSuspReady(p)' = EnSuspReady(p)
      /\ EnDespacho(p)' = EnDespacho(p) /\ EnDevueltos(p)' = EnDevueltos(p)
      /\ Saliendo(p) = 0
  BY <1>2, <1>3, Quietos
<1>7. Enviando(p)' = Enviando(p) /\ EnMano(p)' = EnMano(p)
  <2>1. pc'["stp"] = pc["stp"] /\ \A h \in APasar : pc'[h] = "encolar" <=> pc[h] = "encolar"
    BY <1>3 DEF Hilos, APasar
  <2>. QED
    BY <1>2, <2>1, Quietos
<1>8. EnBlocked(p)' = EnBlocked(p) - Ind(ProcesoDe(atendido) = p)
  <2>. DEFINE C == {c \in DOMAIN bloqueos : ProcesoDe(c) = p}
  <2>1. Tail(blocked) \in Seq(DOMAIN bloqueos)
    BY <1>0, <1>4, CabezaYCola
  <2>2. \A i \in DOMAIN blocked : blocked[i] \in DOMAIN bloqueos
    BY <1>0
  <2>3. \A i \in DOMAIN Tail(blocked) : Tail(blocked)[i] \in DOMAIN bloqueos
    BY <2>1
  <2>4. EnBlocked(p) = Cuantos(blocked, C)
    <3>1. {i \in DOMAIN blocked : ProcesoDe(blocked[i]) = p} = {i \in DOMAIN blocked : blocked[i] \in C}
      BY <2>2
    <3>. QED
      BY <3>1 DEF EnBlocked, Cuantos
  <2>5. EnBlocked(p)' = Cuantos(Tail(blocked), C)
    <3>1. {i \in DOMAIN Tail(blocked) : ProcesoDe(Tail(blocked)[i]) = p}
            = {i \in DOMAIN Tail(blocked) : Tail(blocked)[i] \in C}
      BY <2>3
    <3>2. /\ EnBlocked(p)' = Cardinality({i \in DOMAIN blocked' : bloqueos'[blocked'[i]].proc = p})
          /\ blocked' = Tail(blocked) /\ bloqueos' = bloqueos
      BY <1>2 DEF EnBlocked, ProcesoDe
    <3>3. EnBlocked(p)' = Cardinality({i \in DOMAIN Tail(blocked) : bloqueos[Tail(blocked)[i]].proc = p})
      BY <3>2
    <3>4. EnBlocked(p)' = Cardinality({i \in DOMAIN Tail(blocked) : ProcesoDe(Tail(blocked)[i]) = p})
      BY <3>3 DEF ProcesoDe
    <3>. QED
      BY <3>1, <3>4 DEF Cuantos
  <2>6. Head(blocked) \in C <=> ProcesoDe(atendido) = p
    BY <1>4
  <2>. HIDE DEF C
  <2>7. Cuantos(Tail(blocked), C) = Cuantos(blocked, C) - Ind(Head(blocked) \in C)
    BY <1>0, <1>4, CuantosCola
  <2>8. Ind(Head(blocked) \in C) = Ind(ProcesoDe(atendido) = p)
    BY <2>6 DEF Ind
  <2>. QED
    BY <2>4, <2>5, <2>7, <2>8
<1>9. Saliendo(p)' = Ind(ProcesoDe(atendido) = p)
  BY <1>2, <1>3, <1>5 DEF Saliendo, Ind, ProcesoDe
<1>10. Ind(p \in por_llegar)' = Ind(p \in por_llegar) /\ Ind(p \in terminados)' = Ind(p \in terminados)
  BY <1>2 DEF mundo
<1>11. EnBlocked(p)' + Saliendo(p)' = EnBlocked(p)
  <2>1. EnBlocked(p) \in Nat /\ Ind(ProcesoDe(atendido) = p) \in {0, 1}
    BY <1>0, SumaTipo, IndTipo
  <2>. QED
    BY <1>8, <1>9, <2>1
<1>12. EnBlocked(p)' \in Int /\ Saliendo(p)' \in Int
  <2>1. EnBlocked(p) \in Nat /\ Ind(ProcesoDe(atendido) = p) \in {0, 1}
    BY <1>0, SumaTipo, IndTipo
  <2>. QED
    BY <1>8, <1>9, <2>1
<1>13. Suma(p)' = Ind(p \in por_llegar) + Ind(p \in terminados)
             + EnNew(p) + EnReady(p) + EnSuspReady(p) + EnBlocked(p)' + Saliendo(p)'
             + EnDespacho(p) + EnDevueltos(p) + Enviando(p) + EnMano(p)
  BY <1>6, <1>7, <1>10 DEF Suma
<1>14. EnBlocked(p)' + Saliendo(p)' = EnBlocked(p) + Saliendo(p)
  BY <1>0, <1>6, <1>11, SumaTipo
<1>15. /\ Ind(p \in por_llegar) \in Int /\ Ind(p \in terminados) \in Int
       /\ EnNew(p) \in Int /\ EnReady(p) \in Int /\ EnSuspReady(p) \in Int
       /\ EnBlocked(p) \in Int /\ Saliendo(p) \in Int /\ EnDespacho(p) \in Int
       /\ EnDevueltos(p) \in Int /\ Enviando(p) \in Int /\ EnMano(p) \in Int
  BY <1>0, SumaTipo
<1>16. Suma(p)' = Suma(p)
  BY <1>12, <1>13, <1>14, <1>15, DosSumandos DEF Suma
<1>. QED
  BY <1>1, <1>16

\* Writing salida leaves the process of every blocking as it was.
LEMMA SalidaIgual ==
  ASSUME TypeOK, atendido \in DOMAIN bloqueos, NEW s,
         bloqueos' = [bloqueos EXCEPT ![atendido].salida = s]
  PROVE  \A c \in DOMAIN bloqueos : bloqueos'[c].proc = bloqueos[c].proc
<1>1. \A c \in DOMAIN bloqueos : bloqueos[c] \in Bloqueo
  BY DEF TypeOK
<1>. QED
  BY <1>1 DEF Bloqueo

\* It hands the process to pasar_a_ready.
LEMMA ConservacionSalirAReady ==
  ASSUME IInv, Conservacion, SalirAReady PROVE Conservacion'
<1> SUFFICES ASSUME NEW p \in Procesos PROVE Suma(p)' = 1
  BY SumaEs
<1>0. TypeOK
  BY DEF IInv
<1>1. Suma(p) = 1
  BY SumaEs
<1>2. /\ UNCHANGED <<mundo, new, ready, susp_ready, blocked, despacho, devueltos>>
      /\ Ir("io", "decidir", "encolar") /\ Tomar("io", ProcesoDe(atendido))
      /\ bloqueos' = [bloqueos EXCEPT ![atendido].salida = "ready"]
  BY DEF SalirAReady, cpu, colas
<1>3. /\ pc["io"] = "decidir" /\ pc'["io"] = "encolar"
      /\ pc'["stp"] = pc["stp"] /\ en'["stp"] = en["stp"]
  BY <1>0, <1>2 DEF Ir, Tomar, TypeOK, Sitios, Hilos
<1>4. atendido # 0 /\ atendido \in DOMAIN bloqueos
  BY <1>0, <1>3 DEF IInv, Punteros, TypeOK
<1>5. /\ EnReady(p)' = EnReady(p) /\ EnNew(p)' = EnNew(p) /\ EnSuspReady(p)' = EnSuspReady(p)
      /\ EnDespacho(p)' = EnDespacho(p) /\ EnDevueltos(p)' = EnDevueltos(p)
      /\ Enviando(p)' = Enviando(p) /\ Saliendo(p)' = 0
  BY <1>2, <1>3, Quietos
<1>6. EnBlocked(p)' = EnBlocked(p)
  BY <1>0, <1>2, <1>4, SalidaIgual, BlockedIgual
<1>7. Saliendo(p) = Ind(ProcesoDe(atendido) = p)
  BY <1>3, <1>4 DEF Saliendo, Ind
<1>8. EnMano(p)' = EnMano(p) + Ind(ProcesoDe(atendido) = p)
  BY <1>0, <1>2, ManoToma DEF APasar
<1>9. Ind(p \in por_llegar)' = Ind(p \in por_llegar) /\ Ind(p \in terminados)' = Ind(p \in terminados)
  BY <1>2 DEF mundo
<1>. QED
  BY <1>0, <1>1, <1>5, <1>6, <1>7, <1>8, <1>9, SumaTipo, IndTipo DEF Suma

\* Or pushes it to susp_ready.
LEMMA ConservacionSalirASusp ==
  ASSUME IInv, Conservacion, SalirASuspReady PROVE Conservacion'
<1> SUFFICES ASSUME NEW p \in Procesos PROVE Suma(p)' = 1
  BY SumaEs
<1>0. TypeOK
  BY DEF IInv
<1>1. Suma(p) = 1
  BY SumaEs
<1>2. /\ UNCHANGED <<mundo, new, ready, blocked, despacho, devueltos, en>>
      /\ Ir("io", "decidir", "bloqueados")
      /\ susp_ready' = Append(susp_ready, ProcesoDe(atendido))
      /\ bloqueos' = [bloqueos EXCEPT ![atendido].salida = "susp_ready"]
  BY DEF SalirASuspReady, cpu
<1>3. /\ pc["io"] = "decidir" /\ pc'["io"] = "bloqueados" /\ pc'["stp"] = pc["stp"]
      /\ \A h \in APasar : pc'[h] = "encolar" <=> pc[h] = "encolar"
  BY <1>0, <1>2 DEF Ir, TypeOK, Sitios, Hilos, APasar
<1>4. atendido # 0 /\ atendido \in DOMAIN bloqueos
  BY <1>0, <1>3 DEF IInv, Punteros, TypeOK
<1>5. /\ EnReady(p)' = EnReady(p) /\ EnNew(p)' = EnNew(p)
      /\ EnDespacho(p)' = EnDespacho(p) /\ EnDevueltos(p)' = EnDevueltos(p)
      /\ Enviando(p)' = Enviando(p) /\ Saliendo(p)' = 0 /\ EnMano(p)' = EnMano(p)
  BY <1>2, <1>3, Quietos
<1>6. EnBlocked(p)' = EnBlocked(p)
  BY <1>0, <1>2, <1>4, SalidaIgual, BlockedIgual
<1>7. Saliendo(p) = Ind(ProcesoDe(atendido) = p)
  BY <1>3, <1>4 DEF Saliendo, Ind
<1>8. EnSuspReady(p)' = EnSuspReady(p) + Ind(ProcesoDe(atendido) = p)
  <2>1. bloqueos \in Seq(Bloqueo) /\ susp_ready \in Seq(Procesos)
    BY <1>0 DEF TypeOK
  <2>2. bloqueos[atendido] \in Bloqueo
    BY <1>4, <2>1
  <2>3. ProcesoDe(atendido) \in Procesos
    BY <2>2 DEF ProcesoDe, Bloqueo
  <2>. QED
    BY <1>2, <2>1, <2>3, VecesPasos DEF EnSuspReady
<1>9. Ind(p \in por_llegar)' = Ind(p \in por_llegar) /\ Ind(p \in terminados)' = Ind(p \in terminados)
  BY <1>2 DEF mundo
<1>. QED
  BY <1>0, <1>1, <1>5, <1>6, <1>7, <1>8, <1>9, SumaTipo, IndTipo DEF Suma

\* The listener reads what the CPU returned.
LEMMA RecibirQuita ==
  ASSUME TypeOK, NEW op, Recibir(op), NEW p
  PROVE  /\ Head(devueltos) \in Devuelto /\ Head(devueltos).proc \in Procesos
         /\ EnDevueltos(p)' = EnDevueltos(p) - Ind(Head(devueltos).proc = p)
         /\ EnDevueltos(p)' \in Nat
<1>1. /\ devueltos \in Seq(Devuelto) /\ devueltos # <<>> /\ devueltos' = Tail(devueltos)
  BY DEF Recibir, TypeOK
<1>2. Len(devueltos) > 0 /\ Head(devueltos) \in Devuelto /\ Tail(devueltos) \in Seq(Devuelto)
  BY <1>1, NoVacia, CabezaYCola
<1>3. Head(devueltos).proc \in Procesos
  BY <1>2 DEF Devuelto
<1>4. VecesEn(p, Tail(devueltos)) = VecesEn(p, devueltos) - Ind(Head(devueltos).proc = p)
  BY <1>1, <1>2, VecesEnPasos
<1>5. VecesEn(p, Tail(devueltos)) \in Nat
  BY <1>2, VecesEnSon
<1>. QED
  BY <1>1, <1>2, <1>3, <1>4, <1>5 DEF EnDevueltos

\* A process asks for I/O: from the listener to the list of the blocked.
LEMMA ConservacionRecibirBloqueo ==
  ASSUME IInv, Conservacion, RecibirBloqueo PROVE Conservacion'
<1> SUFFICES ASSUME NEW p \in Procesos PROVE Suma(p)' = 1
  BY SumaEs
<1>0. TypeOK /\ blocked \in Seq(DOMAIN bloqueos) /\ bloqueos \in Seq(Bloqueo)
  BY DEF IInv, TypeOK
<1>1. Suma(p) = 1
  BY SumaEs
<1>. DEFINE q == Head(devueltos).proc
            n == Len(bloqueos) + 1
            e == [proc |-> q, suspendido |-> FALSE,
                  salida |-> "pendiente", pc |-> "durmiendo", i |-> 0, n |-> 0, primero |-> 0]
<1>2. /\ UNCHANGED <<mundo, new, ready, susp_ready, en, atendido, despacho>>
      /\ Ir("disp", "escuchar", "liberar") /\ Recibir("BLOQUEO_IO")
      /\ blocked' = Append(blocked, n) /\ bloqueos' = Append(bloqueos, e)
  BY DEF RecibirBloqueo, BloqueoNuevo
<1>3. q \in Procesos /\ EnDevueltos(p)' = EnDevueltos(p) - Ind(q = p)
  BY <1>0, <1>2, RecibirQuita
<1>4. /\ e.proc = q /\ n \notin DOMAIN bloqueos
      /\ DOMAIN bloqueos' = DOMAIN bloqueos \union {n} /\ bloqueos'[n] = e
      /\ \A c \in DOMAIN bloqueos : bloqueos'[c] = bloqueos[c]
  <2>1. e.proc = q
    OBVIOUS
  <2>. HIDE DEF e
  <2>2. /\ Len(bloqueos) \in Nat /\ DOMAIN bloqueos = 1..Len(bloqueos)
        /\ DOMAIN bloqueos' = 1..(Len(bloqueos) + 1) /\ bloqueos'[n] = e
        /\ \A c \in DOMAIN bloqueos : bloqueos'[c] = bloqueos[c]
    BY <1>0, <1>2
  <2>. QED
    BY <2>1, <2>2
<1>. HIDE DEF q, n, e
<1>5. /\ pc'["stp"] = pc["stp"] /\ pc'["io"] = pc["io"]
      /\ \A h \in APasar : pc'[h] = "encolar" <=> pc[h] = "encolar"
  BY <1>0, <1>2 DEF Ir, TypeOK, Sitios, Hilos, APasar
<1>6. /\ EnReady(p)' = EnReady(p) /\ EnNew(p)' = EnNew(p) /\ EnSuspReady(p)' = EnSuspReady(p)
      /\ EnDespacho(p)' = EnDespacho(p)
      /\ Enviando(p)' = Enviando(p) /\ EnMano(p)' = EnMano(p)
  BY <1>2, <1>5, Quietos
<1>7. Saliendo(p)' = Saliendo(p)
  <2>1. atendido \in DOMAIN bloqueos \/ atendido = 0
    BY <1>0 DEF TypeOK
  <2>. QED
    BY <1>2, <1>4, <1>5, <2>1 DEF Saliendo, ProcesoDe
<1>8. EnBlocked(p)' = EnBlocked(p) + Ind(q = p)
  <2>. DEFINE T == DOMAIN bloqueos \union {n}
              C == {c \in T : bloqueos'[c].proc = p}
  <2>1. blocked \in Seq(T) /\ n \in T /\ Append(blocked, n) \in Seq(T)
    BY <1>0
  <2>2. \A i \in DOMAIN blocked : /\ blocked[i] \in DOMAIN bloqueos
                                  /\ blocked[i] \in T
                                  /\ bloqueos'[blocked[i]].proc = bloqueos[blocked[i]].proc
    BY <1>0, <1>4
  <2>3. \A i \in DOMAIN Append(blocked, n) : Append(blocked, n)[i] \in T
    BY <2>1
  <2>4. EnBlocked(p) = Cuantos(blocked, C)
    <3>1. {i \in DOMAIN blocked : ProcesoDe(blocked[i]) = p} = {i \in DOMAIN blocked : blocked[i] \in C}
      BY <2>2 DEF ProcesoDe
    <3>. QED
      BY <3>1 DEF EnBlocked, Cuantos
  <2>5. EnBlocked(p)' = Cuantos(Append(blocked, n), C)
    <3>1. {i \in DOMAIN Append(blocked, n) : bloqueos'[Append(blocked, n)[i]].proc = p}
            = {i \in DOMAIN Append(blocked, n) : Append(blocked, n)[i] \in C}
      BY <2>3
    <3>2. /\ EnBlocked(p)' = Cardinality({i \in DOMAIN blocked' : bloqueos'[blocked'[i]].proc = p})
          /\ blocked' = Append(blocked, n)
      BY <1>2 DEF EnBlocked, ProcesoDe
    <3>3. EnBlocked(p)' = Cardinality({i \in DOMAIN Append(blocked, n) :
                                         bloqueos'[Append(blocked, n)[i]].proc = p})
      BY <3>2
    <3>. QED
      BY <3>1, <3>3 DEF Cuantos
  <2>6. n \in C <=> q = p
    BY <1>4
  <2>. HIDE DEF C, T
  <2>7. Cuantos(Append(blocked, n), C) = Cuantos(blocked, C) + Ind(n \in C)
    BY <2>1, CuantosAgregar
  <2>8. Ind(n \in C) = Ind(q = p)
    BY <2>6 DEF Ind
  <2>. QED
    BY <2>4, <2>5, <2>7, <2>8
<1>9. Ind(p \in por_llegar)' = Ind(p \in por_llegar) /\ Ind(p \in terminados)' = Ind(p \in terminados)
  BY <1>2 DEF mundo
<1>10. /\ Ind(p \in por_llegar) \in {0, 1} /\ Ind(p \in terminados) \in {0, 1}
       /\ EnNew(p) \in Nat /\ EnReady(p) \in Nat /\ EnSuspReady(p) \in Nat
       /\ EnBlocked(p) \in Nat /\ Saliendo(p) \in {0, 1}
       /\ EnDespacho(p) \in Nat /\ EnDevueltos(p) \in Nat
       /\ Enviando(p) \in {0, 1} /\ EnMano(p) \in Nat /\ Ind(q = p) \in {0, 1}
  BY <1>0, SumaTipo, IndTipo
<1>11. EnDevueltos(p)' = EnDevueltos(p) - Ind(q = p)
  BY <1>3
<1>. QED
  BY <1>1, <1>6, <1>7, <1>8, <1>9, <1>10, <1>11 DEF Suma

\* A process is interrupted: the listener puts it back in ready.
LEMMA ConservacionRecibirInterrumpido ==
  ASSUME IInv, Conservacion, RecibirInterrumpido PROVE Conservacion'
<1> SUFFICES ASSUME NEW p \in Procesos PROVE Suma(p)' = 1
  BY SumaEs
<1>0. TypeOK
  BY DEF IInv
<1>1. Suma(p) = 1
  BY SumaEs
<1>. DEFINE q == Head(devueltos).proc
<1>2. /\ UNCHANGED <<mundo, new, ready, susp_ready, blocked, bloqueos, atendido, despacho>>
      /\ Ir("disp", "escuchar", "encolar") /\ Recibir("INTERRUPCION") /\ Tomar("disp", q)
  BY DEF RecibirInterrumpido, colas
<1>3. EnDevueltos(p)' = EnDevueltos(p) - Ind(q = p)
  BY <1>0, <1>2, RecibirQuita
<1>. HIDE DEF q
<1>4. EnMano(p)' = EnMano(p) + Ind(q = p)
  BY <1>0, <1>2, ManoToma DEF APasar
<1>5. pc'["stp"] = pc["stp"] /\ pc'["io"] = pc["io"] /\ en'["stp"] = en["stp"]
  BY <1>0, <1>2 DEF Ir, Tomar, TypeOK, Sitios, Hilos
<1>6. /\ EnReady(p)' = EnReady(p) /\ EnNew(p)' = EnNew(p) /\ EnSuspReady(p)' = EnSuspReady(p)
      /\ EnBlocked(p)' = EnBlocked(p) /\ Saliendo(p)' = Saliendo(p)
      /\ EnDespacho(p)' = EnDespacho(p) /\ Enviando(p)' = Enviando(p)
  BY <1>2, <1>5, Quietos
<1>7. Ind(p \in por_llegar)' = Ind(p \in por_llegar) /\ Ind(p \in terminados)' = Ind(p \in terminados)
  BY <1>2 DEF mundo
<1>. QED
  BY <1>0, <1>1, <1>3, <1>4, <1>6, <1>7, SumaTipo, IndTipo DEF Suma

\* A process ends.  It had not ended before: it was in one place, with the
\* listener.
LEMMA ConservacionRecibirExit ==
  ASSUME IInv, Conservacion, RecibirExit PROVE Conservacion'
<1> SUFFICES ASSUME NEW p \in Procesos PROVE Suma(p)' = 1
  BY SumaEs
<1>0. TypeOK
  BY DEF IInv
<1>1. Suma(p) = 1
  BY SumaEs
<1>. DEFINE q == Head(devueltos).proc
<1>2. /\ UNCHANGED <<por_llegar, new, ready, susp_ready, blocked, bloqueos, atendido, despacho, en>>
      /\ Ir("disp", "escuchar", "liberar") /\ Recibir("EXIT")
      /\ terminados' = terminados \union {q}
  BY DEF RecibirExit, colas
<1>3. /\ EnDevueltos(p)' = EnDevueltos(p) - Ind(q = p) /\ EnDevueltos(p)' \in Nat
  BY <1>0, <1>2, RecibirQuita
<1>. HIDE DEF q
<1>4. /\ pc'["stp"] = pc["stp"] /\ pc'["io"] = pc["io"]
      /\ \A h \in APasar : pc'[h] = "encolar" <=> pc[h] = "encolar"
  BY <1>0, <1>2 DEF Ir, TypeOK, Sitios, Hilos, APasar
<1>5. /\ EnReady(p)' = EnReady(p) /\ EnNew(p)' = EnNew(p) /\ EnSuspReady(p)' = EnSuspReady(p)
      /\ EnBlocked(p)' = EnBlocked(p) /\ Saliendo(p)' = Saliendo(p)
      /\ EnDespacho(p)' = EnDespacho(p) /\ Enviando(p)' = Enviando(p) /\ EnMano(p)' = EnMano(p)
  BY <1>2, <1>4, Quietos
<1>6. q = p => Ind(p \in terminados) = 0
  <2>1. q = p => EnDevueltos(p) >= 1
    BY <1>0, <1>3, SumaTipo DEF Ind
  <2>. QED
    BY <1>0, <1>1, <2>1, SumaTipo DEF Suma
<1>7. Ind(p \in terminados)' = Ind(p \in terminados) + Ind(q = p)
  BY <1>2, <1>6 DEF Ind
<1>8. Ind(p \in por_llegar)' = Ind(p \in por_llegar)
  BY <1>2
<1>. QED
  BY <1>0, <1>1, <1>3, <1>5, <1>7, <1>8, SumaTipo, IndTipo DEF Suma

\* The CPU returns the PCB it runs.
LEMMA ConservacionDevolver ==
  ASSUME IInv, Conservacion, NEW op \in {"BLOQUEO_IO", "INTERRUPCION", "EXIT"}, Devolver(op)
  PROVE  Conservacion'
<1> SUFFICES ASSUME NEW p \in Procesos PROVE Suma(p)' = 1
  BY SumaEs
<1>0. TypeOK
  BY DEF IInv
<1>1. Suma(p) = 1
  BY SumaEs
<1>. DEFINE d == Head(despacho)
            e == [op |-> op, proc |-> d.proc, tabla |-> d.tabla]
<1>2. /\ UNCHANGED <<mundo, new, ready, susp_ready, blocked, bloqueos, atendido, pc, en>>
      /\ despacho # <<>> /\ despacho' = Tail(despacho) /\ devueltos' = Append(devueltos, e)
  BY DEF Devolver, colas, hilos
<1>3. despacho \in Seq(PCB) /\ devueltos \in Seq(Devuelto) /\ Len(despacho) > 0 /\ d \in PCB
  BY <1>0, <1>2, NoVacia, CabezaYCola DEF TypeOK
<1>4. e \in Devuelto /\ e.proc = d.proc
  BY <1>3 DEF PCB, Devuelto
<1>5. EnDespacho(p)' = EnDespacho(p) - Ind(d.proc = p)
  BY <1>2, <1>3, VecesEnPasos DEF EnDespacho
<1>. HIDE DEF e
<1>6. EnDevueltos(p)' = EnDevueltos(p) + Ind(d.proc = p)
  BY <1>2, <1>3, <1>4, VecesEnPasos DEF EnDevueltos
<1>7. /\ EnReady(p)' = EnReady(p) /\ EnNew(p)' = EnNew(p) /\ EnSuspReady(p)' = EnSuspReady(p)
      /\ EnBlocked(p)' = EnBlocked(p) /\ Saliendo(p)' = Saliendo(p)
      /\ Enviando(p)' = Enviando(p) /\ EnMano(p)' = EnMano(p)
  BY <1>2, Quietos
<1>8. Ind(p \in por_llegar)' = Ind(p \in por_llegar) /\ Ind(p \in terminados)' = Ind(p \in terminados)
  BY <1>2 DEF mundo
<1>. QED
  BY <1>0, <1>1, <1>5, <1>6, <1>7, <1>8, SumaTipo, IndTipo DEF Suma

-----------------------------------------------------------------------------
(* Every step.                                                             *)

Cuentas == Servido /\ Conservacion

\* Only the device itself begins to serve, and only it takes from the list.
LEMMA ServidoIgual ==
  ASSUME Servido, UNCHANGED <<atendido, blocked>>, NEW t \in Hilos, NEW a, NEW b,
         TypeOK, Ir(t, a, b), b # "usleep"
  PROVE  Servido'
<1>1. pc'["io"] = pc["io"] \/ pc'["io"] # "usleep"
  BY DEF Ir, TypeOK, Sitios, Hilos
<1>. QED
  BY <1>1 DEF Servido

\* A step of a thread that moves no process, and is not the first of the device's turn.
LEMMA CuentasHilo ==
  ASSUME TypeOK, Cuentas,
         UNCHANGED <<mundo, colas, bloqueos, despacho, devueltos, atendido>>,
         NEW t \in Hilos, NEW a, NEW b, Ir(t, a, b),
         a \notin {"encolar", "decidir", "enviar"},
         b \notin {"encolar", "decidir", "enviar", "usleep"},
         \A h \in Hilos : h # t => en'[h] = en[h]
  PROVE  Cuentas'
<1>1. Conservacion'
  BY NadieSeMueveHilo DEF Cuentas
<1>2. Servido'
  BY ServidoIgual DEF Cuentas, colas
<1>. QED
  BY <1>1, <1>2 DEF Cuentas

LEMMA CuentasPlanificador ==
  ASSUME IInv, Cuentas, Planificador PROVE Cuentas'
<1>1. TypeOK /\ "stp" \in Hilos /\ Servido /\ Conservacion
  BY DEF IInv, Hilos, Cuentas
<1>2. CASE EsperarCpu
  BY <1>1, <1>2, CuentasHilo DEF EsperarCpu, cpu
<1>3. CASE EsperarReady
  BY <1>1, <1>3, CuentasHilo DEF EsperarReady, cpu
<1>4. CASE Extraer
  <2>1. UNCHANGED <<atendido, blocked>> /\ Ir("stp", "extraer", "enviar")
    BY <1>4 DEF Extraer
  <2>2. Servido'
    BY <1>1, <2>1, ServidoIgual
  <2>. QED
    BY <1>1, <1>4, <2>2, ConservacionExtraer DEF Cuentas
<1>5. CASE Enviar
  <2>1. /\ UNCHANGED <<atendido, blocked>>
        /\ Ir("stp", "enviar", "marcar") \/ Ir("stp", "enviar", "planificacion")
    BY <1>5 DEF Enviar, colas
  <2>2. Servido'
    BY <1>1, <2>1, ServidoIgual
  <2>. QED
    BY <1>1, <1>5, <2>2, ConservacionEnviar DEF Cuentas
<1>6. CASE Marcar
  BY <1>1, <1>6, CuentasHilo DEF Marcar, cpu
<1>. QED
  BY <1>2, <1>3, <1>4, <1>5, <1>6 DEF Planificador

LEMMA CuentasPasar ==
  ASSUME IInv, Cuentas, NEW t \in APasar, PasarAReady(t) PROVE Cuentas'
<1>1. TypeOK /\ t \in Hilos /\ Servido /\ Conservacion
  BY DEF IInv, Hilos, APasar, Cuentas
<1>2. CASE Encolar(t)
  <2>1. UNCHANGED <<atendido, blocked>> /\ Ir(t, "encolar", TrasEncolar(t))
        /\ TrasEncolar(t) # "usleep"
    BY <1>2 DEF Encolar, TrasEncolar, TrasTabla
  <2>2. Servido'
    BY <1>1, <2>1, ServidoIgual
  <2>. QED
    BY <1>1, <1>2, <2>2, ConservacionEncolar DEF Cuentas
<1>3. CASE PedirTabla(t)
  BY <1>1, <1>3, CuentasHilo DEF PedirTabla, cpu
<1>4. CASE RecibirTabla(t)
  <2>1. TrasTabla \notin {"encolar", "decidir", "enviar", "usleep"}
    BY DEF TrasTabla
  <2>. QED
    BY <1>1, <1>4, <2>1, CuentasHilo DEF RecibirTabla, cpu
<1>5. CASE Interrumpir(t)
  BY <1>1, <1>5, CuentasHilo DEF Interrumpir
<1>6. CASE PostReady(t)
  <2>1. TrasPasar(t) \notin {"encolar", "decidir", "enviar", "usleep"}
    BY DEF TrasPasar, Inicio, APasar
  <2>2. \A h \in Hilos : h # t => en'[h] = en[h]
    BY <1>1, <1>6 DEF PostReady, Soltar, TypeOK
  <2>3. /\ Ir(t, "post", TrasPasar(t))
        /\ UNCHANGED <<mundo, colas, bloqueos, despacho, devueltos, atendido>>
    BY <1>6 DEF PostReady, cpu
  <2>. QED
    BY <1>1, <2>1, <2>2, <2>3, CuentasHilo
<1>. QED
  BY <1>2, <1>3, <1>4, <1>5, <1>6 DEF PasarAReady

LEMMA CuentasLargoPlazo ==
  ASSUME IInv, Cuentas, LargoPlazo PROVE Cuentas'
<1>1. TypeOK /\ "ltp" \in Hilos /\ Servido /\ Conservacion
  BY DEF IInv, Hilos, Cuentas
<1>2. CASE EsperarNew
  BY <1>1, <1>2, CuentasHilo DEF EsperarNew, cpu
<1>3. CASE EsperarGrado
  BY <1>1, <1>3, CuentasHilo DEF EsperarGrado, cpu
<1>4. CASE AdmitirNuevo
  <2>1. UNCHANGED <<atendido, blocked>> /\ Ir("ltp", "mirar", "encolar")
    BY <1>4 DEF AdmitirNuevo
  <2>2. Servido'
    BY <1>1, <2>1, ServidoIgual
  <2>. QED
    BY <1>1, <1>4, <2>2, ConservacionAdmitir DEF Cuentas
<1>5. CASE CederLugar
  BY <1>1, <1>5, CuentasHilo DEF CederLugar, cpu
<1>6. CASE PasarAReady("ltp")
  BY <1>6, CuentasPasar DEF APasar
<1>. QED
  BY <1>2, <1>3, <1>4, <1>5, <1>6 DEF LargoPlazo

LEMMA CuentasOtraVez ==
  ASSUME IInv, Cuentas, NEW t \in {"io", "des"}, InterrumpirOtraVez(t) PROVE Cuentas'
<1>1. /\ Ir(t, "interrumpir2", Inicio[t]) /\ t \in Hilos /\ TypeOK
      /\ Inicio[t] \notin {"encolar", "decidir", "enviar", "usleep"}
      /\ UNCHANGED <<mundo, colas, bloqueos, despacho, devueltos, atendido, en>>
  BY DEF InterrumpirOtraVez, Hilos, Inicio, IInv
<1>. QED
  BY <1>1, CuentasHilo

LEMMA CuentasDispositivo ==
  ASSUME IInv, Cuentas, Dispositivo PROVE Cuentas'
<1>1. TypeOK /\ "io" \in Hilos /\ Servido /\ Conservacion
  BY DEF IInv, Hilos, Cuentas
<1>2. CASE IniciarIO
  <2>1. /\ Ir("io", "bloqueados", "usleep") /\ atendido' = Head(blocked)
        /\ UNCHANGED <<mundo, colas, bloqueos, despacho, devueltos, en>>
    BY <1>2 DEF IniciarIO, cpu
  <2>2. Servido'
    BY <2>1 DEF Servido, colas
  <2>3. Conservacion'
    BY <1>1, <2>1, NadieSeMueveHilo
  <2>. QED
    BY <2>2, <2>3 DEF Cuentas
<1>3. CASE TerminarIO
  <2>1. pc'["io"] # "usleep"
    BY <1>1, <1>3 DEF TerminarIO, Ir, TypeOK, Sitios, Hilos
  <2>2. Servido'
    BY <2>1 DEF Servido
  <2>. QED
    BY <1>1, <1>3, <2>2, ConservacionTerminarIO DEF Cuentas
<1>4. CASE SalirAReady
  <2>1. pc'["io"] # "usleep"
    BY <1>1, <1>4 DEF SalirAReady, Ir, TypeOK, Sitios, Hilos
  <2>2. Servido'
    BY <2>1 DEF Servido
  <2>. QED
    BY <1>1, <1>4, <2>2, ConservacionSalirAReady DEF Cuentas
<1>5. CASE SalirASuspReady
  <2>1. pc'["io"] # "usleep"
    BY <1>1, <1>5 DEF SalirASuspReady, Ir, TypeOK, Sitios, Hilos
  <2>2. Servido'
    BY <2>1 DEF Servido
  <2>. QED
    BY <1>1, <1>5, <2>2, ConservacionSalirASusp DEF Cuentas
<1>6. CASE PasarAReady("io")
  BY <1>6, CuentasPasar DEF APasar
<1>7. CASE InterrumpirOtraVez("io")
  BY <1>7, CuentasOtraVez
<1>. QED
  BY <1>2, <1>3, <1>4, <1>5, <1>6, <1>7 DEF Dispositivo

LEMMA CuentasDesuspendidor ==
  ASSUME IInv, Cuentas, Desuspendidor PROVE Cuentas'
<1>1. TypeOK /\ "des" \in Hilos /\ Servido /\ Conservacion
  BY DEF IInv, Hilos, Cuentas
<1>2. CASE EsperarSuspReady
  BY <1>1, <1>2, CuentasHilo DEF EsperarSuspReady, cpu
<1>3. CASE EsperarLugar
  BY <1>1, <1>3, CuentasHilo DEF EsperarLugar, cpu
<1>4. CASE Desuspender
  <2>1. UNCHANGED <<atendido, blocked>> /\ Ir("des", "extraer", "encolar")
    BY <1>4 DEF Desuspender
  <2>2. Servido'
    BY <1>1, <2>1, ServidoIgual
  <2>. QED
    BY <1>1, <1>4, <2>2, ConservacionDesuspender DEF Cuentas
<1>5. CASE PasarAReady("des")
  BY <1>5, CuentasPasar DEF APasar
<1>6. CASE InterrumpirOtraVez("des")
  BY <1>6, CuentasOtraVez
<1>. QED
  BY <1>2, <1>3, <1>4, <1>5, <1>6 DEF Desuspendidor

LEMMA CuentasEscucha ==
  ASSUME IInv, Cuentas, Escucha PROVE Cuentas'
<1>1. TypeOK /\ "disp" \in Hilos /\ Servido /\ Conservacion
  BY DEF IInv, Hilos, Cuentas
<1>2. CASE RecibirBloqueo
  <2>1. /\ atendido' = atendido /\ blocked' = Append(blocked, Len(bloqueos) + 1)
        /\ pc'["io"] = pc["io"]
    BY <1>1, <1>2 DEF RecibirBloqueo, Ir, TypeOK, Sitios, Hilos
  <2>2. blocked \in Seq(DOMAIN bloqueos) /\ (pc["io"] = "usleep" => Len(blocked) > 0)
    BY <1>1, HayElementos DEF TypeOK
  <2>3. Len(blocked) > 0 => Head(blocked') = Head(blocked)
    BY <2>1, <2>2
  <2>4. Servido'
    BY <1>1, <2>1, <2>2, <2>3 DEF Servido
  <2>. QED
    BY <1>1, <1>2, <2>4, ConservacionRecibirBloqueo DEF Cuentas
<1>3. CASE RecibirInterrumpido
  <2>1. UNCHANGED <<atendido, blocked>> /\ Ir("disp", "escuchar", "encolar")
    BY <1>3 DEF RecibirInterrumpido, colas
  <2>2. Servido'
    BY <1>1, <2>1, ServidoIgual
  <2>. QED
    BY <1>1, <1>3, <2>2, ConservacionRecibirInterrumpido DEF Cuentas
<1>4. CASE RecibirExit
  <2>1. UNCHANGED <<atendido, blocked>> /\ Ir("disp", "escuchar", "liberar")
    BY <1>4 DEF RecibirExit, colas
  <2>2. Servido'
    BY <1>1, <2>1, ServidoIgual
  <2>. QED
    BY <1>1, <1>4, <2>2, ConservacionRecibirExit DEF Cuentas
<1>5. CASE LiberarCpu
  BY <1>1, <1>5, CuentasHilo DEF LiberarCpu, cpu
<1>6. CASE PasarAReady("disp")
  BY <1>6, CuentasPasar DEF APasar
<1>. QED
  BY <1>2, <1>3, <1>4, <1>5, <1>6 DEF Escucha

\* The timers write what concerns them only.
LEMMA CuentasSuspensor ==
  ASSUME IInv, Cuentas, NEW b \in DOMAIN bloqueos, Suspensor(b) PROVE Cuentas'
<1>1. TypeOK /\ Servido /\ Conservacion /\ bloqueos \in Seq(Bloqueo)
  BY DEF IInv, Cuentas, TypeOK
<1>2. /\ UNCHANGED <<mundo, new, ready, susp_ready, blocked, despacho, devueltos, pc, en, atendido>>
  BY DEF Suspensor, Vencer, Buscar, NotificarSuspension, Confirmar, colas, hilos, cpu
<1>3. bloqueos[b] \in Bloqueo
  BY <1>1
<1>4. /\ DOMAIN bloqueos' = DOMAIN bloqueos
      /\ \A c \in DOMAIN bloqueos : bloqueos'[c].proc = bloqueos[c].proc
  <2>1. CASE Vencer(b)
    BY <1>1, <1>3, <2>1 DEF Vencer, Bloqueo
  <2>2. CASE Buscar(b)
    <3>1. CASE UNCHANGED bloqueos
      BY <3>1
    <3>2. CASE bloqueos' = [bloqueos EXCEPT ![b].pc = "fin"]
      BY <1>1, <1>3, <3>2 DEF Bloqueo
    <3>3. CASE bloqueos' = [bloqueos EXCEPT ![b].pc = "notificar"]
      BY <1>1, <1>3, <3>3 DEF Bloqueo
    <3>4. CASE bloqueos' = [bloqueos EXCEPT ![b].i = bloqueos[b].i + 1]
      BY <1>1, <1>3, <3>4 DEF Bloqueo
    <3>. QED
      BY <2>2, <3>1, <3>2, <3>3, <3>4 DEF Buscar
  <2>3. CASE NotificarSuspension(b)
    BY <1>1, <1>3, <2>3 DEF NotificarSuspension, PasoSuspensor, Bloqueo
  <2>4. CASE Confirmar(b)
    <3>1. CASE bloqueos' = [bloqueos EXCEPT ![b].pc = "fin"]
      BY <1>1, <1>3, <3>1 DEF Bloqueo
    <3>2. CASE bloqueos' = [bloqueos EXCEPT ![b].pc = "fin", ![b].suspendido = TRUE]
      BY <1>1, <1>3, <3>2 DEF Bloqueo
    <3>. QED
      BY <2>4, <3>1, <3>2 DEF Confirmar
  <2>. QED
    BY <2>1, <2>2, <2>3, <2>4 DEF Suspensor
<1>5. Conservacion'
  BY <1>1, <1>2, <1>4, NadieSeMueve
<1>6. Servido'
  BY <1>1, <1>2 DEF Servido
<1>. QED
  BY <1>5, <1>6 DEF Cuentas

LEMMA CuentasPaso == IInv /\ Cuentas /\ [Next]_vars => Cuentas'
<1> SUFFICES ASSUME IInv, Cuentas, [Next]_vars PROVE Cuentas'
  OBVIOUS
<1>0. TypeOK /\ Servido /\ Conservacion
  BY DEF IInv, Cuentas
<1>1. CASE \E p \in Procesos : AtenderConsola(p)
  <2>1. UNCHANGED <<pc, atendido, blocked>>
    BY <1>1 DEF AtenderConsola, hilos
  <2>2. Servido'
    BY <1>0, <2>1 DEF Servido
  <2>. QED
    BY <1>0, <1>1, <2>2, ConservacionConsola DEF Cuentas
<1>2. CASE Planificador  BY <1>2, CuentasPlanificador
<1>3. CASE LargoPlazo    BY <1>3, CuentasLargoPlazo
<1>4. CASE Dispositivo   BY <1>4, CuentasDispositivo
<1>5. CASE Desuspendidor BY <1>5, CuentasDesuspendidor
<1>6. CASE Escucha       BY <1>6, CuentasEscucha
<1>7. CASE \E b \in DOMAIN bloqueos : Suspensor(b)
  BY <1>7, CuentasSuspensor
<1>8. CASE Cpu
  <2>1. PICK op \in {"BLOQUEO_IO", "INTERRUPCION", "EXIT"} : Devolver(op)
    BY <1>8 DEF Cpu, CpuBloqueo, CpuExit, CpuInterrumpe
  <2>2. UNCHANGED <<pc, atendido, blocked>>
    BY <2>1 DEF Devolver, hilos, colas
  <2>3. Servido'
    BY <1>0, <2>2 DEF Servido
  <2>. QED
    BY <1>0, <2>1, <2>3, ConservacionDevolver DEF Cuentas
<1>9. CASE UNCHANGED vars
  <2>1. UNCHANGED <<mundo, new, ready, susp_ready, blocked, despacho, devueltos, pc, en,
                    atendido, bloqueos>>
    BY <1>9 DEF vars, colas, hilos, cpu
  <2>2. Conservacion'
    BY <1>0, <2>1, NadieSeMueve
  <2>3. Servido'
    BY <1>0, <2>1 DEF Servido
  <2>. QED
    BY <2>2, <2>3 DEF Cuentas
<1> QED BY <1>1, <1>2, <1>3, <1>4, <1>5, <1>6, <1>7, <1>8, <1>9 DEF Next, Paso, Reposo

\* At first every process is with its console.
LEMMA CuentasInicio == Init => Cuentas
<1> SUFFICES ASSUME Init PROVE Cuentas
  OBVIOUS
<1>1. Servido
  BY DEF Init, Servido, Inicio
<1> SUFFICES ASSUME NEW p \in Procesos PROVE Suma(p) = 1
  BY <1>1, SumaEs DEF Cuentas
<1>2. /\ new = <<>> /\ ready = <<>> /\ susp_ready = <<>> /\ blocked = <<>>
      /\ despacho = <<>> /\ devueltos = <<>> /\ pc = Inicio
      /\ por_llegar = Procesos /\ terminados = {}
  BY DEF Init
<1>3. Veces(p, <<>>) = 0 /\ VecesEn(p, <<>>) = 0
  <2>1. {i \in DOMAIN <<>> : <<>>[i] = p} = {} /\ {i \in DOMAIN <<>> : <<>>[i].proc = p} = {}
    OBVIOUS
  <2>. QED
    BY <2>1, FS_EmptySet DEF Veces, VecesEn
<1>4. EnBlocked(p) = 0
  <2>1. {i \in DOMAIN blocked : ProcesoDe(blocked[i]) = p} = {}
    BY <1>2
  <2>. QED
    BY <2>1, FS_EmptySet DEF EnBlocked
<1>5. EnMano(p) = 0
  <2>1. Manos(p) = {}
    BY <1>2 DEF Manos, Inicio, APasar
  <2>. QED
    BY <2>1, FS_EmptySet DEF EnMano
<1>6. /\ EnNew(p) = 0 /\ EnReady(p) = 0 /\ EnSuspReady(p) = 0
      /\ EnDespacho(p) = 0 /\ EnDevueltos(p) = 0
  BY <1>2, <1>3 DEF EnNew, EnReady, EnSuspReady, EnDespacho, EnDevueltos
<1>7. Saliendo(p) = 0 /\ Enviando(p) = 0 /\ Ind(p \in por_llegar) = 1 /\ Ind(p \in terminados) = 0
  BY <1>2 DEF Saliendo, Enviando, Ind, Inicio
<1>. QED
  BY <1>4, <1>5, <1>6, <1>7 DEF Suma

\* No thread of the kernel loses a process nor has one twice: from its console
\* to RESPUESTA_EXITO each is in one queue, with one thread, or with the CPU,
\* whatever the number of processes, places and blockings (kernel.c:132-560).
THEOREM UnSoloLugar == Spec => []Conservacion
<1>1. Init => Cuentas
  BY CuentasInicio
<1>2. IInv /\ Cuentas /\ [Next]_vars => Cuentas'
  BY CuentasPaso
<1>3. Cuentas => Conservacion
  BY DEF Cuentas
<1> QED BY <1>1, <1>2, <1>3, InvarianteInductivo, PTL DEF Spec

-----------------------------------------------------------------------------
(* The timers.                                                             *)

\* What is known of the timer r of the blocking b, of m so far, when the list is l.
MiradaBien(r, b, m, l) ==
  /\ r.primero <= m
  /\ l # <<>> => r.primero <= l[1]
  /\ r.pc = "durmiendo" => ~r.suspendido
  /\ r.pc = "buscando" => r.i >= 1 /\ (r.n > 0 => r.primero > 0)
  /\ r.pc \in {"notificar", "confirmar"} \/ r.suspendido => r.primero \in 1..b
  /\ r.pc = "buscando" =>
       \A j \in 1..Len(l) : l[j] = b /\ l[1] = r.primero => j >= r.i

\* The ids in the list grow, for contador_bloqueo does.
Creciente(l) == \A j, k \in 1..Len(l) : j < k => l[j] < l[k]

Miradas ==
  /\ Creciente(blocked)
  /\ \A b \in DOMAIN bloqueos : MiradaBien(bloqueos[b], b, Len(bloqueos), blocked)

LEMMA MiradaTipo ==
  ASSUME IInv
  PROVE  /\ bloqueos \in Seq(Bloqueo) /\ DOMAIN bloqueos = 1..Len(bloqueos)
         /\ Len(bloqueos) \in Nat
         /\ blocked \in Seq(1..Len(bloqueos)) /\ Len(blocked) \in Nat
         /\ \A j \in 1..Len(blocked) : blocked[j] \in 1..Len(bloqueos)
         /\ \A b \in DOMAIN bloqueos : bloqueos[b] \in Bloqueo
<1>1. /\ bloqueos \in Seq(Bloqueo) /\ DOMAIN bloqueos = 1..Len(bloqueos)
      /\ blocked \in Seq(DOMAIN bloqueos)
  BY DEF IInv, TypeOK
<1>. QED
  BY <1>1

\* A step that leaves the list and the scans alone.
LEMMA MiradasQuietas ==
  ASSUME Miradas, DOMAIN bloqueos' = DOMAIN bloqueos, Len(bloqueos') = Len(bloqueos),
         blocked' = blocked,
         \A b \in DOMAIN bloqueos : /\ bloqueos'[b].pc = bloqueos[b].pc
                                    /\ bloqueos'[b].i = bloqueos[b].i
                                    /\ bloqueos'[b].n = bloqueos[b].n
                                    /\ bloqueos'[b].primero = bloqueos[b].primero
                                    /\ bloqueos'[b].suspendido = bloqueos[b].suspendido
  PROVE  Miradas'
<1>1. \A b \in DOMAIN bloqueos :
        MiradaBien(bloqueos'[b], b, Len(bloqueos), blocked)
  BY DEF Miradas, MiradaBien
<1>. QED
  BY <1>1 DEF Miradas

\* One blocking more: the greatest id, at the end of the list.
LEMMA MiradaMas ==
  ASSUME NEW r \in Bloqueo, NEW m \in Nat, NEW b \in 1..m, NEW l \in Seq(1..m), NEW t,
         t = Append(l, m + 1), MiradaBien(r, b, m, l)
  PROVE  MiradaBien(r, b, m + 1, t)
<1>1. /\ Len(t) = Len(l) + 1 /\ Len(l) \in Nat /\ t[Len(l) + 1] = m + 1
      /\ \A j \in 1..Len(l) : t[j] = l[j]
  OBVIOUS
<1>2. r.primero \in Nat /\ r.i \in Nat /\ r.n \in Nat
  BY DEF Bloqueo
<1>3. l # <<>> => Len(l) > 0
  OBVIOUS
<1>4. r.primero <= t[1]
  <2>1. CASE l = <<>>
    BY <1>1, <1>2, <2>1 DEF MiradaBien
  <2>2. CASE l # <<>>
    BY <1>1, <1>3, <2>2 DEF MiradaBien
  <2>. QED
    BY <2>1, <2>2
<1>5. ASSUME NEW j \in 1..Len(t), t[j] = b, t[1] = r.primero, r.pc = "buscando"
      PROVE  j >= r.i
  <2>1. j \in 1..Len(l)
    BY <1>1, <1>5
  <2>2. l[j] = b /\ l[1] = r.primero
    BY <1>1, <1>5, <2>1
  <2>. QED
    BY <1>5, <2>1, <2>2 DEF MiradaBien
<1>. QED
  BY <1>2, <1>4, <1>5 DEF MiradaBien

LEMMA MiradasBloqueo ==
  ASSUME IInv, Miradas, RecibirBloqueo PROVE Miradas'
<1>. DEFINE m == Len(bloqueos)
            e == [proc |-> Head(devueltos).proc, suspendido |-> FALSE,
                  salida |-> "pendiente", pc |-> "durmiendo", i |-> 0, n |-> 0,
                  primero |-> 0]
<1>1. /\ bloqueos' = Append(bloqueos, e) /\ blocked' = Append(blocked, m + 1)
      /\ e.pc = "durmiendo" /\ ~e.suspendido /\ e.primero = 0
  BY DEF RecibirBloqueo, BloqueoNuevo
<1>. HIDE DEF e
<1>2. /\ bloqueos \in Seq(Bloqueo) /\ DOMAIN bloqueos = 1..m /\ m \in Nat
      /\ blocked \in Seq(1..m) /\ Len(blocked) \in Nat
      /\ \A j \in 1..Len(blocked) : blocked[j] \in 1..m
      /\ \A b \in DOMAIN bloqueos : bloqueos[b] \in Bloqueo
  BY MiradaTipo
<1>3. /\ DOMAIN bloqueos' = 1..(m + 1) /\ Len(bloqueos') = m + 1 /\ bloqueos'[m + 1] = e
      /\ \A c \in 1..m : bloqueos'[c] = bloqueos[c]
      /\ Len(blocked') = Len(blocked) + 1 /\ blocked'[Len(blocked) + 1] = m + 1
      /\ \A j \in 1..Len(blocked) : blocked'[j] = blocked[j]
  BY <1>1, <1>2
<1>. HIDE DEF m
<1>4. Creciente(blocked')
  <2>1. Creciente(blocked)
    BY DEF Miradas
  <2>. SUFFICES ASSUME NEW j \in 1..Len(blocked'), NEW k \in 1..Len(blocked'), j < k
                PROVE  blocked'[j] < blocked'[k]
    BY DEF Creciente
  <2>2. j \in 1..Len(blocked) /\ blocked'[j] = blocked[j] /\ blocked[j] \in 1..m
    BY <1>2, <1>3
  <2>3. CASE k = Len(blocked) + 1
    BY <1>2, <1>3, <2>2, <2>3
  <2>4. CASE k # Len(blocked) + 1
    <3>1. k \in 1..Len(blocked)
      BY <1>2, <1>3, <2>4
    <3>2. blocked'[k] = blocked[k] /\ blocked[j] < blocked[k]
      BY <1>3, <2>1, <2>2, <3>1 DEF Creciente
    <3>. QED
      BY <2>2, <3>2
  <2>. QED
    BY <2>3, <2>4
<1>5. blocked'[1] >= 0 /\ Len(blocked') > 0
  <2>1. CASE Len(blocked) = 0
    BY <1>2, <1>3, <2>1
  <2>2. CASE Len(blocked) > 0
    BY <1>2, <1>3, <2>2
  <2>. QED
    BY <1>2, <2>1, <2>2
<1>6. MiradaBien(e, m + 1, m + 1, blocked')
  BY <1>1, <1>2, <1>5 DEF MiradaBien
<1>7. ASSUME NEW c \in 1..m PROVE MiradaBien(bloqueos[c], c, m + 1, blocked')
  <2>1. MiradaBien(bloqueos[c], c, m, blocked) /\ bloqueos[c] \in Bloqueo
    BY <1>2 DEF Miradas, m
  <2>. QED
    BY <1>1, <1>2, <2>1, MiradaMas
<1>8. ASSUME NEW c \in 1..(m + 1) PROVE MiradaBien(bloqueos'[c], c, m + 1, blocked')
  <2>1. CASE c = m + 1
    BY <1>3, <1>6, <2>1
  <2>2. CASE c # m + 1
    <3>1. c \in 1..m
      BY <1>2, <2>2
    <3>. QED
      BY <1>3, <1>7, <3>1
  <2>. QED
    BY <2>1, <2>2
<1>. QED
  BY <1>3, <1>4, <1>8 DEF Miradas

\* The device takes the first one off: what was first is so no more.
LEMMA MiradaMenos ==
  ASSUME NEW r \in Bloqueo, NEW m \in Nat, NEW b \in 1..m, NEW l \in Seq(1..m), NEW t,
         l # <<>>, t = Tail(l), Creciente(l), MiradaBien(r, b, m, l)
  PROVE  MiradaBien(r, b, m, t)
<1>1. /\ Len(t) = Len(l) - 1 /\ Len(l) \in Nat /\ Len(l) > 0
      /\ \A j \in 1..Len(t) : t[j] = l[j + 1] /\ t[j] \in 1..m
      /\ l[1] \in 1..m
      /\ t # <<>> <=> Len(t) > 0
  <2>1. Len(l) \in Nat /\ Len(l) > 0 /\ \A j \in 1..Len(l) : l[j] \in 1..m
    OBVIOUS
  <2>2. t \in Seq(1..m) /\ Len(t) = Len(l) - 1
    OBVIOUS
  <2>3. \A j \in 1..Len(t) : t[j] = l[j + 1]
    OBVIOUS
  <2>4. t # <<>> <=> Len(t) > 0
    BY ONLY <2>2
  <2>5. \A j \in 1..Len(t) : t[j] \in 1..m
    BY ONLY <2>2
  <2>. QED
    BY ONLY <2>1, <2>2, <2>3, <2>4, <2>5
<1>2. r.primero \in Nat
  BY DEF Bloqueo
<1>3. t # <<>> => t[1] > r.primero
  <2>. SUFFICES ASSUME t # <<>> PROVE t[1] > r.primero
    OBVIOUS
  <2>1. Len(t) > 0
    OBVIOUS
  <2>2. t[1] = l[2] /\ l[1] < l[2] /\ l[2] \in 1..m
    BY <1>1, <2>1 DEF Creciente
  <2>. QED
    BY <1>1, <1>2, <2>2 DEF MiradaBien
<1>4. t # <<>> => t[1] \in Nat
  BY <1>1
<1>5. ASSUME NEW j \in 1..Len(t) PROVE t[1] # r.primero
  <2>1. Len(t) > 0 /\ t # <<>>
    BY <1>1
  <2>. QED
    BY <1>2, <1>3, <1>4, <2>1
<1>6. t # <<>> => r.primero <= t[1]
  BY <1>2, <1>3, <1>4
<1>7. \A j \in 1..Len(t) : t[j] = b /\ t[1] = r.primero => j >= r.i
  BY <1>5
<1>8. /\ r.primero <= m
      /\ r.pc = "durmiendo" => ~r.suspendido
      /\ r.pc = "buscando" => r.i >= 1 /\ (r.n > 0 => r.primero > 0)
      /\ r.pc \in {"notificar", "confirmar"} \/ r.suspendido => r.primero \in 1..b
  BY DEF MiradaBien
<1>. QED
  BY ONLY <1>6, <1>7, <1>8 DEF MiradaBien

LEMMA MiradasTerminar ==
  ASSUME IInv, Miradas, TerminarIO PROVE Miradas'
<1>1. /\ blocked' = Tail(blocked) /\ bloqueos' = bloqueos
      /\ Len(bloqueos) \in Nat /\ DOMAIN bloqueos = 1..Len(bloqueos)
      /\ blocked \in Seq(1..Len(bloqueos)) /\ Len(blocked) \in Nat
      /\ \A b \in DOMAIN bloqueos : bloqueos[b] \in Bloqueo
  BY MiradaTipo DEF TerminarIO
<1>2. Len(blocked) > 0
  <2>1. pc["io"] = "usleep" /\ SemBloqueados
    BY DEF TerminarIO, Ir, IInv, SemaforosExactos
  <2>2. sem["bloqueados"] \in Nat
    BY Naturales DEF IInv
  <2>. QED
    BY <1>1, <2>1, <2>2 DEF SemBloqueados, Sirviendo, Ind
<1>3. blocked # <<>>
  BY <1>2
<1>4. /\ Len(blocked') = Len(blocked) - 1
      /\ \A j \in 1..Len(blocked') : blocked'[j] = blocked[j + 1]
  BY <1>1, <1>3
<1>5. Creciente(blocked')
  BY <1>1, <1>4 DEF Miradas, Creciente
<1>6. ASSUME NEW b \in DOMAIN bloqueos
      PROVE  MiradaBien(bloqueos[b], b, Len(bloqueos), blocked')
  <2>1. b \in 1..Len(bloqueos) /\ bloqueos[b] \in Bloqueo
    BY <1>1
  <2>2. MiradaBien(bloqueos[b], b, Len(bloqueos), blocked) /\ Creciente(blocked)
    BY DEF Miradas
  <2>. QED
    BY <1>1, <1>3, <2>1, <2>2, MiradaMenos
<1>. QED
  BY <1>1, <1>5, <1>6 DEF Miradas

\* The I/O device writes where a blocking went, nothing of its scan.
LEMMA MiradasSalida ==
  ASSUME IInv, Miradas, SalirAReady \/ SalirASuspReady PROVE Miradas'
<1>1. bloqueos \in Seq(Bloqueo) /\ \A c \in DOMAIN bloqueos : bloqueos[c] \in Bloqueo
  BY MiradaTipo
<1>2. PICK s \in {"ready", "susp_ready"} : bloqueos' = [bloqueos EXCEPT ![atendido].salida = s]
  BY DEF SalirAReady, SalirASuspReady
<1>3. /\ DOMAIN bloqueos' = DOMAIN bloqueos /\ Len(bloqueos') = Len(bloqueos)
      /\ \A c \in DOMAIN bloqueos : /\ bloqueos'[c].pc = bloqueos[c].pc
                                    /\ bloqueos'[c].i = bloqueos[c].i
                                    /\ bloqueos'[c].n = bloqueos[c].n
                                    /\ bloqueos'[c].primero = bloqueos[c].primero
                                    /\ bloqueos'[c].suspendido = bloqueos[c].suspendido
  BY <1>1, <1>2 DEF Bloqueo
<1>4. blocked' = blocked
  BY DEF SalirAReady, SalirASuspReady, colas
<1>. QED
  BY <1>3, <1>4, MiradasQuietas

\* The timer fires: it reads the size of the list as it is.
LEMMA MiradaVence ==
  ASSUME IInv, Miradas, NEW b \in DOMAIN bloqueos, Vencer(b)
  PROVE  MiradaBien(bloqueos'[b], b, Len(bloqueos), blocked)
<1>1. bloqueos \in Seq(Bloqueo) /\ bloqueos[b] \in Bloqueo /\ Len(blocked) \in Nat
  BY MiradaTipo
<1>2. bloqueos'[b] = [bloqueos[b] EXCEPT !.pc = "buscando", !.i = 1, !.n = Len(blocked),
                                         !.primero = Primero]
  BY <1>1 DEF Vencer
<1>3. /\ bloqueos'[b].pc = "buscando" /\ bloqueos'[b].i = 1
      /\ bloqueos'[b].n = Len(blocked) /\ bloqueos'[b].primero = Primero
      /\ bloqueos'[b].suspendido = bloqueos[b].suspendido
  BY <1>1, <1>2 DEF Bloqueo
<1>4. ~bloqueos[b].suspendido
  BY DEF Vencer, Miradas, MiradaBien
<1>5. /\ Primero <= Len(bloqueos)
      /\ blocked # <<>> => Primero <= blocked[1]
      /\ Len(blocked) > 0 => Primero > 0
  <2>1. /\ blocked # <<>> => Len(blocked) > 0
        /\ Len(blocked) > 0 => blocked[1] \in 1..Len(bloqueos)
        /\ Len(blocked) > 0 => blocked # <<>>
        /\ Len(bloqueos) \in Nat
    BY MiradaTipo
  <2>. QED
    BY <2>1 DEF Primero
<1>. QED
  BY <1>3, <1>4, <1>5 DEF MiradaBien

\* One turn of the scan.
LEMMA MiradaBusca ==
  ASSUME IInv, Miradas, NEW b \in DOMAIN bloqueos, Buscar(b)
  PROVE  MiradaBien(bloqueos'[b], b, Len(bloqueos), blocked)
<1>1. bloqueos \in Seq(Bloqueo) /\ bloqueos[b] \in Bloqueo /\ Len(blocked) \in Nat
  BY MiradaTipo
<1>2. /\ bloqueos[b].i \in Nat /\ bloqueos[b].n \in Nat /\ bloqueos[b].primero \in Nat
      /\ bloqueos[b].suspendido \in BOOLEAN
  BY <1>1 DEF Bloqueo
<1>3. bloqueos[b].pc = "buscando" /\ MiradaBien(bloqueos[b], b, Len(bloqueos), blocked)
  BY DEF Buscar, Miradas
<1>4. CASE UNCHANGED bloqueos
  BY <1>3, <1>4
<1>5. CASE bloqueos' = [bloqueos EXCEPT ![b].pc = "fin"]
  <2>1. /\ bloqueos'[b].pc = "fin" /\ bloqueos'[b].primero = bloqueos[b].primero
        /\ bloqueos'[b].suspendido = bloqueos[b].suspendido
    BY <1>1, <1>5 DEF Bloqueo
  <2>. QED
    BY <1>3, <2>1 DEF MiradaBien
<1>6. CASE /\ bloqueos[b].i <= bloqueos[b].n /\ bloqueos[b].i <= Len(blocked)
           /\ bloqueos' = IF MismoBloqueo(b, blocked[bloqueos[b].i])
                            THEN [bloqueos EXCEPT ![b].pc = "notificar"]
                            ELSE [bloqueos EXCEPT ![b].i = bloqueos[b].i + 1]
  <2>1. /\ bloqueos[b].i >= 1 /\ bloqueos[b].primero > 0
        /\ bloqueos[b].i \in 1..Len(blocked) /\ Len(blocked) > 0
        /\ bloqueos[b].primero <= blocked[1]
    <3>1. bloqueos[b].i >= 1 /\ bloqueos[b].primero > 0
      BY <1>2, <1>3, <1>6 DEF MiradaBien
    <3>2. bloqueos[b].i \in 1..Len(blocked) /\ Len(blocked) > 0 /\ blocked # <<>>
      BY <1>1, <1>2, <1>6, <3>1
    <3>. QED
      BY <1>3, <3>1, <3>2 DEF MiradaBien
  <2>2. CASE MismoBloqueo(b, blocked[bloqueos[b].i])
    <3>1. /\ bloqueos'[b].pc = "notificar" /\ bloqueos'[b].primero = bloqueos[b].primero
          /\ bloqueos'[b].suspendido = bloqueos[b].suspendido
      BY <1>1, <1>6, <2>2 DEF Bloqueo
    <3>2. blocked[bloqueos[b].i] = b
      BY <2>2 DEF MismoBloqueo
    <3>3. blocked[1] <= b
      <4>1. /\ 1 \in 1..Len(blocked) /\ blocked[1] \in Nat /\ b \in Nat
        BY <1>1, <2>1, MiradaTipo
      <4>2. 1 < bloqueos[b].i => blocked[1] < blocked[bloqueos[b].i]
        BY <2>1, <4>1 DEF Miradas, Creciente
      <4>. QED
        BY <1>2, <2>1, <3>2, <4>1, <4>2
    <3>4. bloqueos[b].primero \in 1..b
      BY <1>2, <2>1, <3>3, MiradaTipo
    <3>. QED
      BY <1>3, <3>1, <3>4 DEF MiradaBien
  <2>3. CASE ~MismoBloqueo(b, blocked[bloqueos[b].i])
    <3>1. /\ bloqueos'[b].pc = "buscando" /\ bloqueos'[b].primero = bloqueos[b].primero
          /\ bloqueos'[b].suspendido = bloqueos[b].suspendido
          /\ bloqueos'[b].i = bloqueos[b].i + 1 /\ bloqueos'[b].n = bloqueos[b].n
      BY <1>1, <1>3, <1>6, <2>3 DEF Bloqueo
    <3>2. blocked[bloqueos[b].i] # b
      BY <2>3 DEF MismoBloqueo
    <3>3. ASSUME NEW j \in 1..Len(blocked), blocked[j] = b, blocked[1] = bloqueos[b].primero
          PROVE  j >= bloqueos[b].i + 1
      <4>1. j >= bloqueos[b].i /\ j # bloqueos[b].i
        BY <1>3, <3>2, <3>3 DEF MiradaBien
      <4>. QED
        BY <1>1, <1>2, <4>1
    <3>4. bloqueos[b].i + 1 >= 1
      BY <1>2
    <3>. QED
      BY <1>3, <3>1, <3>3, <3>4 DEF MiradaBien
  <2>. QED
    BY <2>2, <2>3
<1>7. \/ UNCHANGED bloqueos
      \/ bloqueos' = [bloqueos EXCEPT ![b].pc = "fin"]
      \/ /\ bloqueos[b].i <= bloqueos[b].n /\ bloqueos[b].i <= Len(blocked)
         /\ bloqueos' = IF MismoBloqueo(b, blocked[bloqueos[b].i])
                          THEN [bloqueos EXCEPT ![b].pc = "notificar"]
                          ELSE [bloqueos EXCEPT ![b].i = bloqueos[b].i + 1]
  BY <1>1, <1>2 DEF Buscar
<1>. QED
  BY <1>4, <1>5, <1>6, <1>7

\* The thread of a blocking.
LEMMA MiradasSuspensor ==
  ASSUME IInv, Miradas, NEW b \in DOMAIN bloqueos, Suspensor(b) PROVE Miradas'
<1>1. /\ bloqueos \in Seq(Bloqueo) /\ bloqueos[b] \in Bloqueo /\ Len(bloqueos) \in Nat
      /\ MiradaBien(bloqueos[b], b, Len(bloqueos), blocked)
  BY MiradaTipo DEF Miradas
<1>2. /\ DOMAIN bloqueos' = DOMAIN bloqueos /\ Len(bloqueos') = Len(bloqueos)
      /\ \A c \in DOMAIN bloqueos : c # b => bloqueos'[c] = bloqueos[c]
  BY <1>1 DEF Suspensor, Vencer, Buscar, NotificarSuspension, Confirmar, PasoSuspensor
<1>3. blocked' = blocked
  BY DEF Suspensor, Vencer, Buscar, NotificarSuspension, Confirmar, colas
<1>4. MiradaBien(bloqueos'[b], b, Len(bloqueos), blocked)
  <2>1. CASE NotificarSuspension(b)
    <3>1. /\ bloqueos[b].pc = "notificar" /\ bloqueos'[b].pc = "confirmar"
          /\ bloqueos'[b].primero = bloqueos[b].primero
      BY <1>1, <2>1 DEF NotificarSuspension, PasoSuspensor, Bloqueo
    <3>. QED
      BY <1>1, <3>1 DEF MiradaBien
  <2>2. CASE Confirmar(b)
    <3>1. bloqueos[b].pc = "confirmar"
      BY <2>2 DEF Confirmar
    <3>2. bloqueos'[b].pc = "fin" /\ bloqueos'[b].primero = bloqueos[b].primero
      <4>1. CASE bloqueos' = [bloqueos EXCEPT ![b].pc = "fin"]
        BY <1>1, <4>1 DEF Bloqueo
      <4>2. CASE bloqueos' = [bloqueos EXCEPT ![b].pc = "fin", ![b].suspendido = TRUE]
        BY <1>1, <4>2 DEF Bloqueo
      <4>. QED
        BY <2>2, <4>1, <4>2 DEF Confirmar
    <3>. QED
      BY <1>1, <3>1, <3>2 DEF MiradaBien
  <2>. QED
    BY <2>1, <2>2, MiradaVence, MiradaBusca DEF Suspensor
<1>5. \A c \in DOMAIN bloqueos : MiradaBien(bloqueos'[c], c, Len(bloqueos), blocked)
  BY <1>2, <1>4 DEF Miradas
<1>. QED
  BY <1>2, <1>3, <1>5 DEF Miradas

\* No other step touches a blocking or the list.
LEMMA PasarNoBloquea ==
  ASSUME NEW t, PasarAReady(t) PROVE UNCHANGED <<bloqueos, blocked>>
  BY DEF PasarAReady, Encolar, PedirTabla, RecibirTabla, Interrumpir, PostReady, colas

LEMMA MiradasPaso == IInv /\ Miradas /\ [Next]_vars => Miradas'
<1> SUFFICES ASSUME IInv, Miradas, [Next]_vars PROVE Miradas'
  OBVIOUS
<1>0. UNCHANGED <<bloqueos, blocked>> => Miradas'
  BY MiradasQuietas
<1>1. CASE \E p \in Procesos : AtenderConsola(p)
  BY <1>0, <1>1 DEF AtenderConsola
<1>2. CASE Planificador
  BY <1>0, <1>2 DEF Planificador, EsperarCpu, EsperarReady, Extraer, Enviar, Marcar, colas
<1>3. CASE LargoPlazo
  BY <1>0, <1>3, PasarNoBloquea
     DEF LargoPlazo, EsperarNew, EsperarGrado, AdmitirNuevo, CederLugar, colas
<1>4. CASE Dispositivo
  BY <1>0, <1>4, PasarNoBloquea, MiradasSalida, MiradasTerminar
     DEF Dispositivo, IniciarIO, InterrumpirOtraVez, colas
<1>5. CASE Desuspendidor
  BY <1>0, <1>5, PasarNoBloquea
     DEF Desuspendidor, EsperarSuspReady, EsperarLugar, Desuspender, InterrumpirOtraVez, colas
<1>6. CASE Escucha
  BY <1>0, <1>6, PasarNoBloquea, MiradasBloqueo
     DEF Escucha, RecibirInterrumpido, RecibirExit, LiberarCpu, colas
<1>7. CASE \E b \in DOMAIN bloqueos : Suspensor(b)
  BY <1>7, MiradasSuspensor
<1>8. CASE Cpu
  BY <1>0, <1>8 DEF Cpu, CpuBloqueo, CpuExit, CpuInterrumpe, Devolver, colas
<1>9. CASE UNCHANGED vars
  BY <1>0, <1>9 DEF vars, colas
<1> QED BY <1>1, <1>2, <1>3, <1>4, <1>5, <1>6, <1>7, <1>8, <1>9 DEF Next, Paso, Reposo

LEMMA MiradasBastan == IInv /\ Miradas => BusquedaExacta
<1> SUFFICES ASSUME IInv, Miradas, NEW b \in DOMAIN bloqueos
             PROVE  /\ bloqueos[b].pc \in {"notificar", "confirmar"} \/ bloqueos[b].suspendido
                         => Estaba(b)
                    /\ bloqueos[b].pc = "buscando" /\ Ocurre(b, blocked) =>
                         \/ \E j \in DOMAIN blocked : blocked[j] = b /\ j >= bloqueos[b].i
                         \/ Primero # bloqueos[b].primero
  BY DEF BusquedaExacta
<1>1. MiradaBien(bloqueos[b], b, Len(bloqueos), blocked) /\ DOMAIN blocked = 1..Len(blocked)
  BY MiradaTipo DEF Miradas
<1>2. ASSUME bloqueos[b].pc = "buscando", Ocurre(b, blocked), Primero = bloqueos[b].primero
      PROVE  \E j \in DOMAIN blocked : blocked[j] = b /\ j >= bloqueos[b].i
  <2>1. PICK j \in DOMAIN blocked : blocked[j] = b
    BY <1>2 DEF Ocurre
  <2>2. blocked # <<>>
    BY <1>1, <2>1
  <2>3. blocked[1] = bloqueos[b].primero
    BY <1>2, <2>2 DEF Primero
  <2>. QED
    BY <1>1, <1>2, <2>1, <2>3 DEF MiradaBien
<1>. QED
  BY <1>1, <1>2 DEF MiradaBien, Estaba

\* Whatever is added to the list or taken from it while a timer looks through it
\* without the mutex, the timer of a blocking that was over when it fired notifies
\* and suspends nothing, and one that fired in time passes over its blocking only
\* if the device took one off meanwhile (kernel.c:377-419).
THEOREM TemporizadorExacto == Spec => []BusquedaExacta
<1>1. Init => Miradas
  BY DEF Init, Miradas, Creciente
<1>2. IInv /\ Miradas /\ [Next]_vars => Miradas'
  BY MiradasPaso
<1> QED BY <1>1, <1>2, MiradasBastan, InvarianteInductivo, PTL DEF Spec

-----------------------------------------------------------------------------
(* The state of a process, read off the place it is in.                    *)

Mano(t, p)    == pc[t] = "encolar" /\ en[t] = p
DeNew(p)      == Ocurre(p, new) \/ Mano("ltp", p)
DeSusp(p)     == Ocurre(p, susp_ready) \/ Mano("des", p)
DeReady(p)    == Ocurre(p, ready) \/ (pc["stp"] = "enviar" /\ en["stp"] = p)
Suspendida(p) == \E b \in EnIO(p) : bloqueos[b].suspendido

\* The blockings that have not left the device are those it has listed, or the
\* one it has just taken off; and only a timer that has finished suspends.
Pendientes ==
  /\ \A b \in DOMAIN bloqueos :
       bloqueos[b].salida = "pendiente" => \/ \E i \in DOMAIN blocked : blocked[i] = b
                                           \/ pc["io"] = "decidir" /\ atendido = b
  /\ \A i \in DOMAIN blocked : bloqueos[blocked[i]].salida = "pendiente"
  /\ pc["io"] = "decidir" => bloqueos[atendido].salida = "pendiente"
  /\ \A b \in DOMAIN bloqueos : bloqueos[b].suspendido => bloqueos[b].pc = "fin"
  /\ \A b \in DOMAIN bloqueos : bloqueos[b].salida = "susp_ready" => bloqueos[b].suspendido

EInv == IInv /\ Cuentas /\ Pendientes

\* The hands, one by one.
LEMMA ManosSon ==
  ASSUME NEW p
  PROVE  EnMano(p) = Ind(Mano("ltp", p)) + Ind(Mano("io", p)) + Ind(Mano("des", p))
                       + Ind(Mano("disp", p))
<1>. DEFINE M == Manos(p)
            A == M \cap {"ltp"}
            B == M \cap {"ltp", "io"}
            C == M \cap {"ltp", "io", "des"}
<1>1. \A t \in APasar : t \in M <=> Mano(t, p)
  BY DEF Manos, Mano
<1>2. M \subseteq APasar
  BY DEF Manos
<1>. HIDE DEF M
<1>3. /\ {} \ {"ltp"} = A \ {"ltp"} /\ ("ltp" \in A <=> Mano("ltp", p))
      /\ A \ {"io"} = B \ {"io"} /\ "io" \notin A /\ ("io" \in B <=> Mano("io", p))
      /\ B \ {"des"} = C \ {"des"} /\ "des" \notin B /\ ("des" \in C <=> Mano("des", p))
      /\ C \ {"disp"} = M \ {"disp"} /\ "disp" \notin C /\ ("disp" \in M <=> Mano("disp", p))
  BY <1>1, <1>2 DEF APasar
<1>. HIDE DEF A, B, C
<1>4. IsFiniteSet({}) /\ Cardinality({}) = 0
  BY FS_EmptySet
<1>5. IsFiniteSet(A) /\ Cardinality(A) = Ind(Mano("ltp", p))
  <2>1. IsFiniteSet(A) /\ Cardinality(A) = Cardinality({}) - Ind("ltp" \in {}) + Ind("ltp" \in A)
    BY <1>3, <1>4, CambiaUno
  <2>2. Ind("ltp" \in {}) = 0 /\ Ind("ltp" \in A) = Ind(Mano("ltp", p))
    BY <1>3 DEF Ind
  <2>. QED
    BY <1>4, <2>1, <2>2, IndTipo
<1>6. IsFiniteSet(B) /\ Cardinality(B) = Cardinality(A) + Ind(Mano("io", p))
  BY <1>3, <1>5, CambiaUno, IndTipo DEF Ind
<1>7. IsFiniteSet(C) /\ Cardinality(C) = Cardinality(B) + Ind(Mano("des", p))
  BY <1>3, <1>6, CambiaUno, IndTipo DEF Ind
<1>8. Cardinality(M) = Cardinality(C) + Ind(Mano("disp", p))
  BY <1>3, <1>7, CambiaUno, IndTipo DEF Ind
<1>. QED
  BY <1>5, <1>6, <1>7, <1>8, IndTipo DEF EnMano, M

\* A process is in a queue if and only if it is counted there.
LEMMA OcurreCuenta ==
  ASSUME NEW S, NEW s \in Seq(S), NEW p
  PROVE  /\ Ocurre(p, s) <=> Veces(p, s) >= 1
         /\ (\E i \in DOMAIN s : s[i].proc = p) <=> VecesEn(p, s) >= 1
<1>1. IsFiniteSet(1..Len(s)) /\ DOMAIN s = 1..Len(s)
  BY FS_Interval
<1>2. \A T \in SUBSET DOMAIN s : /\ IsFiniteSet(T) /\ Cardinality(T) \in Nat
                                 /\ T # {} <=> Cardinality(T) >= 1
  <2>1. \A T \in SUBSET DOMAIN s : IsFiniteSet(T)
    BY <1>1, FS_Subset
  <2>2. \A T \in SUBSET DOMAIN s : Cardinality(T) \in Nat /\ (Cardinality(T) = 0 <=> T = {})
    BY <2>1, FS_CardinalityType, FS_EmptySet
  <2>. QED
    BY <2>1, <2>2
<1>3. Ocurre(p, s) <=> {i \in DOMAIN s : s[i] = p} # {}
  BY DEF Ocurre
<1>4. (\E i \in DOMAIN s : s[i].proc = p) <=> {i \in DOMAIN s : s[i].proc = p} # {}
  OBVIOUS
<1>. QED
  BY <1>2, <1>3, <1>4 DEF Veces, VecesEn

LEMMA BlockedCuenta ==
  ASSUME TypeOK, NEW p
  PROVE  (\E i \in DOMAIN blocked : ProcesoDe(blocked[i]) = p) <=> EnBlocked(p) >= 1
<1>. DEFINE T == {i \in DOMAIN blocked : ProcesoDe(blocked[i]) = p}
<1>1. IsFiniteSet(1..Len(blocked)) /\ DOMAIN blocked = 1..Len(blocked)
  BY FS_Interval DEF TypeOK
<1>2. IsFiniteSet(T)
  BY <1>1, FS_Subset
<1>3. (\E i \in DOMAIN blocked : ProcesoDe(blocked[i]) = p) <=> T # {}
  OBVIOUS
<1>4. EnBlocked(p) = Cardinality(T)
  BY DEF EnBlocked
<1>. QED
  BY <1>2, <1>3, <1>4, FS_CardinalityType, FS_EmptySet

\* Each process is of one class, and of one only.
ClaseUnica(p) ==
  /\ p \in por_llegar \/ p \in terminados \/ DeNew(p) \/ DeSusp(p)
       \/ ConCpu(p) \/ EnIO(p) # {} \/ Mano("io", p) \/ DeReady(p)
  /\ p \in por_llegar =>
       p \notin terminados /\ ~DeNew(p) /\ ~DeSusp(p) /\ ~ConCpu(p) /\ EnIO(p) = {} /\ ~Mano("io", p) /\ ~DeReady(p)
  /\ p \in terminados =>
       ~DeNew(p) /\ ~DeSusp(p) /\ ~ConCpu(p) /\ EnIO(p) = {} /\ ~Mano("io", p) /\ ~DeReady(p)
  /\ DeNew(p) =>
       ~DeSusp(p) /\ ~ConCpu(p) /\ EnIO(p) = {} /\ ~Mano("io", p) /\ ~DeReady(p)
  /\ DeSusp(p) =>
       ~ConCpu(p) /\ EnIO(p) = {} /\ ~Mano("io", p) /\ ~DeReady(p)
  /\ ConCpu(p) =>
       EnIO(p) = {} /\ ~Mano("io", p) /\ ~DeReady(p)
  /\ EnIO(p) # {} =>
       ~Mano("io", p) /\ ~DeReady(p)
  /\ Mano("io", p) =>
       ~DeReady(p)

LEMMA CadaUnoEnSuClase == EInv => \A p \in Procesos : ClaseUnica(p)
<1> SUFFICES ASSUME EInv, NEW p \in Procesos PROVE ClaseUnica(p)
  OBVIOUS
<1>0. TypeOK /\ Suma(p) = 1 /\ Pendientes
  BY SumaEs DEF EInv, IInv, Cuentas
<1>. DEFINE a == Ind(p \in por_llegar)
            b == Ind(p \in terminados)
            c == EnNew(p) + Ind(Mano("ltp", p))
            d == EnSuspReady(p) + Ind(Mano("des", p))
            e == EnDespacho(p) + EnDevueltos(p) + Ind(Mano("disp", p))
            f == EnBlocked(p) + Saliendo(p)
            g == Ind(Mano("io", p))
            h == EnReady(p) + Enviando(p)
<1>1. /\ a \in {0, 1} /\ (p \in por_llegar <=> a >= 1)
      /\ b \in {0, 1} /\ (p \in terminados <=> b >= 1)
      /\ g \in {0, 1} /\ (Mano("io", p) <=> g >= 1)
      /\ Ind(Mano("ltp", p)) \in {0, 1} /\ (Mano("ltp", p) <=> Ind(Mano("ltp", p)) >= 1)
      /\ Ind(Mano("des", p)) \in {0, 1} /\ (Mano("des", p) <=> Ind(Mano("des", p)) >= 1)
      /\ Ind(Mano("disp", p)) \in {0, 1} /\ (Mano("disp", p) <=> Ind(Mano("disp", p)) >= 1)
  BY DEF Ind
<1>2. /\ EnNew(p) \in Nat /\ EnReady(p) \in Nat /\ EnSuspReady(p) \in Nat
      /\ EnBlocked(p) \in Nat /\ Saliendo(p) \in {0, 1}
      /\ EnDespacho(p) \in Nat /\ EnDevueltos(p) \in Nat
      /\ Enviando(p) \in {0, 1}
  BY <1>0, SumaTipo
<1>3. a + b + c + d + e + f + g + h = 1
  <2>1. EnMano(p) = Ind(Mano("ltp", p)) + g + Ind(Mano("des", p)) + Ind(Mano("disp", p))
    BY ManosSon
  <2>2. a + b + EnNew(p) + EnReady(p) + EnSuspReady(p) + EnBlocked(p) + Saliendo(p)
          + EnDespacho(p) + EnDevueltos(p) + Enviando(p) + EnMano(p) = 1
    BY <1>0 DEF Suma
  <2>. HIDE DEF a, b, g
  <2>. QED
    BY <1>1, <1>2, <2>1, <2>2
<1>4. /\ new \in Seq(Procesos) /\ ready \in Seq(Procesos) /\ susp_ready \in Seq(Procesos)
      /\ despacho \in Seq(PCB) /\ devueltos \in Seq(Devuelto)
  BY <1>0 DEF TypeOK
<1>5. DeNew(p) <=> c >= 1
  <2>1. Ocurre(p, new) <=> EnNew(p) >= 1
    BY <1>4, OcurreCuenta DEF EnNew
  <2>. QED
    BY <1>1, <1>2, <2>1 DEF DeNew
<1>6. DeSusp(p) <=> d >= 1
  <2>1. Ocurre(p, susp_ready) <=> EnSuspReady(p) >= 1
    BY <1>4, OcurreCuenta DEF EnSuspReady
  <2>. QED
    BY <1>1, <1>2, <2>1 DEF DeSusp
<1>7. ConCpu(p) <=> e >= 1
  <2>1. (\E i \in DOMAIN despacho : despacho[i].proc = p) <=> EnDespacho(p) >= 1
    BY <1>4, OcurreCuenta DEF EnDespacho
  <2>2. (\E i \in DOMAIN devueltos : devueltos[i].proc = p) <=> EnDevueltos(p) >= 1
    BY <1>4, OcurreCuenta DEF EnDevueltos
  <2>3. ConCpu(p) <=> EnDespacho(p) >= 1 \/ EnDevueltos(p) >= 1 \/ Mano("disp", p)
    BY <2>1, <2>2 DEF ConCpu, Mano
  <2>. QED
    BY <1>1, <1>2, <2>3
<1>8. DeReady(p) <=> h >= 1
  <2>1. Ocurre(p, ready) <=> EnReady(p) >= 1
    BY <1>4, OcurreCuenta DEF EnReady
  <2>2. (pc["stp"] = "enviar" /\ en["stp"] = p) <=> Enviando(p) >= 1
    BY DEF Enviando, Ind
  <2>. QED
    BY <1>2, <2>1, <2>2 DEF DeReady
<1>9. EnIO(p) # {} <=> f >= 1
  <2>1. Saliendo(p) >= 1 <=> pc["io"] = "decidir" /\ atendido # 0 /\ p = ProcesoDe(atendido)
    BY DEF Saliendo, Ind
  <2>2. EnBlocked(p) >= 1 <=> \E i \in DOMAIN blocked : ProcesoDe(blocked[i]) = p
    BY <1>0, BlockedCuenta
  <2>3. \A i \in DOMAIN blocked : blocked[i] \in DOMAIN bloqueos
    BY <1>0 DEF TypeOK
  <2>4. atendido \in DOMAIN bloqueos \/ atendido = 0
    BY <1>0 DEF TypeOK
  <2>5. pc["io"] = "decidir" => atendido # 0
    BY DEF EInv, IInv, Punteros
  <2>6. EnIO(p) # {} => EnBlocked(p) >= 1 \/ Saliendo(p) >= 1
    BY <1>0, <2>1, <2>2, <2>5 DEF EnIO, Pendientes
  <2>7. EnBlocked(p) >= 1 => EnIO(p) # {}
    BY <1>0, <2>2, <2>3 DEF EnIO, Pendientes
  <2>8. Saliendo(p) >= 1 => EnIO(p) # {}
    BY <1>0, <2>1, <2>4 DEF EnIO, Pendientes
  <2>. QED
    BY <1>2, <2>6, <2>7, <2>8
<1>10. a \in Nat /\ b \in Nat /\ c \in Nat /\ d \in Nat /\ e \in Nat /\ f \in Nat /\ g \in Nat
       /\ h \in Nat
  BY <1>1, <1>2
<1>11. (p \in por_llegar <=> a >= 1) /\ (p \in terminados <=> b >= 1) /\ (Mano("io", p) <=> g >= 1)
  BY <1>1
<1>. HIDE DEF a, b, c, d, e, f, g, h
<1>. QED
  BY <1>3, <1>5, <1>6, <1>7, <1>8, <1>9, <1>10, <1>11 DEF ClaseUnica

LEMMA CadaUnoEnSuClaseLuego == (EInv => \A p \in Procesos : ClaseUnica(p))'
  BY CadaUnoEnSuClase, PTL

\* The state of a process is that of its class.
EstadoDeClase(p) ==
  /\ p \in por_llegar => Estado(p) = "FUERA"
  /\ p \in terminados => Estado(p) = "EXIT"
  /\ DeNew(p) => Estado(p) = "NEW"
  /\ DeSusp(p) => Estado(p) = "SUSP_READY"
  /\ ConCpu(p) => Estado(p) = "EXEC"
  /\ EnIO(p) # {} /\ Suspendida(p) => Estado(p) = "SUSP_BLOCKED"
  /\ EnIO(p) # {} /\ ~Suspendida(p) => Estado(p) = "BLOCKED"
  /\ Mano("io", p) => Estado(p) = "BLOCKED"
  /\ DeReady(p) => Estado(p) = "READY"

LEMMA EstadosDeClase == \A p : ClaseUnica(p) => EstadoDeClase(p)
<1> SUFFICES ASSUME NEW p, ClaseUnica(p) PROVE EstadoDeClase(p)
  OBVIOUS
<1>1. Estado(p) = IF p \in por_llegar THEN "FUERA"
                  ELSE IF p \in terminados THEN "EXIT"
                  ELSE IF DeNew(p) THEN "NEW"
                  ELSE IF DeSusp(p) THEN "SUSP_READY"
                  ELSE IF ConCpu(p) THEN "EXEC"
                  ELSE IF EnIO(p) # {} THEN IF Suspendida(p) THEN "SUSP_BLOCKED" ELSE "BLOCKED"
                  ELSE IF Mano("io", p) THEN "BLOCKED"
                  ELSE "READY"
  BY DEF ClaseUnica, Estado, DeNew, DeSusp, Suspendida, Mano
<1>. QED
  BY <1>1 DEF ClaseUnica, EstadoDeClase

LEMMA EstadosDeClaseLuego == (\A p : ClaseUnica(p) => EstadoDeClase(p))'
  BY EstadosDeClase, PTL

\* A process none of whose marks change stays in its state.
LEMMA EstadoIgual ==
  ASSUME NEW p, p \in por_llegar' <=> p \in por_llegar, p \in terminados' <=> p \in terminados,
         DeNew(p)' <=> DeNew(p), DeSusp(p)' <=> DeSusp(p), ConCpu(p)' <=> ConCpu(p),
         EnIO(p)' = EnIO(p), Suspendida(p)' <=> Suspendida(p),
         Mano("io", p)' <=> Mano("io", p)
  PROVE  Estado(p)' = Estado(p)
  BY DEF Estado, DeNew, DeSusp, Suspendida, Mano

-----------------------------------------------------------------------------
(* Pendientes is inductive.                                                *)

LEMMA PendientesIgual ==
  ASSUME Pendientes, UNCHANGED <<blocked, bloqueos>>,
         pc'["io"] = "decidir" <=> pc["io"] = "decidir",
         pc["io"] = "decidir" => atendido' = atendido
  PROVE  Pendientes'
  BY DEF Pendientes

\* The steps of a thread that is not the device deciding.
LEMMA PendientesHilo ==
  ASSUME TypeOK, Pendientes, UNCHANGED <<blocked, bloqueos>>,
         NEW t \in Hilos, NEW a, NEW b, Ir(t, a, b), a # "decidir", b # "decidir",
         t = "io" \/ UNCHANGED atendido
  PROVE  Pendientes'
<1>1. pc[t] = a /\ pc'[t] = b /\ \A h \in Hilos : h # t => pc'[h] = pc[h]
  BY DEF Ir, TypeOK, Sitios
<1>2. /\ pc'["io"] = "decidir" <=> pc["io"] = "decidir"
      /\ pc["io"] = "decidir" => atendido' = atendido
  BY <1>1 DEF Hilos
<1>. QED
  BY <1>2, PendientesIgual

LEMMA PendientesPasar ==
  ASSUME TypeOK, Pendientes, NEW t \in APasar, PasarAReady(t) PROVE Pendientes'
<1>1. t \in Hilos /\ UNCHANGED <<blocked, bloqueos, atendido>>
  BY DEF APasar, Hilos, PasarAReady, Encolar, PedirTabla, RecibirTabla, Interrumpir, PostReady,
     colas
<1>2. PICK a, b : Ir(t, a, b) /\ a # "decidir" /\ b # "decidir"
  <2>1. CASE Encolar(t)
    <3>1. TrasEncolar(t) # "decidir"
      BY DEF TrasEncolar, TrasTabla
    <3>. QED
      BY <2>1, <3>1 DEF Encolar
  <2>2. CASE PedirTabla(t)   BY <2>2 DEF PedirTabla
  <2>3. CASE RecibirTabla(t)
    <3>1. TrasTabla # "decidir"
      BY DEF TrasTabla
    <3>. QED
      BY <2>3, <3>1 DEF RecibirTabla
  <2>4. CASE Interrumpir(t)  BY <2>4 DEF Interrumpir
  <2>5. CASE PostReady(t)
    <3>1. TrasPasar(t) # "decidir"
      BY DEF TrasPasar, Inicio, APasar
    <3>. QED
      BY <2>5, <3>1 DEF PostReady
  <2>. QED
    BY <2>1, <2>2, <2>3, <2>4, <2>5 DEF PasarAReady
<1>. QED
  BY <1>1, <1>2, PendientesHilo

LEMMA PendientesTerminarIO ==
  ASSUME EInv, TerminarIO PROVE Pendientes'
<1>1. TypeOK /\ Pendientes /\ Servido /\ blocked \in Seq(DOMAIN bloqueos)
  BY DEF EInv, IInv, Cuentas, TypeOK
<1>2. /\ pc["io"] = "usleep" /\ pc'["io"] = "decidir" /\ blocked' = Tail(blocked)
      /\ UNCHANGED <<bloqueos, atendido>>
  BY <1>1 DEF TerminarIO, Ir, TypeOK, Sitios, Hilos
<1>3. Len(blocked) > 0 /\ Len(blocked) \in Nat /\ atendido = blocked[1]
  BY <1>1, <1>2, HayElementos DEF EInv, Servido
<1>4. /\ DOMAIN Tail(blocked) = 1..(Len(blocked) - 1) /\ DOMAIN blocked = 1..Len(blocked)
      /\ \A i \in 1..(Len(blocked) - 1) : Tail(blocked)[i] = blocked[i + 1]
  BY <1>1, <1>3
<1>5. ASSUME NEW b \in DOMAIN bloqueos, bloqueos[b].salida = "pendiente", atendido # b
      PROVE  \E i \in DOMAIN Tail(blocked) : Tail(blocked)[i] = b
  <2>1. PICK j \in 1..Len(blocked) : blocked[j] = b
    BY <1>1, <1>2, <1>4, <1>5 DEF Pendientes
  <2>2. j # 1 /\ j - 1 \in 1..(Len(blocked) - 1) /\ (j - 1) + 1 = j
    BY <1>3, <1>5, <2>1
  <2>. QED
    BY <1>4, <2>1, <2>2
<1>6. \A i \in DOMAIN Tail(blocked) : bloqueos[Tail(blocked)[i]].salida = "pendiente"
  <2>1. \A i \in 1..(Len(blocked) - 1) : i + 1 \in DOMAIN blocked
    BY <1>3, <1>4
  <2>. QED
    BY <1>1, <1>4, <2>1 DEF Pendientes
<1>7. bloqueos[atendido].salida = "pendiente"
  BY <1>1, <1>3, <1>4 DEF Pendientes
<1>. QED
  BY <1>1, <1>2, <1>5, <1>6, <1>7 DEF Pendientes

LEMMA SiSaleNoEsta ==
  ASSUME TypeOK, NEW p, Suma(p) = 1, Saliendo(p) = 1 PROVE EnBlocked(p) = 0
<1>1. /\ Ind(p \in por_llegar) \in Nat /\ Ind(p \in terminados) \in Nat
      /\ EnNew(p) \in Nat /\ EnReady(p) \in Nat /\ EnSuspReady(p) \in Nat
      /\ EnBlocked(p) \in Nat /\ EnDespacho(p) \in Nat /\ EnDevueltos(p) \in Nat
      /\ Enviando(p) \in Nat /\ EnMano(p) \in Nat
  BY SumaTipo
<1>2. ~(EnBlocked(p) >= 1)
  <2> SUFFICES ASSUME EnBlocked(p) >= 1 PROVE FALSE
    OBVIOUS
  <2>1. Suma(p) >= Saliendo(p) + EnBlocked(p)
    BY <1>1 DEF Suma
  <2>. QED
    BY <1>1, <2>1
<1>. QED
  BY <1>1, <1>2

\* When the device has taken a blocking off the list, it is not in it again.
LEMMA AtendidoFuera ==
  ASSUME EInv, pc["io"] = "decidir"
  PROVE  /\ atendido \in DOMAIN bloqueos
         /\ \A i \in DOMAIN blocked : blocked[i] # atendido
<1>1. TypeOK /\ Conservacion /\ atendido \in DOMAIN bloqueos /\ atendido # 0
  BY DEF EInv, IInv, Cuentas, TypeOK, Punteros
<1>. DEFINE p == ProcesoDe(atendido)
<1>2. p \in Procesos
  <2>1. bloqueos[atendido] \in Bloqueo
    BY <1>1 DEF TypeOK
  <2>. QED
    BY <2>1 DEF ProcesoDe, Bloqueo
<1>3. Saliendo(p) = 1
  BY <1>1 DEF Saliendo, Ind
<1>4. Suma(p) = 1
  BY <1>1, <1>2, SumaEs
<1>. HIDE DEF p
<1>5. EnBlocked(p) = 0
  BY <1>1, <1>3, <1>4, SiSaleNoEsta
<1>6. \A i \in DOMAIN blocked : ProcesoDe(blocked[i]) # p
  BY <1>1, <1>5, BlockedCuenta
<1>. QED
  BY <1>1, <1>6 DEF p

LEMMA PendientesSalir ==
  ASSUME EInv, SalirAReady \/ SalirASuspReady PROVE Pendientes'
<1>1. TypeOK /\ Pendientes /\ blocked \in Seq(DOMAIN bloqueos)
  BY DEF EInv, IInv, TypeOK
<1>2. PICK s \in {"ready", "susp_ready"} :
        /\ bloqueos' = [bloqueos EXCEPT ![atendido].salida = s]
        /\ s = "susp_ready" => bloqueos[atendido].suspendido
  BY DEF SalirAReady, SalirASuspReady
<1>3. pc["io"] = "decidir" /\ pc'["io"] # "decidir" /\ UNCHANGED blocked
  BY <1>1 DEF SalirAReady, SalirASuspReady, Ir, TypeOK, Sitios, Hilos, colas
<1>4. atendido \in DOMAIN bloqueos /\ \A i \in DOMAIN blocked : blocked[i] # atendido
  BY <1>3, AtendidoFuera
<1>5. \A c \in DOMAIN bloqueos : bloqueos[c] \in Bloqueo
  BY <1>1 DEF TypeOK
<1>6. /\ DOMAIN bloqueos' = DOMAIN bloqueos
      /\ \A c \in DOMAIN bloqueos : /\ c # atendido => bloqueos'[c] = bloqueos[c]
                                    /\ bloqueos'[c].suspendido = bloqueos[c].suspendido
                                    /\ bloqueos'[c].pc = bloqueos[c].pc
      /\ bloqueos'[atendido].salida = s
  BY <1>2, <1>4, <1>5 DEF Bloqueo
<1>7. \A i \in DOMAIN blocked : blocked[i] \in DOMAIN bloqueos
  BY <1>1
<1>8. \A b \in DOMAIN bloqueos' : bloqueos'[b].salida = "pendiente" =>
        \E i \in DOMAIN blocked' : blocked'[i] = b
  BY <1>1, <1>3, <1>6 DEF Pendientes
<1>9. \A i \in DOMAIN blocked' : bloqueos'[blocked'[i]].salida = "pendiente"
  BY <1>1, <1>3, <1>4, <1>6, <1>7 DEF Pendientes
<1>10. \A b \in DOMAIN bloqueos' : bloqueos'[b].suspendido => bloqueos'[b].pc = "fin"
  BY <1>1, <1>6 DEF Pendientes
<1>11. \A b \in DOMAIN bloqueos' : bloqueos'[b].salida = "susp_ready" => bloqueos'[b].suspendido
  BY <1>1, <1>2, <1>6 DEF Pendientes
<1>. QED
  BY <1>3, <1>8, <1>9, <1>10, <1>11 DEF Pendientes

LEMMA PendientesBloqueo ==
  ASSUME EInv, RecibirBloqueo PROVE Pendientes'
<1>1. TypeOK /\ Pendientes /\ blocked \in Seq(DOMAIN bloqueos) /\ bloqueos \in Seq(Bloqueo)
  BY DEF EInv, IInv, TypeOK
<1>. DEFINE n == Len(bloqueos) + 1
            e == [proc |-> Head(devueltos).proc, suspendido |-> FALSE,
                  salida |-> "pendiente", pc |-> "durmiendo", i |-> 0, n |-> 0, primero |-> 0]
<1>2. /\ bloqueos' = Append(bloqueos, e) /\ blocked' = Append(blocked, n)
      /\ e.salida = "pendiente" /\ ~e.suspendido /\ atendido' = atendido
  BY DEF RecibirBloqueo, BloqueoNuevo
<1>3. pc'["io"] = pc["io"]
  BY <1>1 DEF RecibirBloqueo, Ir, TypeOK, Sitios, Hilos
<1>. HIDE DEF e
<1>4. /\ DOMAIN bloqueos' = DOMAIN bloqueos \union {n} /\ bloqueos'[n] = e
      /\ \A c \in DOMAIN bloqueos : bloqueos'[c] = bloqueos[c]
  <2>1. /\ Len(bloqueos) \in Nat /\ DOMAIN bloqueos = 1..Len(bloqueos)
        /\ DOMAIN bloqueos' = 1..(Len(bloqueos) + 1) /\ bloqueos'[n] = e
        /\ \A c \in DOMAIN bloqueos : bloqueos'[c] = bloqueos[c]
    BY <1>1, <1>2
  <2>. QED
    BY <2>1
<1>5. n \notin DOMAIN bloqueos
  <2>1. Len(bloqueos) \in Nat /\ DOMAIN bloqueos = 1..Len(bloqueos)
    BY <1>1
  <2>. QED
    BY <2>1
<1>. HIDE DEF n
<1>6. /\ \A i \in DOMAIN blocked : /\ blocked[i] \in DOMAIN bloqueos
                                   /\ i \in DOMAIN blocked' /\ blocked'[i] = blocked[i]
      /\ \A i \in DOMAIN blocked' : i \in DOMAIN blocked \/ blocked'[i] = n
      /\ \E i \in DOMAIN blocked' : blocked'[i] = n
  <2>1. /\ Len(blocked) \in Nat /\ DOMAIN blocked = 1..Len(blocked)
        /\ DOMAIN blocked' = 1..(Len(blocked) + 1) /\ blocked'[Len(blocked) + 1] = n
        /\ \A i \in DOMAIN blocked : blocked'[i] = blocked[i]
        /\ \A i \in DOMAIN blocked : blocked[i] \in DOMAIN bloqueos
    BY <1>1, <1>2
  <2>2. Len(blocked) + 1 \in DOMAIN blocked' /\ \A i \in DOMAIN blocked' :
          i \in DOMAIN blocked \/ i = Len(blocked) + 1
    BY <2>1
  <2>3. \A i \in DOMAIN blocked : i \in DOMAIN blocked'
    BY <2>1
  <2>. QED
    BY <2>1, <2>2, <2>3
<1>7. pc["io"] = "decidir" => atendido \in DOMAIN bloqueos
  BY AtendidoFuera
<1>8. \A b \in DOMAIN bloqueos' : bloqueos'[b].salida = "pendiente" =>
        \/ \E i \in DOMAIN blocked' : blocked'[i] = b
        \/ pc'["io"] = "decidir" /\ atendido' = b
  <2> SUFFICES ASSUME NEW b \in DOMAIN bloqueos', bloqueos'[b].salida = "pendiente"
               PROVE  \/ \E i \in DOMAIN blocked' : blocked'[i] = b
                      \/ pc'["io"] = "decidir" /\ atendido' = b
    OBVIOUS
  <2>1. CASE b = n
    BY <1>6, <2>1
  <2>2. CASE b \in DOMAIN bloqueos
    <3>1. \/ \E i \in DOMAIN blocked : blocked[i] = b
          \/ pc["io"] = "decidir" /\ atendido = b
      BY <1>1, <1>4, <2>2 DEF Pendientes
    <3>. QED
      BY <1>2, <1>3, <1>6, <3>1
  <2>. QED
    BY <1>4, <2>1, <2>2
<1>9. \A i \in DOMAIN blocked' : bloqueos'[blocked'[i]].salida = "pendiente"
  BY <1>1, <1>2, <1>4, <1>6 DEF Pendientes
<1>10. pc'["io"] = "decidir" => bloqueos'[atendido'].salida = "pendiente"
  BY <1>1, <1>2, <1>3, <1>4, <1>7 DEF Pendientes
<1>11. \A b \in DOMAIN bloqueos' : /\ bloqueos'[b].suspendido => bloqueos'[b].pc = "fin"
                                   /\ bloqueos'[b].salida = "susp_ready" => bloqueos'[b].suspendido
  BY <1>1, <1>2, <1>4 DEF Pendientes
<1>. QED
  BY <1>8, <1>9, <1>10, <1>11 DEF Pendientes

LEMMA SuspensorEscribe ==
  ASSUME TypeOK, NEW b \in DOMAIN bloqueos, Suspensor(b)
  PROVE  /\ DOMAIN bloqueos' = DOMAIN bloqueos
         /\ \A c \in DOMAIN bloqueos : c # b => bloqueos'[c] = bloqueos[c]
         /\ bloqueos'[b].proc = bloqueos[b].proc /\ bloqueos'[b].salida = bloqueos[b].salida
         /\ \/ bloqueos'[b] = bloqueos[b]
            \/ /\ bloqueos[b].pc # "fin"
               /\ \/ bloqueos'[b].suspendido = bloqueos[b].suspendido
                  \/ /\ Confirmar(b) /\ Head(respuestas) = Confirmacion
                     /\ bloqueos'[b].suspendido /\ bloqueos'[b].pc = "fin"
<1>1. bloqueos \in Seq(Bloqueo) /\ bloqueos[b] \in Bloqueo
  BY DEF TypeOK
<1>2. /\ DOMAIN bloqueos' = DOMAIN bloqueos
      /\ \A c \in DOMAIN bloqueos : c # b => bloqueos'[c] = bloqueos[c]
  BY <1>1 DEF Suspensor, Vencer, Buscar, NotificarSuspension, Confirmar, PasoSuspensor
<1>3. CASE Vencer(b)
  <2>1. /\ bloqueos'[b].proc = bloqueos[b].proc /\ bloqueos'[b].salida = bloqueos[b].salida
        /\ bloqueos'[b].suspendido = bloqueos[b].suspendido /\ bloqueos[b].pc = "durmiendo"
    BY <1>1, <1>3 DEF Vencer, Bloqueo
  <2>. QED
    BY <1>2, <2>1
<1>4. CASE Buscar(b)
  <2>1. bloqueos[b].pc = "buscando"
    BY <1>4 DEF Buscar
  <2>2. CASE UNCHANGED bloqueos
    BY <1>2, <2>2
  <2>3. CASE \E s \in {"fin", "notificar"} : bloqueos' = [bloqueos EXCEPT ![b].pc = s]
    <3>1. /\ bloqueos'[b].proc = bloqueos[b].proc /\ bloqueos'[b].salida = bloqueos[b].salida
          /\ bloqueos'[b].suspendido = bloqueos[b].suspendido
      BY <1>1, <2>3 DEF Bloqueo
    <3>. QED
      BY <1>2, <2>1, <3>1
  <2>4. CASE bloqueos' = [bloqueos EXCEPT ![b].i = bloqueos[b].i + 1]
    <3>1. /\ bloqueos'[b].proc = bloqueos[b].proc /\ bloqueos'[b].salida = bloqueos[b].salida
          /\ bloqueos'[b].suspendido = bloqueos[b].suspendido
      BY <1>1, <2>4 DEF Bloqueo
    <3>. QED
      BY <1>2, <2>1, <3>1
  <2>. QED
    BY <1>4, <2>2, <2>3, <2>4 DEF Buscar
<1>5. CASE NotificarSuspension(b)
  <2>1. /\ bloqueos'[b].proc = bloqueos[b].proc /\ bloqueos'[b].salida = bloqueos[b].salida
        /\ bloqueos'[b].suspendido = bloqueos[b].suspendido /\ bloqueos[b].pc = "notificar"
    BY <1>1, <1>5 DEF NotificarSuspension, PasoSuspensor, Bloqueo
  <2>. QED
    BY <1>2, <2>1
<1>6. CASE Confirmar(b)
  <2>1. bloqueos[b].pc = "confirmar"
    BY <1>6 DEF Confirmar
  <2>2. CASE Head(respuestas) = Confirmacion
    <3>1. bloqueos' = [bloqueos EXCEPT ![b].pc = "fin", ![b].suspendido = TRUE]
      BY <1>6, <2>2 DEF Confirmar
    <3>2. /\ bloqueos'[b].proc = bloqueos[b].proc /\ bloqueos'[b].salida = bloqueos[b].salida
          /\ bloqueos'[b].suspendido /\ bloqueos'[b].pc = "fin"
      BY <1>1, <3>1 DEF Bloqueo
    <3>. QED
      BY <1>2, <1>6, <2>1, <2>2, <3>2
  <2>3. CASE Head(respuestas) # Confirmacion
    <3>1. bloqueos' = [bloqueos EXCEPT ![b].pc = "fin"]
      BY <1>6, <2>3 DEF Confirmar
    <3>2. /\ bloqueos'[b].proc = bloqueos[b].proc /\ bloqueos'[b].salida = bloqueos[b].salida
          /\ bloqueos'[b].suspendido = bloqueos[b].suspendido
      BY <1>1, <3>1 DEF Bloqueo
    <3>. QED
      BY <1>2, <2>1, <3>2
  <2>. QED
    BY <2>2, <2>3
<1>. QED
  BY <1>3, <1>4, <1>5, <1>6 DEF Suspensor

LEMMA PendientesSuspensor ==
  ASSUME EInv, NEW b \in DOMAIN bloqueos, Suspensor(b) PROVE Pendientes'
<1>1. TypeOK /\ Pendientes
  BY DEF EInv, IInv
<1>2. UNCHANGED <<blocked, pc, atendido>>
  BY DEF Suspensor, Vencer, Buscar, NotificarSuspension, Confirmar, colas, hilos
<1>3. /\ DOMAIN bloqueos' = DOMAIN bloqueos
      /\ \A c \in DOMAIN bloqueos :
           /\ bloqueos'[c].salida = bloqueos[c].salida
           /\ bloqueos[c].suspendido => bloqueos'[c].suspendido
           /\ bloqueos'[c].suspendido => bloqueos'[c].pc = "fin"
  <2>1. bloqueos'[b].suspendido => bloqueos'[b].pc = "fin"
    BY <1>1, SuspensorEscribe DEF Pendientes
  <2>2. bloqueos[b].suspendido => bloqueos'[b].suspendido
    BY <1>1, SuspensorEscribe DEF Pendientes
  <2>. QED
    BY <1>1, <2>1, <2>2, SuspensorEscribe DEF Pendientes
<1>4. \A i \in DOMAIN blocked : blocked[i] \in DOMAIN bloqueos
  BY <1>1 DEF TypeOK
<1>5. pc["io"] = "decidir" => atendido \in DOMAIN bloqueos
  BY AtendidoFuera
<1>6. \A c \in DOMAIN bloqueos' :
        bloqueos'[c].salida = "pendiente" => \/ \E i \in DOMAIN blocked' : blocked'[i] = c
                                             \/ pc'["io"] = "decidir" /\ atendido' = c
  BY <1>1, <1>2, <1>3 DEF Pendientes
<1>7. \A i \in DOMAIN blocked' : bloqueos'[blocked'[i]].salida = "pendiente"
  BY <1>1, <1>2, <1>3, <1>4 DEF Pendientes
<1>8. pc'["io"] = "decidir" => bloqueos'[atendido'].salida = "pendiente"
  BY <1>1, <1>2, <1>3, <1>5 DEF Pendientes
<1>9. \A c \in DOMAIN bloqueos' : /\ bloqueos'[c].suspendido => bloqueos'[c].pc = "fin"
                                  /\ bloqueos'[c].salida = "susp_ready" => bloqueos'[c].suspendido
  BY <1>1, <1>3 DEF Pendientes
<1>. QED
  BY <1>6, <1>7, <1>8, <1>9 DEF Pendientes

LEMMA PendientesPaso == EInv /\ [Next]_vars => Pendientes'
<1> SUFFICES ASSUME EInv, [Next]_vars PROVE Pendientes'
  OBVIOUS
<1>0. TypeOK /\ Pendientes /\ Hilos = {"stp", "ltp", "io", "des", "disp"}
      /\ APasar = {"ltp", "io", "des", "disp"}
  BY DEF EInv, IInv, Hilos, APasar
<1>1. CASE \E p \in Procesos : AtenderConsola(p)
  BY <1>0, <1>1, PendientesIgual DEF AtenderConsola, hilos
<1>2. CASE Planificador
  <2>1. UNCHANGED <<blocked, bloqueos, atendido>>
    BY <1>2 DEF Planificador, EsperarCpu, EsperarReady, Extraer, Enviar, Marcar, colas
  <2>2. PICK a, b : Ir("stp", a, b)
    BY <1>2 DEF Planificador, EsperarCpu, EsperarReady, Extraer, Enviar, Marcar
  <2>3. pc'["io"] = pc["io"]
    BY <1>0, <2>2 DEF Ir, TypeOK, Sitios
  <2>. QED
    BY <1>0, <2>1, <2>3, PendientesIgual
<1>3. CASE LargoPlazo
  <2>1. CASE PasarAReady("ltp")
    BY <1>0, <2>1, PendientesPasar
  <2>2. CASE EsperarNew \/ EsperarGrado \/ AdmitirNuevo \/ CederLugar
    <3>1. UNCHANGED <<blocked, bloqueos, atendido>>
      BY <2>2 DEF EsperarNew, EsperarGrado, AdmitirNuevo, CederLugar, colas
    <3>2. PICK a, b : Ir("ltp", a, b)
      BY <2>2 DEF EsperarNew, EsperarGrado, AdmitirNuevo, CederLugar
    <3>3. pc'["io"] = pc["io"]
      BY <1>0, <3>2 DEF Ir, TypeOK, Sitios
    <3>. QED
      BY <1>0, <3>1, <3>3, PendientesIgual
  <2>. QED
    BY <1>3, <2>1, <2>2 DEF LargoPlazo
<1>4. CASE Dispositivo
  <2>1. CASE IniciarIO
    <3>1. Ir("io", "bloqueados", "usleep") /\ UNCHANGED <<blocked, bloqueos>>
      BY <2>1 DEF IniciarIO, colas
    <3>. QED
      BY <1>0, <3>1, PendientesHilo
  <2>2. CASE TerminarIO
    BY <2>2, PendientesTerminarIO
  <2>3. CASE SalirAReady \/ SalirASuspReady
    BY <2>3, PendientesSalir
  <2>4. CASE PasarAReady("io")
    BY <1>0, <2>4, PendientesPasar
  <2>5. CASE InterrumpirOtraVez("io")
    <3>1. Ir("io", "interrumpir2", Inicio["io"]) /\ UNCHANGED <<blocked, bloqueos>>
          /\ Inicio["io"] # "decidir"
      BY <2>5 DEF InterrumpirOtraVez, colas, Inicio
    <3>. QED
      BY <1>0, <3>1, PendientesHilo
  <2>. QED
    BY <1>4, <2>1, <2>2, <2>3, <2>4, <2>5 DEF Dispositivo
<1>5. CASE Desuspendidor
  <2>1. CASE PasarAReady("des")
    BY <1>0, <2>1, PendientesPasar
  <2>2. CASE EsperarSuspReady \/ EsperarLugar \/ Desuspender \/ InterrumpirOtraVez("des")
    <3>1. UNCHANGED <<blocked, bloqueos, atendido>>
      BY <2>2 DEF EsperarSuspReady, EsperarLugar, Desuspender, InterrumpirOtraVez, colas
    <3>2. PICK a, b : Ir("des", a, b)
      BY <2>2 DEF EsperarSuspReady, EsperarLugar, Desuspender, InterrumpirOtraVez
    <3>3. pc'["io"] = pc["io"]
      BY <1>0, <3>2 DEF Ir, TypeOK, Sitios
    <3>. QED
      BY <1>0, <3>1, <3>3, PendientesIgual
  <2>. QED
    BY <1>5, <2>1, <2>2 DEF Desuspendidor
<1>6. CASE Escucha
  <2>1. CASE RecibirBloqueo
    BY <2>1, PendientesBloqueo
  <2>2. CASE PasarAReady("disp")
    BY <1>0, <2>2, PendientesPasar
  <2>3. CASE RecibirInterrumpido \/ RecibirExit \/ LiberarCpu
    <3>1. UNCHANGED <<blocked, bloqueos, atendido>>
      BY <2>3 DEF RecibirInterrumpido, RecibirExit, LiberarCpu, colas
    <3>2. PICK a, b : Ir("disp", a, b)
      BY <2>3 DEF RecibirInterrumpido, RecibirExit, LiberarCpu
    <3>3. pc'["io"] = pc["io"]
      BY <1>0, <3>2 DEF Ir, TypeOK, Sitios
    <3>. QED
      BY <1>0, <3>1, <3>3, PendientesIgual
  <2>. QED
    BY <1>6, <2>1, <2>2, <2>3 DEF Escucha
<1>7. CASE \E b \in DOMAIN bloqueos : Suspensor(b)
  BY <1>7, PendientesSuspensor
<1>8. CASE Cpu
  <2>1. UNCHANGED <<blocked, bloqueos, atendido, pc>>
    BY <1>8 DEF Cpu, CpuBloqueo, CpuExit, CpuInterrumpe, Devolver, colas, hilos
  <2>. QED
    BY <1>0, <2>1, PendientesIgual
<1>9. CASE UNCHANGED vars
  <2>1. UNCHANGED <<blocked, bloqueos, atendido, pc>>
    BY <1>9 DEF vars, colas, hilos
  <2>. QED
    BY <1>0, <2>1, PendientesIgual
<1> QED BY <1>1, <1>2, <1>3, <1>4, <1>5, <1>6, <1>7, <1>8, <1>9 DEF Next, Paso, Reposo

LEMMA EInvPaso == EInv /\ [Next]_vars => EInv'
<1> SUFFICES ASSUME EInv, [Next]_vars PROVE EInv'
  OBVIOUS
<1>1. IInv /\ Cuentas
  BY DEF EInv
<1>2. IInv'
  BY <1>1, SiguienteInv
<1>3. Cuentas'
  BY <1>1, CuentasPaso
<1>4. Pendientes'
  BY PendientesPaso
<1>. QED
  BY <1>2, <1>3, <1>4 DEF EInv

LEMMA EInvInicio == Init => EInv
<1> SUFFICES ASSUME Init PROVE EInv
  OBVIOUS
<1>1. Pendientes
  BY DEF Init, Pendientes, Inicio
<1>. QED
  BY <1>1, InicioInv, CuentasInicio DEF EInv

-----------------------------------------------------------------------------
(* What a step does to the states, to the free places and to the late      *)
(* suspensions.                                                            *)

EnLaMemoria == {p \in Procesos : Estado(p) \in {"READY", "EXEC", "BLOCKED"}}

\* Places free, or in the hands of a thread that will give them to a process.
Libres == sem["multiprogramacion"] + Ind(pc["ltp"] \in {"mirar", "encolar"})
            + Ind(pc["des"] \in {"extraer", "encolar"})

Quieto == \A p \in Procesos : Estado(p)' = Estado(p)

Arco(q, d, h) == /\ Estado(q) = d /\ Estado(q)' = h
                 /\ \A p \in Procesos : p # q => Estado(p)' = Estado(p)
                 /\ Tardias' = Tardias

SinEfecto == Quieto /\ Tardias' = Tardias /\ Libres' = Libres

Efecto ==
  \/ SinEfecto
  \/ Quieto /\ Libres' = Libres + 1 /\ Cardinality(Tardias') = Cardinality(Tardias) + 1
  \/ \E q \in Procesos :
       /\ Libres' = Libres
       /\ \/ Arco(q, "FUERA", "NEW")     \/ Arco(q, "EXEC", "READY")
          \/ Arco(q, "EXEC", "BLOCKED")  \/ Arco(q, "BLOCKED", "READY")
          \/ Arco(q, "SUSP_BLOCKED", "SUSP_READY")
          \/ Arco(q, "READY", "EXEC") /\ \A p \in Procesos : Estado(p) # "EXEC"
  \/ \E q \in Procesos :
       /\ Libres' = Libres + 1
       /\ Arco(q, "BLOCKED", "SUSP_BLOCKED") \/ Arco(q, "EXEC", "EXIT")
  \/ \E q \in Procesos :
       /\ Libres >= 1 /\ Libres' = Libres - 1
       /\ Arco(q, "NEW", "READY") \/ Arco(q, "SUSP_READY", "READY")

\* Nothing that Estado(p) looks at changes.
Iguales(p) ==
  /\ p \in por_llegar' <=> p \in por_llegar
  /\ p \in terminados' <=> p \in terminados
  /\ DeNew(p)' <=> DeNew(p)
  /\ DeSusp(p)' <=> DeSusp(p)
  /\ ConCpu(p)' <=> ConCpu(p)
  /\ EnIO(p)' = EnIO(p)
  /\ Suspendida(p)' <=> Suspendida(p)
  /\ Mano("io", p)' <=> Mano("io", p)

LEMMA IgualesEstado == ASSUME NEW p, Iguales(p) PROVE Estado(p)' = Estado(p)
  BY EstadoIgual DEF Iguales

\* What each mark depends on.
LEMMA Marcas ==
  ASSUME NEW p
  PROVE  /\ new' = new /\ (Mano("ltp", p)' <=> Mano("ltp", p)) => (DeNew(p)' <=> DeNew(p))
         /\ susp_ready' = susp_ready /\ (Mano("des", p)' <=> Mano("des", p))
              => (DeSusp(p)' <=> DeSusp(p))
         /\ despacho' = despacho /\ devueltos' = devueltos
              /\ (Mano("disp", p)' <=> Mano("disp", p)) => (ConCpu(p)' <=> ConCpu(p))
         /\ bloqueos' = bloqueos => EnIO(p)' = EnIO(p) /\ (Suspendida(p)' <=> Suspendida(p))
<1>1. bloqueos' = bloqueos => EnIO(p)' = EnIO(p)
  BY DEF EnIO, ProcesoDe
<1>2. bloqueos' = bloqueos => (Suspendida(p)' <=> Suspendida(p))
  BY <1>1 DEF Suspendida
<1>3. new' = new /\ (Mano("ltp", p)' <=> Mano("ltp", p)) => (DeNew(p)' <=> DeNew(p))
  BY DEF DeNew, Ocurre
<1>4. susp_ready' = susp_ready /\ (Mano("des", p)' <=> Mano("des", p))
        => (DeSusp(p)' <=> DeSusp(p))
  BY DEF DeSusp, Ocurre
<1>5. despacho' = despacho /\ devueltos' = devueltos
        /\ (Mano("disp", p)' <=> Mano("disp", p)) => (ConCpu(p)' <=> ConCpu(p))
  BY DEF ConCpu, Mano
<1>. QED
  BY <1>1, <1>2, <1>3, <1>4, <1>5

\* A thread that takes or leaves no process moves none.
LEMMA QuietoHilo ==
  ASSUME TypeOK,
         UNCHANGED <<por_llegar, terminados, new, susp_ready, despacho, devueltos, bloqueos>>,
         NEW t \in Hilos, NEW a, NEW b, Ir(t, a, b), a # "encolar", b # "encolar",
         \A h \in Hilos : h # t => en'[h] = en[h]
  PROVE  Quieto /\ Tardias' = Tardias
<1>1. pc[t] = a /\ pc'[t] = b /\ \A h \in Hilos : h # t => pc'[h] = pc[h]
  BY DEF Ir, TypeOK, Sitios
<1>2. \A h \in Hilos, p \in Procesos : Mano(h, p)' <=> Mano(h, p)
  BY <1>1 DEF Mano
<1>3. ASSUME NEW p \in Procesos PROVE Estado(p)' = Estado(p)
  <2>1. /\ Mano("ltp", p)' <=> Mano("ltp", p)
        /\ Mano("io", p)' <=> Mano("io", p)
        /\ Mano("des", p)' <=> Mano("des", p)
        /\ Mano("disp", p)' <=> Mano("disp", p)
    BY <1>2 DEF Hilos
  <2>2. Iguales(p)
    BY <2>1, Marcas DEF Iguales
  <2>. QED
    BY <2>2, IgualesEstado
<1>4. Tardias' = Tardias
  BY DEF Tardias
<1>. QED
  BY <1>3, <1>4 DEF Quieto

\* Nor does it touch the places, if it is not at their door.
LEMMA LibresHilo ==
  ASSUME TypeOK, sem'["multiprogramacion"] = sem["multiprogramacion"],
         NEW t \in Hilos, NEW a, NEW b, Ir(t, a, b),
         t = "ltp" => (a \in {"mirar", "encolar"} <=> b \in {"mirar", "encolar"}),
         t = "des" => (a \in {"extraer", "encolar"} <=> b \in {"extraer", "encolar"})
  PROVE  Libres' = Libres
<1>1. pc[t] = a /\ pc'[t] = b /\ \A h \in Hilos : h # t => pc'[h] = pc[h]
  BY DEF Ir, TypeOK, Sitios
<1>2. /\ pc'["ltp"] \in {"mirar", "encolar"} <=> pc["ltp"] \in {"mirar", "encolar"}
      /\ pc'["des"] \in {"extraer", "encolar"} <=> pc["des"] \in {"extraer", "encolar"}
  <2>1. "ltp" \in Hilos /\ "des" \in Hilos
    BY DEF Hilos
  <2>. QED
    BY <1>1, <2>1
<1>3. /\ Ind(pc'["ltp"] \in {"mirar", "encolar"}) = Ind(pc["ltp"] \in {"mirar", "encolar"})
      /\ Ind(pc'["des"] \in {"extraer", "encolar"}) = Ind(pc["des"] \in {"extraer", "encolar"})
  BY <1>2 DEF Ind
<1>. QED
  BY <1>3 DEF Libres

LEMMA LibresTipo ==
  ASSUME TypeOK PROVE sem["multiprogramacion"] \in Nat /\ Libres \in Nat
<1>1. sem["multiprogramacion"] \in Nat
  BY DEF TypeOK, Semaforos
<1>. QED
  BY <1>1 DEF Libres, Ind

\* Both together.
LEMMA SinEfectoHilo ==
  ASSUME TypeOK,
         UNCHANGED <<por_llegar, terminados, new, susp_ready, despacho, devueltos, bloqueos>>,
         sem'["multiprogramacion"] = sem["multiprogramacion"],
         NEW t \in Hilos, NEW a, NEW b, Ir(t, a, b), a # "encolar", b # "encolar",
         t = "ltp" => a # "mirar" /\ b # "mirar",
         t = "des" => a # "extraer" /\ b # "extraer",
         \A h \in Hilos : h # t => en'[h] = en[h]
  PROVE  Efecto
<1>1. Quieto /\ Tardias' = Tardias
  BY QuietoHilo
<1>2. Libres' = Libres
  BY LibresHilo
<1>. QED
  BY <1>1, <1>2 DEF Efecto, SinEfecto

\* The only semaphore of the degree is multiprogramacion.
LEMMA OtroSemaforo ==
  ASSUME TypeOK, NEW s \in Semaforos, s # "multiprogramacion", Wait(s) \/ Post(s)
  PROVE  sem'["multiprogramacion"] = sem["multiprogramacion"]
  BY DEF TypeOK, Wait, Post, Semaforos

\* From one state to another.
LEMMA ArcoDe ==
  ASSUME EInv, EInv', NEW q \in Procesos, NEW d, NEW h, Estado(q) = d, Estado(q)' = h,
         \A p \in Procesos : p # q => Iguales(p), Tardias' = Tardias
  PROVE  Arco(q, d, h)
  BY IgualesEstado DEF Arco

LEMMA Estados ==
  /\ EInv => \A p \in Procesos : ClaseUnica(p) /\ EstadoDeClase(p)
  /\ EInv' => \A p \in Procesos : ClaseUnica(p)' /\ EstadoDeClase(p)'
<1>1. EInv => \A p \in Procesos : ClaseUnica(p) /\ EstadoDeClase(p)
  BY CadaUnoEnSuClase, EstadosDeClase
<1>2. (EInv => \A p \in Procesos : ClaseUnica(p) /\ EstadoDeClase(p))'
  BY <1>1, PTL
<1>. QED
  BY <1>1, <1>2

-----------------------------------------------------------------------------
(* The steps that move no process.                                         *)

LEMMA EfectoPlanificador ==
  ASSUME EInv, EsperarCpu \/ EsperarReady \/ Extraer \/ Marcar PROVE Efecto
<1>0. TypeOK /\ "stp" \in Hilos
  BY DEF EInv, IInv, Hilos
<1>1. UNCHANGED <<por_llegar, terminados, new, susp_ready, despacho, devueltos, bloqueos>>
  BY DEF EsperarCpu, EsperarReady, Extraer, Marcar, mundo, colas, cpu
<1>2. PICK a, b : Ir("stp", a, b) /\ a # "encolar" /\ b # "encolar"
  BY DEF EsperarCpu, EsperarReady, Extraer, Marcar
<1>3. \A h \in Hilos : h # "stp" => en'[h] = en[h]
  BY <1>0 DEF EsperarCpu, EsperarReady, Extraer, Marcar, Tomar, TypeOK
<1>4. sem'["multiprogramacion"] = sem["multiprogramacion"]
  <2>1. UNCHANGED sem \/ Wait("planificacion") \/ Wait("ready")
    BY DEF EsperarCpu, EsperarReady, Extraer, Marcar
  <2>. QED
    BY <1>0, <2>1, OtroSemaforo DEF Semaforos
<1>. QED
  BY <1>0, <1>1, <1>2, <1>3, <1>4, SinEfectoHilo

LEMMA EfectoPasar ==
  ASSUME EInv, NEW t \in APasar,
         PedirTabla(t) \/ RecibirTabla(t) \/ Interrumpir(t) \/ PostReady(t)
           \/ InterrumpirOtraVez(t)
  PROVE  Efecto
<1>0. TypeOK /\ t \in Hilos
  BY DEF EInv, IInv, Hilos, APasar
<1>1. UNCHANGED <<por_llegar, terminados, new, susp_ready, despacho, devueltos, bloqueos>>
  BY DEF PedirTabla, RecibirTabla, Interrumpir, PostReady, InterrumpirOtraVez, mundo, colas, cpu
<1>2. PICK a, b : /\ Ir(t, a, b)
                  /\ a \notin {"encolar", "mirar", "extraer"}
                  /\ b \notin {"encolar", "mirar", "extraer"}
  <2>1. TrasTabla \notin {"encolar", "mirar", "extraer"}
    BY DEF TrasTabla
  <2>2. Inicio[t] \notin {"encolar", "mirar", "extraer"}
    BY DEF Inicio, APasar
  <2>3. TrasPasar(t) \notin {"encolar", "mirar", "extraer"}
    BY <2>2 DEF TrasPasar
  <2>4. CASE PedirTabla(t)          BY <2>4 DEF PedirTabla
  <2>5. CASE RecibirTabla(t)        BY <2>1, <2>5 DEF RecibirTabla
  <2>6. CASE Interrumpir(t)         BY <2>6 DEF Interrumpir
  <2>7. CASE PostReady(t)           BY <2>3, <2>7 DEF PostReady
  <2>8. CASE InterrumpirOtraVez(t)  BY <2>2, <2>8 DEF InterrumpirOtraVez
  <2>. QED
    BY <2>4, <2>5, <2>6, <2>7, <2>8
<1>3. \A h \in Hilos : h # t => en'[h] = en[h]
  BY <1>0 DEF PedirTabla, RecibirTabla, Interrumpir, PostReady, InterrumpirOtraVez, Soltar, TypeOK
<1>4. sem'["multiprogramacion"] = sem["multiprogramacion"]
  <2>1. UNCHANGED sem \/ Post("ready")
    BY DEF PedirTabla, RecibirTabla, Interrumpir, PostReady, InterrumpirOtraVez
  <2>. QED
    BY <1>0, <2>1, OtroSemaforo DEF Semaforos
<1>. QED
  BY <1>0, <1>1, <1>2, <1>3, <1>4, SinEfectoHilo

LEMMA EfectoEsperas ==
  ASSUME EInv, EsperarNew \/ IniciarIO \/ TerminarIO \/ EsperarSuspReady \/ LiberarCpu
  PROVE  Efecto
<1>0. TypeOK
  BY DEF EInv, IInv
<1>1. UNCHANGED <<por_llegar, terminados, new, susp_ready, despacho, devueltos, bloqueos, en>>
  BY DEF EsperarNew, IniciarIO, TerminarIO, EsperarSuspReady, LiberarCpu, mundo, colas, cpu
<1>2. PICK t, a, b : /\ t \in Hilos /\ Ir(t, a, b)
                     /\ a \notin {"encolar", "mirar", "extraer"}
                     /\ b \notin {"encolar", "mirar", "extraer"}
  BY DEF EsperarNew, IniciarIO, TerminarIO, EsperarSuspReady, LiberarCpu, Hilos
<1>3. sem'["multiprogramacion"] = sem["multiprogramacion"]
  <2>1. \/ UNCHANGED sem \/ Wait("new") \/ Wait("bloqueados")
        \/ Wait("susp_ready") \/ Post("planificacion")
    BY DEF EsperarNew, IniciarIO, TerminarIO, EsperarSuspReady, LiberarCpu
  <2>. QED
    BY <1>0, <2>1, OtroSemaforo DEF Semaforos
<1>. QED
  BY <1>0, <1>1, <1>2, <1>3, SinEfectoHilo

\* A place goes from the semaphore to the thread that took it, or back.
LEMMA EfectoGrado ==
  ASSUME EInv, EsperarGrado \/ EsperarLugar \/ CederLugar PROVE Efecto
<1>0. TypeOK /\ "ltp" \in Hilos /\ "des" \in Hilos
  BY DEF EInv, IInv, Hilos
<1>1. UNCHANGED <<por_llegar, terminados, new, susp_ready, despacho, devueltos, bloqueos, en>>
  BY DEF EsperarGrado, EsperarLugar, CederLugar, mundo, colas, cpu
<1>2. PICK t, a, b : t \in Hilos /\ Ir(t, a, b) /\ a # "encolar" /\ b # "encolar"
  BY <1>0 DEF EsperarGrado, EsperarLugar, CederLugar
<1>3. Quieto /\ Tardias' = Tardias
  BY <1>0, <1>1, <1>2, QuietoHilo
<1>4. sem["multiprogramacion"] \in Nat
  BY <1>0, LibresTipo
<1>. DEFINE x == Ind(pc["ltp"] \in {"mirar", "encolar"})
            y == Ind(pc["des"] \in {"extraer", "encolar"})
            x1 == Ind(pc'["ltp"] \in {"mirar", "encolar"})
            y1 == Ind(pc'["des"] \in {"extraer", "encolar"})
<1>5. x \in {0, 1} /\ y \in {0, 1} /\ x1 \in {0, 1} /\ y1 \in {0, 1}
  BY IndTipo
<1>6. sem'["multiprogramacion"] + x1 + y1 = sem["multiprogramacion"] + x + y
  <2>1. CASE EsperarGrado
    <3>1. sem'["multiprogramacion"] = sem["multiprogramacion"] - 1
      BY <1>0, <2>1 DEF EsperarGrado, Wait, TypeOK, Semaforos
    <3>2. /\ pc["ltp"] = "multiprogramacion" /\ pc'["ltp"] = "mirar" /\ pc'["des"] = pc["des"]
      BY <1>0, <2>1 DEF EsperarGrado, Ir, TypeOK, Sitios
    <3>3. x = 0 /\ x1 = 1 /\ y1 = y
      BY <3>2 DEF Ind
    <3>. HIDE DEF x, y, x1, y1
    <3>. QED
      BY <1>4, <1>5, <3>1, <3>3
  <2>2. CASE EsperarLugar
    <3>1. sem'["multiprogramacion"] = sem["multiprogramacion"] - 1
      BY <1>0, <2>2 DEF EsperarLugar, Wait, TypeOK, Semaforos
    <3>2. /\ pc["des"] = "multiprogramacion" /\ pc'["des"] = "extraer" /\ pc'["ltp"] = pc["ltp"]
      BY <1>0, <2>2 DEF EsperarLugar, Ir, TypeOK, Sitios
    <3>3. y = 0 /\ y1 = 1 /\ x1 = x
      BY <3>2 DEF Ind
    <3>. HIDE DEF x, y, x1, y1
    <3>. QED
      BY <1>4, <1>5, <3>1, <3>3
  <2>3. CASE CederLugar
    <3>1. sem'["multiprogramacion"] = sem["multiprogramacion"] + 1
      BY <1>0, <2>3 DEF CederLugar, TypeOK, Semaforos
    <3>2. /\ pc["ltp"] = "mirar" /\ pc'["ltp"] = "new" /\ pc'["des"] = pc["des"]
      BY <1>0, <2>3 DEF CederLugar, Ir, TypeOK, Sitios
    <3>3. x = 1 /\ x1 = 0 /\ y1 = y
      BY <3>2 DEF Ind
    <3>. HIDE DEF x, y, x1, y1
    <3>. QED
      BY <1>4, <1>5, <3>1, <3>3
  <2>. QED
    BY <2>1, <2>2, <2>3
<1>7. Libres' = Libres
  BY <1>6 DEF Libres
<1>. QED
  BY <1>3, <1>7 DEF Efecto, SinEfecto

-----------------------------------------------------------------------------
(* What a queue holds after a push and after a pop.                        *)

LEMMA OcurreAgregar ==
  ASSUME NEW S, NEW s \in Seq(S), NEW e \in S, NEW p
  PROVE  Ocurre(p, Append(s, e)) <=> Ocurre(p, s) \/ p = e
<1>1. /\ Len(s) \in Nat /\ DOMAIN s = 1..Len(s) /\ DOMAIN Append(s, e) = 1..(Len(s) + 1)
      /\ Append(s, e)[Len(s) + 1] = e /\ \A i \in DOMAIN s : Append(s, e)[i] = s[i]
  OBVIOUS
<1>2. Len(s) + 1 \in DOMAIN Append(s, e) /\ DOMAIN s \subseteq DOMAIN Append(s, e)
      /\ \A i \in DOMAIN Append(s, e) : i \in DOMAIN s \/ i = Len(s) + 1
  BY <1>1
<1>. QED
  BY <1>1, <1>2 DEF Ocurre

LEMMA OcurreQuitar ==
  ASSUME NEW S, NEW s \in Seq(S), s # <<>>, NEW p
  PROVE  Ocurre(p, s) <=> Ocurre(p, Tail(s)) \/ p = Head(s)
<1>1. /\ Len(s) \in Nat /\ DOMAIN s = 1..Len(s) /\ DOMAIN Tail(s) = 1..(Len(s) - 1)
      /\ Head(s) = s[1] /\ \A i \in 1..(Len(s) - 1) : Tail(s)[i] = s[i + 1]
      /\ 1 \in DOMAIN s
  OBVIOUS
<1>2. \A i \in DOMAIN s : i = 1 \/ (i - 1 \in DOMAIN Tail(s) /\ (i - 1) + 1 = i)
  BY <1>1
<1>3. \A i \in DOMAIN Tail(s) : i + 1 \in DOMAIN s
  BY <1>1
<1>4. \A i \in DOMAIN s : i # 1 => Tail(s)[i - 1] = s[i]
  BY <1>1, <1>2
<1>5. Ocurre(p, s) => Ocurre(p, Tail(s)) \/ p = Head(s)
  BY <1>1, <1>2, <1>4 DEF Ocurre
<1>6. Ocurre(p, Tail(s)) \/ p = Head(s) => Ocurre(p, s)
  BY <1>1, <1>3 DEF Ocurre
<1>. QED
  BY <1>5, <1>6

-----------------------------------------------------------------------------
(* The steps that move one.                                                *)

\* The hands of the other threads.
LEMMA ManoAjena ==
  ASSUME TypeOK, NEW t \in Hilos, NEW a, NEW b, Ir(t, a, b),
         \A h \in Hilos : h # t => en'[h] = en[h], NEW p
  PROVE  /\ "ltp" # t => (Mano("ltp", p)' <=> Mano("ltp", p))
         /\ "io" # t => (Mano("io", p)' <=> Mano("io", p))
         /\ "des" # t => (Mano("des", p)' <=> Mano("des", p))
         /\ "disp" # t => (Mano("disp", p)' <=> Mano("disp", p))
<1>1. \A h \in Hilos : h # t => pc'[h] = pc[h]
  BY DEF Ir, TypeOK, Sitios
<1>. QED
  BY <1>1 DEF Mano, Hilos

LEMMA EfectoConsola ==
  ASSUME EInv, EInv', NEW q \in Procesos, AtenderConsola(q) PROVE Efecto
<1>0. TypeOK /\ new \in Seq(Procesos)
  BY DEF EInv, IInv, TypeOK
<1>1. /\ q \in por_llegar /\ por_llegar' = por_llegar \ {q} /\ new' = Append(new, q)
      /\ UNCHANGED <<terminados, susp_ready, pc, en, bloqueos, despacho, devueltos>>
  BY DEF AtenderConsola, hilos, cpu
<1>2. \A p, t : Mano(t, p)' <=> Mano(t, p)
  BY <1>1 DEF Mano
<1>3. Ocurre(q, new)'
  BY <1>0, <1>1, OcurreAgregar DEF Ocurre
<1>4. Estado(q) = "FUERA" /\ Estado(q)' = "NEW"
  <2>1. DeNew(q)'
    BY <1>3 DEF DeNew
  <2>. QED
    BY <1>1, <2>1, Estados DEF EstadoDeClase
<1>5. ASSUME NEW p \in Procesos, p # q PROVE Iguales(p)
  <2>1. Ocurre(p, new)' <=> Ocurre(p, new)
    BY <1>0, <1>1, <1>5, OcurreAgregar DEF Ocurre
  <2>2. DeNew(p)' <=> DeNew(p)
    BY <1>2, <2>1 DEF DeNew
  <2>. QED
    BY <1>1, <1>2, <1>5, <2>2, Marcas DEF Iguales
<1>6. Tardias' = Tardias
  BY <1>1 DEF Tardias
<1>7. Arco(q, "FUERA", "NEW")
  BY <1>4, <1>5, <1>6, ArcoDe
<1>8. Libres' = Libres
  <2>1. sem'["multiprogramacion"] = sem["multiprogramacion"]
    BY <1>0, OtroSemaforo DEF AtenderConsola, Semaforos
  <2>. QED
    BY <1>1, <2>1 DEF Libres
<1>. QED
  BY <1>7, <1>8 DEF Efecto

\* The CPU is free when the scheduler sends, and has one when the listener reads.
LEMMA CpuLibreAlEnviar ==
  ASSUME IInv, pc["stp"] = "enviar"
  PROVE  despacho = <<>> /\ devueltos = <<>> /\ pc["disp"] = "escuchar"
<1>1. /\ sem["planificacion"] \in Nat /\ Len(despacho) \in Nat /\ Len(devueltos) \in Nat
      /\ Planificando = 1 /\ Atendiendo \in {0, 1}
  <2>1. sem["planificacion"] \in Nat
    BY DEF IInv, TypeOK, Semaforos
  <2>2. Len(despacho) \in Nat /\ Len(devueltos) \in Nat
    BY DEF IInv, TypeOK
  <2>3. Planificando = 1
    BY DEF Planificando, Ind
  <2>. QED
    BY <2>1, <2>2, <2>3 DEF Atendiendo, Ind
<1>. DEFINE a == sem["planificacion"]
            c == Len(despacho)
            d == Len(devueltos)
<1>2. a \in Nat /\ c \in Nat /\ d \in Nat /\ Atendiendo \in Nat /\ a + 1 + c + d + Atendiendo = 1
  BY <1>1 DEF IInv, ExclusionCpu
<1>. HIDE DEF a, c, d
<1>3. c = 0 /\ d = 0 /\ Atendiendo = 0
  BY <1>2
<1>4. pc["disp"] = "escuchar"
  BY <1>3 DEF Atendiendo, Ind
<1>5. despacho \in Seq(PCB) /\ devueltos \in Seq(Devuelto)
  BY DEF IInv, TypeOK
<1>6. despacho = <<>> /\ devueltos = <<>>
  BY <1>3, <1>5 DEF c, d
<1>. QED
  BY <1>4, <1>6

LEMMA DeUno ==
  ASSUME NEW S, NEW s \in Seq(S), Len(s) = 1
  PROVE  DOMAIN s = {1} /\ Head(s) = s[1] /\ s[1] \in S /\ DOMAIN Tail(s) = {}
<1>1. DOMAIN Tail(s) = 1..0
  OBVIOUS
<1>. QED
  BY <1>1

LEMMA UnoAlRecibir ==
  ASSUME IInv, Len(devueltos) > 0
  PROVE  /\ despacho = <<>> /\ Len(devueltos) = 1 /\ DOMAIN Tail(devueltos) = {}
         /\ Head(devueltos) = devueltos[1] /\ DOMAIN devueltos = {1}
         /\ devueltos[1].proc \in Procesos
<1>1. devueltos \in Seq(Devuelto) /\ despacho \in Seq(PCB)
  BY DEF IInv, TypeOK
<1>2. /\ sem["planificacion"] \in Nat /\ Planificando \in Nat /\ Atendiendo \in Nat
  BY DEF IInv, TypeOK, Semaforos, Planificando, Atendiendo, Ind
<1>3. sem["planificacion"] + Planificando + Len(despacho) + Len(devueltos) + Atendiendo = 1
  BY DEF IInv, ExclusionCpu
<1>. DEFINE a == sem["planificacion"]
            c == Len(despacho)
            d == Len(devueltos)
<1>4. a \in Nat /\ c \in Nat /\ d \in Nat /\ d > 0 /\ a + Planificando + c + d + Atendiendo = 1
  BY <1>1, <1>2, <1>3
<1>. HIDE DEF a, c, d
<1>5. c = 0 /\ d = 1
  BY <1>2, <1>4
<1>6. despacho = <<>> /\ Len(devueltos) = 1
  BY <1>1, <1>5 DEF c, d
<1>7. devueltos[1] \in Devuelto
  BY <1>1, <1>6, DeUno
<1>8. devueltos[1].proc \in Procesos
  BY <1>7 DEF Devuelto
<1>. QED
  BY <1>1, <1>6, <1>8, DeUno

LEMMA EfectoEnviar ==
  ASSUME EInv, EInv', Enviar PROVE Efecto
<1>0. TypeOK /\ IInv /\ en["stp"] \in Procesos /\ "stp" \in Hilos /\ pc["stp"] = "enviar"
  BY DEF EInv, IInv, Punteros, Hilos, Enviar, Ir
<1>q. PICK q \in Procesos : q = en["stp"]
  BY <1>0
<1>. DEFINE e == [proc |-> q, tabla |-> tabla[q]]
<1>1. /\ despacho' = Append(despacho, e) /\ e.proc = q
      /\ UNCHANGED <<por_llegar, terminados, new, susp_ready, bloqueos, sem, devueltos>>
  BY <1>q DEF Enviar, mundo, colas
<1>2. despacho = <<>> /\ devueltos = <<>> /\ pc["disp"] = "escuchar"
  BY <1>0, CpuLibreAlEnviar
<1>3. PICK b : Ir("stp", "enviar", b) /\ b # "encolar"
  BY DEF Enviar
<1>4. \A h \in Hilos : h # "stp" => en'[h] = en[h]
  BY <1>0 DEF Enviar, Soltar, TypeOK
<1>5. \A p : /\ Mano("ltp", p)' <=> Mano("ltp", p)
             /\ Mano("io", p)' <=> Mano("io", p)
             /\ Mano("des", p)' <=> Mano("des", p)
             /\ Mano("disp", p)' <=> Mano("disp", p)
  BY <1>0, <1>3, <1>4, ManoAjena
<1>6. \A p : ~Mano("disp", p)
  BY <1>2 DEF Mano
<1>7. \A p : ~ConCpu(p)
  BY <1>2 DEF ConCpu
<1>. HIDE DEF e
<1>8. \A p : ConCpu(p)' <=> p = q
  <2>1. DOMAIN despacho' = {1} /\ despacho'[1] = e /\ devueltos' = <<>>
    BY <1>1, <1>2
  <2>2. \A p : (\E i \in DOMAIN despacho' : despacho'[i].proc = p) <=> p = q
    BY <1>1, <2>1
  <2>. QED
    BY <1>5, <1>6, <2>1, <2>2 DEF ConCpu, Mano
<1>9. DeReady(q)
  BY <1>0, <1>q DEF DeReady
<1>10. Estado(q) = "READY" /\ Estado(q)' = "EXEC"
  BY <1>0, <1>8, <1>9, Estados DEF EstadoDeClase
<1>11. \A p \in Procesos : Estado(p) # "EXEC"
  BY <1>7, Estados DEF EstadoDeClase, ClaseUnica
<1>12. ASSUME NEW p \in Procesos, p # q PROVE Iguales(p)
  BY <1>1, <1>5, <1>7, <1>8, <1>12, Marcas DEF Iguales
<1>13. Tardias' = Tardias
  BY <1>1 DEF Tardias
<1>14. Arco(q, "READY", "EXEC")
  BY <1>0, <1>10, <1>12, <1>13, ArcoDe
<1>15. Libres' = Libres
  BY <1>0, <1>1, <1>3, LibresHilo
<1>. QED
  BY <1>11, <1>14, <1>15 DEF Efecto

\* A thread pushes the process it holds to ready, from wherever it came.
LEMMA EncolarArco ==
  ASSUME EInv, EInv', NEW t \in APasar, Encolar(t)
  PROVE  /\ \E q \in Procesos : Mano(t, q) /\ Arco(q, Estado(q), "READY")
         /\ pc[t] = "encolar" /\ \A h \in Hilos : h # t => pc'[h] = pc[h]
         /\ pc'[t] \notin {"encolar", "mirar", "extraer"} /\ UNCHANGED sem
<1>0. TypeOK /\ t \in Hilos /\ pc[t] = "encolar" /\ ready \in Seq(Procesos)
  BY DEF EInv, IInv, TypeOK, Hilos, APasar, Encolar, Ir
<1>1. PICK q \in Procesos : q = en[t]
  BY <1>0 DEF EInv, IInv, Punteros, Pasando
<1>2. /\ ready' = Append(ready, q) /\ UNCHANGED sem
      /\ UNCHANGED <<por_llegar, terminados, new, susp_ready, bloqueos, despacho, devueltos, en>>
  BY <1>1 DEF Encolar, mundo, cpu
<1>3. /\ Ir(t, "encolar", TrasEncolar(t)) /\ TrasEncolar(t) \notin {"encolar", "mirar", "extraer"}
  BY DEF Encolar, TrasEncolar, TrasTabla
<1>4. pc'[t] = TrasEncolar(t) /\ \A h \in Hilos : h # t => pc'[h] = pc[h]
  BY <1>0, <1>3 DEF Ir, TypeOK, Sitios
<1>5. DeReady(q)'
  <2>1. Ocurre(q, Append(ready, q))
    BY <1>0, <1>1, OcurreAgregar
  <2>. QED
    BY <1>2, <2>1 DEF DeReady, Ocurre
<1>6. Estado(q)' = "READY"
  BY <1>1, <1>5, Estados DEF EstadoDeClase
<1>7. ASSUME NEW p \in Procesos, p # q PROVE Iguales(p)
  <2>1. \A h \in Hilos : Mano(h, p)' <=> Mano(h, p)
    BY <1>1, <1>2, <1>3, <1>4, <1>7 DEF Mano
  <2>2. /\ Mano("ltp", p)' <=> Mano("ltp", p)
        /\ Mano("io", p)' <=> Mano("io", p)
        /\ Mano("des", p)' <=> Mano("des", p)
        /\ Mano("disp", p)' <=> Mano("disp", p)
    BY <2>1 DEF Hilos
  <2>. QED
    BY <1>2, <2>2, Marcas DEF Iguales
<1>8. Tardias' = Tardias
  BY <1>2 DEF Tardias
<1>9. Arco(q, Estado(q), "READY")
  BY <1>1, <1>6, <1>7, <1>8, ArcoDe
<1>10. Mano(t, q)
  BY <1>0, <1>1 DEF Mano
<1>. QED
  BY <1>0, <1>2, <1>3, <1>4, <1>9, <1>10

LEMMA EfectoEncolar ==
  ASSUME EInv, EInv', NEW t \in APasar, Encolar(t) PROVE Efecto
<1>0. PICK q \in Procesos : Mano(t, q) /\ Arco(q, Estado(q), "READY")
  BY EncolarArco
<1>1. /\ Mano(t, q) /\ Arco(q, Estado(q), "READY")
      /\ pc[t] = "encolar" /\ \A h \in Hilos : h # t => pc'[h] = pc[h]
      /\ pc'[t] \notin {"encolar", "mirar", "extraer"} /\ UNCHANGED sem
  BY <1>0, EncolarArco
<1>2. TypeOK /\ sem["multiprogramacion"] \in Nat
  BY LibresTipo DEF EInv, IInv
<1>. DEFINE x == Ind(pc["ltp"] \in {"mirar", "encolar"})
            y == Ind(pc["des"] \in {"extraer", "encolar"})
            x1 == Ind(pc'["ltp"] \in {"mirar", "encolar"})
            y1 == Ind(pc'["des"] \in {"extraer", "encolar"})
<1>3. /\ x \in {0, 1} /\ y \in {0, 1} /\ Libres = sem["multiprogramacion"] + x + y
      /\ Libres' = sem["multiprogramacion"] + x1 + y1
  BY <1>1, IndTipo DEF Libres
<1>4. CASE t = "ltp"
  <2>1. Estado(q) = "NEW"
    BY <1>1, <1>4, Estados DEF EstadoDeClase, DeNew
  <2>2. x = 1 /\ x1 = 0 /\ y1 = y
    BY <1>1, <1>4 DEF Ind, Hilos
  <2>. HIDE DEF x, y, x1, y1
  <2>3. Libres >= 1 /\ Libres' = Libres - 1
    BY <1>2, <1>3, <2>2
  <2>. QED
    BY <1>1, <2>1, <2>3 DEF Efecto
<1>5. CASE t = "des"
  <2>1. Estado(q) = "SUSP_READY"
    BY <1>1, <1>5, Estados DEF EstadoDeClase, DeSusp
  <2>2. y = 1 /\ y1 = 0 /\ x1 = x
    BY <1>1, <1>5 DEF Ind, Hilos
  <2>. HIDE DEF x, y, x1, y1
  <2>3. Libres >= 1 /\ Libres' = Libres - 1
    BY <1>2, <1>3, <2>2
  <2>. QED
    BY <1>1, <2>1, <2>3 DEF Efecto
<1>6. CASE t \in {"io", "disp"}
  <2>1. Estado(q) \in {"BLOCKED", "EXEC"}
    BY <1>1, <1>6, Estados DEF EstadoDeClase, ConCpu, Mano
  <2>2. Libres' = Libres
    BY <1>1, <1>3, <1>6 DEF Hilos
  <2>. QED
    BY <1>1, <2>1, <2>2 DEF Efecto
<1>. QED
  BY <1>4, <1>5, <1>6 DEF APasar

\* The two admissions: from the queue to the hand of the thread.
LEMMA EfectoAdmitir ==
  ASSUME EInv, AdmitirNuevo PROVE Efecto
<1>0. TypeOK /\ IInv /\ "ltp" \in Hilos /\ new \in Seq(Procesos)
  BY DEF EInv, IInv, TypeOK, Hilos
<1>1. /\ Ir("ltp", "mirar", "encolar") /\ new' = Tail(new)
      /\ en' = [en EXCEPT !["ltp"] = Head(new)]
      /\ UNCHANGED <<por_llegar, terminados, susp_ready, sem, bloqueos, despacho, devueltos>>
  BY DEF AdmitirNuevo, Tomar, mundo, cpu
<1>2. pc["ltp"] = "mirar" /\ pc'["ltp"] = "encolar" /\ en'["ltp"] = Head(new)
      /\ \A h \in Hilos : h # "ltp" => en'[h] = en[h]
  BY <1>0, <1>1 DEF Ir, TypeOK, Sitios
<1>3. Len(new) > 0
  BY <1>0, <1>2, HayElementos
<1>4. new # <<>>
  BY <1>0, <1>3, CabezaYCola
<1>5. ASSUME NEW p \in Procesos PROVE Iguales(p)
  <2>1. Ocurre(p, new) <=> Ocurre(p, new)' \/ p = Head(new)
    <3>1. Ocurre(p, new) <=> Ocurre(p, Tail(new)) \/ p = Head(new)
      BY <1>0, <1>4, OcurreQuitar
    <3>2. Ocurre(p, new)' <=> Ocurre(p, Tail(new))
      BY <1>1 DEF Ocurre
    <3>. QED
      BY <3>1, <3>2
  <2>2. DeNew(p)' <=> DeNew(p)
    BY <1>2, <2>1 DEF DeNew, Mano
  <2>3. /\ Mano("io", p)' <=> Mano("io", p)
        /\ Mano("des", p)' <=> Mano("des", p)
        /\ Mano("disp", p)' <=> Mano("disp", p)
    BY <1>0, <1>1, <1>2, ManoAjena
  <2>. QED
    BY <1>1, <2>2, <2>3, Marcas DEF Iguales
<1>6. Quieto /\ Tardias' = Tardias
  BY <1>1, <1>5, IgualesEstado DEF Quieto, Tardias
<1>7. Libres' = Libres
  BY <1>0, <1>1, LibresHilo
<1>. QED
  BY <1>6, <1>7 DEF Efecto, SinEfecto

LEMMA EfectoDesuspender ==
  ASSUME EInv, Desuspender PROVE Efecto
<1>0. TypeOK /\ IInv /\ "des" \in Hilos /\ susp_ready \in Seq(Procesos)
  BY DEF EInv, IInv, TypeOK, Hilos
<1>1. /\ Ir("des", "extraer", "encolar") /\ susp_ready' = Tail(susp_ready)
      /\ en' = [en EXCEPT !["des"] = Head(susp_ready)]
      /\ UNCHANGED <<por_llegar, terminados, new, sem, bloqueos, despacho, devueltos>>
  BY DEF Desuspender, Tomar, mundo, cpu
<1>2. pc["des"] = "extraer" /\ pc'["des"] = "encolar" /\ en'["des"] = Head(susp_ready)
      /\ \A h \in Hilos : h # "des" => en'[h] = en[h]
  BY <1>0, <1>1 DEF Ir, TypeOK, Sitios
<1>3. Len(susp_ready) > 0
  BY <1>0, <1>2, HayElementos
<1>4. susp_ready # <<>>
  BY <1>0, <1>3, CabezaYCola
<1>5. ASSUME NEW p \in Procesos PROVE Iguales(p)
  <2>1. Ocurre(p, susp_ready) <=> Ocurre(p, susp_ready)' \/ p = Head(susp_ready)
    <3>1. Ocurre(p, susp_ready) <=> Ocurre(p, Tail(susp_ready)) \/ p = Head(susp_ready)
      BY <1>0, <1>4, OcurreQuitar
    <3>2. Ocurre(p, susp_ready)' <=> Ocurre(p, Tail(susp_ready))
      BY <1>1 DEF Ocurre
    <3>. QED
      BY <3>1, <3>2
  <2>2. DeSusp(p)' <=> DeSusp(p)
    BY <1>2, <2>1 DEF DeSusp, Mano
  <2>3. /\ Mano("ltp", p)' <=> Mano("ltp", p)
        /\ Mano("io", p)' <=> Mano("io", p)
        /\ Mano("disp", p)' <=> Mano("disp", p)
    BY <1>0, <1>1, <1>2, ManoAjena
  <2>. QED
    BY <1>1, <2>2, <2>3, Marcas DEF Iguales
<1>6. Quieto /\ Tardias' = Tardias
  BY <1>1, <1>5, IgualesEstado DEF Quieto, Tardias
<1>7. Libres' = Libres
  BY <1>0, <1>1, LibresHilo
<1>. QED
  BY <1>6, <1>7 DEF Efecto, SinEfecto

\* The CPU returns what it was given.
LEMMA EfectoDevolver ==
  ASSUME EInv, NEW op, Devolver(op) PROVE Efecto
<1>0. /\ TypeOK /\ despacho \in Seq(PCB) /\ devueltos \in Seq(Devuelto)
  BY DEF EInv, IInv, TypeOK
<1>1. /\ sem["planificacion"] \in Nat /\ Planificando \in Nat /\ Atendiendo \in Nat
      /\ sem["planificacion"] + Planificando + Len(despacho) + Len(devueltos) + Atendiendo = 1
  BY <1>0 DEF EInv, IInv, ExclusionCpu, TypeOK, Semaforos, Planificando, Atendiendo, Ind
<1>2. Len(despacho) > 0 /\ Len(despacho) \in Nat /\ Len(devueltos) \in Nat
  BY <1>0, NoVacia DEF Devolver
<1>. DEFINE a == sem["planificacion"]
            c == Len(despacho)
            d == Len(devueltos)
<1>3. a \in Nat /\ c \in Nat /\ d \in Nat /\ c > 0 /\ a + Planificando + c + d + Atendiendo = 1
  BY <1>1, <1>2
<1>. HIDE DEF a, c, d
<1>4. c = 1 /\ d = 0
  BY <1>1, <1>3
<1>5. Len(despacho) = 1 /\ devueltos = <<>>
  BY <1>0, <1>4 DEF c, d
<1>6. DOMAIN despacho = {1} /\ Head(despacho) = despacho[1] /\ DOMAIN Tail(despacho) = {}
  BY <1>0, <1>5, DeUno
<1>. DEFINE e == [op |-> op, proc |-> Head(despacho).proc, tabla |-> Head(despacho).tabla]
<1>7. /\ despacho' = Tail(despacho) /\ devueltos' = Append(devueltos, e)
      /\ e.proc = despacho[1].proc
      /\ UNCHANGED <<por_llegar, terminados, new, susp_ready, sem, bloqueos, pc, en>>
  BY <1>6 DEF Devolver, mundo, colas, hilos
<1>. HIDE DEF e
<1>8. DOMAIN devueltos' = {1} /\ devueltos'[1] = e
  BY <1>5, <1>7
<1>9. ASSUME NEW p \in Procesos PROVE Iguales(p)
  <2>1. \A t : Mano(t, p)' <=> Mano(t, p)
    BY <1>7 DEF Mano
  <2>2. ConCpu(p) <=> despacho[1].proc = p \/ Mano("disp", p)
    BY <1>5, <1>6 DEF ConCpu, Mano
  <2>3. ConCpu(p)' <=> devueltos'[1].proc = p \/ Mano("disp", p)'
    BY <1>6, <1>7, <1>8 DEF ConCpu, Mano
  <2>4. ConCpu(p)' <=> ConCpu(p)
    BY <1>7, <1>8, <2>1, <2>2, <2>3
  <2>. QED
    BY <1>7, <2>1, <2>4, Marcas DEF Iguales
<1>10. Quieto /\ Tardias' = Tardias
  BY <1>7, <1>9, IgualesEstado DEF Quieto, Tardias
<1>11. Libres' = Libres
  BY <1>7 DEF Libres
<1>. QED
  BY <1>10, <1>11 DEF Efecto, SinEfecto

\* What the listener finds, whatever the message.
LEMMA RecibeUno ==
  ASSUME EInv, NEW op, Recibir(op), pc["disp"] = "escuchar"
  PROVE  \E q \in Procesos :
           /\ Head(devueltos).proc = q
           /\ \A p : ConCpu(p) <=> p = q
           /\ \A p : (despacho' = despacho => (ConCpu(p)' <=> Mano("disp", p)'))
<1>0. IInv /\ devueltos \in Seq(Devuelto)
  BY DEF EInv, IInv, TypeOK
<1>1. Len(devueltos) > 0 /\ devueltos' = Tail(devueltos)
  BY <1>0, NoVacia DEF Recibir
<1>2. /\ despacho = <<>> /\ DOMAIN Tail(devueltos) = {}
      /\ Head(devueltos) = devueltos[1] /\ DOMAIN devueltos = {1}
      /\ devueltos[1].proc \in Procesos
  BY <1>0, <1>1, UnoAlRecibir
<1>3. \A p : ConCpu(p) <=> p = devueltos[1].proc
  BY <1>2 DEF ConCpu
<1>4. \A p : (despacho' = despacho => (ConCpu(p)' <=> Mano("disp", p)'))
  BY <1>1, <1>2 DEF ConCpu, Mano
<1>. QED
  BY <1>2, <1>3, <1>4

LEMMA EfectoInterrumpido ==
  ASSUME EInv, RecibirInterrumpido PROVE Efecto
<1>0. TypeOK /\ "disp" \in Hilos
  BY DEF EInv, IInv, Hilos
<1>1. /\ Ir("disp", "escuchar", "encolar") /\ Recibir("INTERRUPCION")
      /\ en' = [en EXCEPT !["disp"] = Head(devueltos).proc]
      /\ UNCHANGED <<por_llegar, terminados, new, susp_ready, sem, bloqueos, despacho>>
  BY DEF RecibirInterrumpido, Tomar, mundo, colas
<1>2. pc["disp"] = "escuchar" /\ pc'["disp"] = "encolar" /\ en'["disp"] = Head(devueltos).proc
      /\ \A h \in Hilos : h # "disp" => en'[h] = en[h]
  BY <1>0, <1>1 DEF Ir, TypeOK, Sitios
<1>3. PICK q \in Procesos :
        /\ Head(devueltos).proc = q
        /\ \A p : ConCpu(p) <=> p = q
        /\ \A p : (despacho' = despacho => (ConCpu(p)' <=> Mano("disp", p)'))
  BY <1>1, <1>2, RecibeUno
<1>4. ASSUME NEW p \in Procesos PROVE Iguales(p)
  <2>1. Mano("disp", p)' <=> p = q
    BY <1>2, <1>3 DEF Mano
  <2>2. ConCpu(p)' <=> ConCpu(p)
    BY <1>1, <1>3, <2>1
  <2>3. /\ Mano("ltp", p)' <=> Mano("ltp", p)
        /\ Mano("io", p)' <=> Mano("io", p)
        /\ Mano("des", p)' <=> Mano("des", p)
    BY <1>0, <1>1, <1>2, ManoAjena
  <2>. QED
    BY <1>1, <2>2, <2>3, Marcas DEF Iguales
<1>5. Quieto /\ Tardias' = Tardias
  BY <1>1, <1>4, IgualesEstado DEF Quieto, Tardias
<1>6. Libres' = Libres
  BY <1>0, <1>1, LibresHilo
<1>. QED
  BY <1>5, <1>6 DEF Efecto, SinEfecto

LEMMA EfectoExit ==
  ASSUME EInv, EInv', RecibirExit PROVE Efecto
<1>0. TypeOK /\ "disp" \in Hilos /\ sem["multiprogramacion"] \in Nat
  BY LibresTipo DEF EInv, IInv, Hilos
<1>1. /\ Ir("disp", "escuchar", "liberar") /\ Recibir("EXIT")
      /\ terminados' = terminados \union {Head(devueltos).proc} /\ Post("multiprogramacion")
      /\ UNCHANGED <<por_llegar, new, susp_ready, bloqueos, despacho, en>>
  BY DEF RecibirExit, colas
<1>2. pc["disp"] = "escuchar" /\ pc'["disp"] = "liberar"
      /\ pc'["ltp"] = pc["ltp"] /\ pc'["des"] = pc["des"]
  BY <1>0, <1>1 DEF Ir, TypeOK, Sitios, Hilos
<1>3. PICK q \in Procesos :
        /\ Head(devueltos).proc = q
        /\ \A p : ConCpu(p) <=> p = q
        /\ \A p : (despacho' = despacho => (ConCpu(p)' <=> Mano("disp", p)'))
  BY <1>1, <1>2, RecibeUno
<1>4. \A p : ~ConCpu(p)'
  BY <1>1, <1>2, <1>3 DEF Mano
<1>5. Estado(q) = "EXEC" /\ Estado(q)' = "EXIT"
  BY <1>1, <1>3, Estados DEF EstadoDeClase
<1>6. ASSUME NEW p \in Procesos, p # q PROVE Iguales(p)
  <2>1. /\ Mano("ltp", p)' <=> Mano("ltp", p)
        /\ Mano("io", p)' <=> Mano("io", p)
        /\ Mano("des", p)' <=> Mano("des", p)
    BY <1>0, <1>1, ManoAjena
  <2>. QED
    BY <1>1, <1>3, <1>4, <1>6, <2>1, Marcas DEF Iguales
<1>7. Tardias' = Tardias
  BY <1>1 DEF Tardias
<1>8. Arco(q, "EXEC", "EXIT")
  BY <1>5, <1>6, <1>7, ArcoDe
<1>9. sem'["multiprogramacion"] = sem["multiprogramacion"] + 1
  BY <1>0, <1>1 DEF Post, TypeOK, Semaforos
<1>10. Libres' = Libres + 1
  BY <1>0, <1>2, <1>9, IndTipo DEF Libres
<1>. QED
  BY <1>8, <1>10 DEF Efecto

\* Its process asks for I/O: the new blocking is its only one, and sleeps.
LEMMA EfectoBloqueo ==
  ASSUME EInv, EInv', RecibirBloqueo PROVE Efecto
<1>0. TypeOK /\ "disp" \in Hilos /\ bloqueos \in Seq(Bloqueo)
  BY DEF EInv, IInv, TypeOK, Hilos
<1>1. /\ Ir("disp", "escuchar", "liberar") /\ Recibir("BLOQUEO_IO")
      /\ UNCHANGED <<por_llegar, terminados, new, susp_ready, despacho, en>>
  BY DEF RecibirBloqueo, mundo
<1>2. pc["disp"] = "escuchar" /\ pc'["disp"] = "liberar"
  BY <1>0, <1>1 DEF Ir, TypeOK, Sitios
<1>3. PICK q \in Procesos :
        /\ Head(devueltos).proc = q
        /\ \A p : ConCpu(p) <=> p = q
        /\ \A p : (despacho' = despacho => (ConCpu(p)' <=> Mano("disp", p)'))
  BY <1>1, <1>2, RecibeUno
<1>. DEFINE n == Len(bloqueos) + 1
            e == [proc |-> q, suspendido |-> FALSE,
                  salida |-> "pendiente", pc |-> "durmiendo", i |-> 0, n |-> 0, primero |-> 0]
<1>4. bloqueos' = Append(bloqueos, e) /\ e.proc = q /\ e.salida = "pendiente" /\ ~e.suspendido
  BY <1>3 DEF RecibirBloqueo, BloqueoNuevo
<1>. HIDE DEF e
<1>5. /\ DOMAIN bloqueos' = DOMAIN bloqueos \union {n} /\ bloqueos'[n] = e
      /\ \A c \in DOMAIN bloqueos : bloqueos'[c] = bloqueos[c]
      /\ n \notin DOMAIN bloqueos
  <2>1. /\ Len(bloqueos) \in Nat /\ DOMAIN bloqueos = 1..Len(bloqueos)
        /\ DOMAIN bloqueos' = 1..(Len(bloqueos) + 1) /\ bloqueos'[n] = e
        /\ \A c \in DOMAIN bloqueos : bloqueos'[c] = bloqueos[c]
    BY <1>0, <1>4
  <2>. QED
    BY <2>1
<1>. HIDE DEF n
<1>6. \A p : ~ConCpu(p)'
  BY <1>1, <1>2, <1>3 DEF Mano
<1>7. ConCpu(q) /\ EnIO(q) = {} /\ Estado(q) = "EXEC"
  BY <1>3, Estados DEF EstadoDeClase, ClaseUnica
<1>8. EnIO(q)' = {n} /\ ~Suspendida(q)'
  <2>1. n \in EnIO(q)'
    BY <1>4, <1>5 DEF EnIO, ProcesoDe
  <2>2. \A c \in EnIO(q)' : c \notin DOMAIN bloqueos
    BY <1>5, <1>7 DEF EnIO, ProcesoDe
  <2>3. EnIO(q)' \subseteq DOMAIN bloqueos'
    BY DEF EnIO
  <2>4. EnIO(q)' = {n}
    BY <1>5, <2>1, <2>2, <2>3
  <2>. QED
    BY <1>4, <1>5, <2>4 DEF Suspendida
<1>9. Estado(q)' = "BLOCKED"
  BY <1>8, Estados DEF EstadoDeClase
<1>10. ASSUME NEW p \in Procesos, p # q PROVE Iguales(p)
  <2>1. /\ Mano("ltp", p)' <=> Mano("ltp", p)
        /\ Mano("io", p)' <=> Mano("io", p)
        /\ Mano("des", p)' <=> Mano("des", p)
    BY <1>0, <1>1, ManoAjena
  <2>2. EnIO(p)' = EnIO(p)
    BY <1>4, <1>5, <1>10 DEF EnIO, ProcesoDe
  <2>3. \A c \in EnIO(p) : bloqueos'[c] = bloqueos[c]
    BY <1>5 DEF EnIO
  <2>4. Suspendida(p)' <=> Suspendida(p)
    BY <2>2, <2>3 DEF Suspendida
  <2>. QED
    BY <1>1, <1>3, <1>6, <1>10, <2>1, <2>2, <2>4, Marcas DEF Iguales
<1>11. Tardias' = Tardias
  BY <1>4, <1>5 DEF Tardias
<1>12. Arco(q, "EXEC", "BLOCKED")
  BY <1>7, <1>9, <1>10, <1>11, ArcoDe
<1>13. sem'["multiprogramacion"] = sem["multiprogramacion"]
  BY <1>0, OtroSemaforo DEF RecibirBloqueo, Semaforos
<1>14. Libres' = Libres
  BY <1>0, <1>1, <1>13, LibresHilo
<1>. QED
  BY <1>12, <1>14 DEF Efecto

\* A process has one blocking at the device, at most.
LEMMA DosBloqueados ==
  ASSUME TypeOK, NEW p, NEW i \in DOMAIN blocked, NEW j \in DOMAIN blocked, i # j,
         ProcesoDe(blocked[i]) = p, ProcesoDe(blocked[j]) = p
  PROVE  EnBlocked(p) >= 2
<1>. DEFINE T == {k \in DOMAIN blocked : ProcesoDe(blocked[k]) = p}
            R == T \ {i}
<1>1. IsFiniteSet(1..Len(blocked)) /\ DOMAIN blocked = 1..Len(blocked)
  BY FS_Interval DEF TypeOK
<1>2. IsFiniteSet(T) /\ i \in T /\ j \in T
  BY <1>1, FS_Subset
<1>3. EnBlocked(p) = Cardinality(T)
  BY DEF EnBlocked
<1>. HIDE DEF T
<1>4. IsFiniteSet(R) /\ Cardinality(R) = Cardinality(T) - 1 /\ Cardinality(T) \in Nat
  BY <1>2, FS_RemoveElement, FS_CardinalityType
<1>5. Cardinality(R) # 0 /\ Cardinality(R) \in Nat
  BY <1>2, <1>4, FS_EmptySet, FS_CardinalityType
<1>. QED
  BY <1>3, <1>4, <1>5

LEMMA OnceSumandos ==
  ASSUME NEW a \in Nat, NEW b \in Nat, NEW c \in Nat, NEW d \in Nat, NEW e \in Nat,
         NEW f \in Nat, NEW g \in Nat, NEW h \in Nat, NEW i \in Nat, NEW j \in Nat,
         NEW k \in Nat, a + b + c + d + e + f + g + h + i + j + k = 1
  PROVE  g + f <= 1
  OBVIOUS

LEMMA PendienteUnica ==
  ASSUME EInv, NEW p \in Procesos, NEW b \in EnIO(p), NEW c \in EnIO(p)
  PROVE  b = c
<1> SUFFICES ASSUME b # c PROVE FALSE
  OBVIOUS
<1>0. TypeOK /\ Pendientes /\ Suma(p) = 1
  BY SumaEs DEF EInv, IInv, Cuentas
<1>1. /\ EnBlocked(p) \in Nat /\ Saliendo(p) \in Nat
      /\ EnBlocked(p) + Saliendo(p) <= 1
  <2>1. /\ Ind(p \in por_llegar) \in Nat /\ Ind(p \in terminados) \in Nat
        /\ EnNew(p) \in Nat /\ EnReady(p) \in Nat /\ EnSuspReady(p) \in Nat
        /\ EnBlocked(p) \in Nat /\ EnDespacho(p) \in Nat /\ EnDevueltos(p) \in Nat
        /\ Enviando(p) \in Nat /\ EnMano(p) \in Nat /\ Saliendo(p) \in Nat
    BY <1>0, SumaTipo
  <2>2. Ind(p \in por_llegar) + Ind(p \in terminados) + EnNew(p) + EnReady(p) + EnSuspReady(p)
          + EnBlocked(p) + Saliendo(p) + EnDespacho(p) + EnDevueltos(p) + Enviando(p)
          + EnMano(p) = 1
    BY <1>0 DEF Suma
  <2>3. Saliendo(p) + EnBlocked(p) <= 1
    BY <2>1, <2>2, OnceSumandos
  <2>. QED
    BY <2>1, <2>3
<1>2. /\ b \in DOMAIN bloqueos /\ ProcesoDe(b) = p /\ bloqueos[b].salida = "pendiente"
      /\ c \in DOMAIN bloqueos /\ ProcesoDe(c) = p /\ bloqueos[c].salida = "pendiente"
  BY DEF EnIO
<1>3. /\ (\E i \in DOMAIN blocked : blocked[i] = b) \/ (pc["io"] = "decidir" /\ atendido = b)
      /\ (\E i \in DOMAIN blocked : blocked[i] = c) \/ (pc["io"] = "decidir" /\ atendido = c)
  BY <1>0, <1>2 DEF Pendientes
<1>4. (\E i \in DOMAIN blocked : blocked[i] = b \/ blocked[i] = c) => EnBlocked(p) >= 1
  BY <1>0, <1>2, BlockedCuenta
<1>5. pc["io"] = "decidir" /\ (atendido = b \/ atendido = c) => Saliendo(p) = 1
  <2>1. pc["io"] = "decidir" => atendido # 0
    BY DEF EInv, IInv, Punteros
  <2>. QED
    BY <1>2, <2>1 DEF Saliendo, Ind
<1>6. CASE pc["io"] = "decidir" /\ (atendido = b \/ atendido = c)
  <2>1. EnBlocked(p) >= 1
    BY <1>3, <1>4, <1>6
  <2>2. Saliendo(p) = 1
    BY <1>5, <1>6
  <2>. QED
    BY <1>1, <2>1, <2>2
<1>7. CASE ~(pc["io"] = "decidir" /\ (atendido = b \/ atendido = c))
  <2>1. PICK i \in DOMAIN blocked : blocked[i] = b
    BY <1>3, <1>7
  <2>2. PICK j \in DOMAIN blocked : blocked[j] = c
    BY <1>3, <1>7
  <2>3. EnBlocked(p) >= 2
    BY <1>0, <1>2, <2>1, <2>2, DosBloqueados
  <2>. QED
    BY <1>1, <2>3
<1>. QED
  BY <1>6, <1>7

\* The two ways out of the device.
LEMMA SalidaDe ==
  ASSUME EInv, NEW s \in {"ready", "susp_ready"},
         bloqueos' = [bloqueos EXCEPT ![atendido].salida = s], pc["io"] = "decidir"
  PROVE  \E q \in Procesos :
           /\ ProcesoDe(atendido) = q /\ EnIO(q) = {atendido} /\ EnIO(q)' = {}
           /\ Suspendida(q) <=> bloqueos[atendido].suspendido
           /\ \A p \in Procesos : p # q => /\ EnIO(p)' = EnIO(p)
                                           /\ Suspendida(p)' <=> Suspendida(p)
           /\ Tardias' = IF s = "ready" /\ bloqueos[atendido].suspendido
                           THEN Tardias \union {atendido} ELSE Tardias
<1>0. TypeOK /\ Pendientes /\ atendido \in DOMAIN bloqueos
  BY AtendidoFuera DEF EInv, IInv
<1>1. \A c \in DOMAIN bloqueos : bloqueos[c] \in Bloqueo
  BY <1>0 DEF TypeOK
<1>2. PICK q \in Procesos : ProcesoDe(atendido) = q
  BY <1>0, <1>1 DEF ProcesoDe, Bloqueo
<1>3. PICK a : a = atendido
  OBVIOUS
<1>4. /\ DOMAIN bloqueos' = DOMAIN bloqueos
      /\ \A c \in DOMAIN bloqueos : /\ c # a => bloqueos'[c] = bloqueos[c]
                                    /\ bloqueos'[c].suspendido = bloqueos[c].suspendido
                                    /\ bloqueos'[c].proc = bloqueos[c].proc
      /\ bloqueos'[a].salida = s
  BY <1>0, <1>1, <1>3 DEF Bloqueo
<1>5. bloqueos[a].salida = "pendiente" /\ a \in DOMAIN bloqueos /\ bloqueos[a].proc = q
  BY <1>0, <1>2, <1>3 DEF Pendientes, ProcesoDe
<1>6. EnIO(q) = {a}
  <2>1. a \in EnIO(q)
    BY <1>5 DEF EnIO, ProcesoDe
  <2>. QED
    BY <2>1, PendienteUnica
<1>7. EnIO(q)' = {}
  <2>1. \A c \in DOMAIN bloqueos : bloqueos[c].proc = q /\ bloqueos[c].salida = "pendiente" => c = a
    BY <1>6 DEF EnIO, ProcesoDe
  <2>2. \A c \in DOMAIN bloqueos' : ~(bloqueos'[c].proc = q /\ bloqueos'[c].salida = "pendiente")
    BY <1>4, <2>1
  <2>. QED
    BY <2>2 DEF EnIO, ProcesoDe
<1>8. Suspendida(q) <=> bloqueos[a].suspendido
  BY <1>6 DEF Suspendida
<1>9. ASSUME NEW p \in Procesos, p # q
      PROVE  EnIO(p)' = EnIO(p) /\ (Suspendida(p)' <=> Suspendida(p))
  <2>1. EnIO(p)' = EnIO(p)
    BY <1>4, <1>5, <1>9 DEF EnIO, ProcesoDe
  <2>2. \A c \in EnIO(p) : bloqueos'[c].suspendido = bloqueos[c].suspendido
    BY <1>4 DEF EnIO
  <2>. QED
    BY <2>1, <2>2 DEF Suspendida
<1>10. Tardias' = IF s = "ready" /\ bloqueos[a].suspendido THEN Tardias \union {a} ELSE Tardias
  <2>1. Tardias' = {c \in DOMAIN bloqueos : bloqueos[c].suspendido /\ bloqueos'[c].salida = "ready"}
    BY <1>4 DEF Tardias
  <2>2. \A c \in DOMAIN bloqueos : c # a => bloqueos'[c].salida = bloqueos[c].salida
    BY <1>4
  <2>. QED
    BY <1>4, <1>5, <2>1, <2>2 DEF Tardias
<1>. QED
  BY <1>2, <1>3, <1>6, <1>7, <1>8, <1>9, <1>10

\* To ready, through the hand of the device: blocked until it is queued.
LEMMA EfectoSalirAReady ==
  ASSUME EInv, EInv', SalirAReady PROVE Efecto
<1>0. TypeOK /\ "io" \in Hilos
  BY DEF EInv, IInv, Hilos
<1>1. /\ Ir("io", "decidir", "encolar") /\ ~bloqueos[atendido].suspendido
      /\ bloqueos' = [bloqueos EXCEPT ![atendido].salida = "ready"]
      /\ en' = [en EXCEPT !["io"] = ProcesoDe(atendido)]
      /\ UNCHANGED <<por_llegar, terminados, new, susp_ready, despacho, devueltos, sem>>
  BY DEF SalirAReady, Tomar, mundo, colas, cpu
<1>2. /\ pc["io"] = "decidir" /\ pc'["io"] = "encolar" /\ en'["io"] = ProcesoDe(atendido)
      /\ \A h \in Hilos : h # "io" => en'[h] = en[h]
  BY <1>0, <1>1 DEF Ir, TypeOK, Sitios
<1>3. PICK q \in Procesos :
        /\ ProcesoDe(atendido) = q /\ EnIO(q) = {atendido} /\ EnIO(q)' = {}
        /\ Suspendida(q) <=> bloqueos[atendido].suspendido
        /\ \A p \in Procesos : p # q => /\ EnIO(p)' = EnIO(p)
                                        /\ Suspendida(p)' <=> Suspendida(p)
        /\ Tardias' = IF "ready" = "ready" /\ bloqueos[atendido].suspendido
                        THEN Tardias \union {atendido} ELSE Tardias
  BY <1>1, <1>2, SalidaDe
<1>4. Estado(q) = "BLOCKED"
  BY <1>1, <1>3, Estados DEF EstadoDeClase
<1>5. Estado(q)' = "BLOCKED"
  <2>1. Mano("io", q)'
    BY <1>2, <1>3 DEF Mano
  <2>. QED
    BY <2>1, Estados DEF EstadoDeClase
<1>6. ASSUME NEW p \in Procesos, p # q PROVE Iguales(p)
  <2>1. Mano("io", p)' <=> Mano("io", p)
    BY <1>2, <1>3, <1>6 DEF Mano
  <2>2. /\ Mano("ltp", p)' <=> Mano("ltp", p)
        /\ Mano("des", p)' <=> Mano("des", p)
        /\ Mano("disp", p)' <=> Mano("disp", p)
    BY <1>0, <1>1, <1>2, ManoAjena
  <2>. QED
    BY <1>1, <1>3, <1>6, <2>1, <2>2, Marcas DEF Iguales
<1>7. Quieto
  BY <1>4, <1>5, <1>6, IgualesEstado DEF Quieto
<1>8. Tardias' = Tardias
  BY <1>1, <1>3
<1>9. Libres' = Libres
  BY <1>0, <1>1, LibresHilo
<1>. QED
  BY <1>7, <1>8, <1>9 DEF Efecto, SinEfecto

LEMMA EfectoSalirASusp ==
  ASSUME EInv, EInv', SalirASuspReady PROVE Efecto
<1>0. TypeOK /\ "io" \in Hilos /\ susp_ready \in Seq(Procesos)
  BY DEF EInv, IInv, TypeOK, Hilos
<1>1. /\ Ir("io", "decidir", "bloqueados") /\ bloqueos[atendido].suspendido
      /\ bloqueos' = [bloqueos EXCEPT ![atendido].salida = "susp_ready"]
      /\ susp_ready' = Append(susp_ready, ProcesoDe(atendido)) /\ Post("susp_ready")
      /\ UNCHANGED <<por_llegar, terminados, new, despacho, devueltos, en>>
  BY DEF SalirASuspReady, mundo, cpu
<1>2. pc["io"] = "decidir" /\ pc'["io"] = "bloqueados"
  BY <1>0, <1>1 DEF Ir, TypeOK, Sitios
<1>3. PICK q \in Procesos :
        /\ ProcesoDe(atendido) = q /\ EnIO(q) = {atendido} /\ EnIO(q)' = {}
        /\ Suspendida(q) <=> bloqueos[atendido].suspendido
        /\ \A p \in Procesos : p # q => /\ EnIO(p)' = EnIO(p)
                                        /\ Suspendida(p)' <=> Suspendida(p)
        /\ Tardias' = IF "susp_ready" = "ready" /\ bloqueos[atendido].suspendido
                        THEN Tardias \union {atendido} ELSE Tardias
  BY <1>1, <1>2, SalidaDe
<1>4. Estado(q) = "SUSP_BLOCKED"
  BY <1>1, <1>3, Estados DEF EstadoDeClase
<1>5. \A p \in Procesos : Ocurre(p, susp_ready)' <=> Ocurre(p, susp_ready) \/ p = q
  <2>1. \A p \in Procesos : Ocurre(p, Append(susp_ready, q)) <=> Ocurre(p, susp_ready) \/ p = q
    BY <1>0, OcurreAgregar
  <2>2. susp_ready' = Append(susp_ready, q)
    BY <1>1, <1>3
  <2>. QED
    BY <2>1, <2>2 DEF Ocurre
<1>6. Estado(q)' = "SUSP_READY"
  <2>1. DeSusp(q)'
    BY <1>5 DEF DeSusp
  <2>. QED
    BY <2>1, Estados DEF EstadoDeClase
<1>7. ASSUME NEW p \in Procesos, p # q PROVE Iguales(p)
  <2>1. Mano("io", p)' <=> Mano("io", p)
    BY <1>2 DEF Mano
  <2>2. /\ Mano("ltp", p)' <=> Mano("ltp", p)
        /\ Mano("des", p)' <=> Mano("des", p)
        /\ Mano("disp", p)' <=> Mano("disp", p)
    BY <1>0, <1>1, ManoAjena
  <2>3. DeSusp(p)' <=> DeSusp(p)
    BY <1>5, <1>7, <2>2 DEF DeSusp
  <2>. QED
    BY <1>1, <1>3, <1>7, <2>1, <2>2, <2>3, Marcas DEF Iguales
<1>8. Tardias' = Tardias
  BY <1>3
<1>9. Arco(q, "SUSP_BLOCKED", "SUSP_READY")
  BY <1>4, <1>6, <1>7, <1>8, ArcoDe
<1>10. sem'["multiprogramacion"] = sem["multiprogramacion"]
  BY <1>0, <1>1, OtroSemaforo DEF Semaforos
<1>11. Libres' = Libres
  BY <1>0, <1>1, <1>10, LibresHilo
<1>. QED
  BY <1>9, <1>11 DEF Efecto

\* A timer that suspends: in time, the process; late, only the count of places.
LEMMA EfectoSuspende ==
  ASSUME EInv, EInv', NEW b \in DOMAIN bloqueos, Confirmar(b),
         Head(respuestas) = Confirmacion
  PROVE  Efecto
<1>0. TypeOK /\ Pendientes /\ sem["multiprogramacion"] \in Nat /\ bloqueos[b] \in Bloqueo
  <2>1. TypeOK /\ Pendientes
    BY DEF EInv, IInv
  <2>2. bloqueos[b] \in Bloqueo
    BY <2>1 DEF TypeOK
  <2>. QED
    BY <2>1, <2>2, LibresTipo
<1>1. /\ bloqueos[b].pc = "confirmar" /\ Post("multiprogramacion")
      /\ bloqueos' = [bloqueos EXCEPT ![b].pc = "fin", ![b].suspendido = TRUE]
      /\ UNCHANGED <<por_llegar, terminados, new, susp_ready, despacho, devueltos, pc, en>>
  BY DEF Confirmar, mundo, colas, hilos, cpu
<1>2. ~bloqueos[b].suspendido
  BY <1>0, <1>1 DEF Pendientes
<1>3. /\ DOMAIN bloqueos' = DOMAIN bloqueos
      /\ \A c \in DOMAIN bloqueos : c # b => bloqueos'[c] = bloqueos[c]
      /\ bloqueos'[b].proc = bloqueos[b].proc /\ bloqueos'[b].salida = bloqueos[b].salida
      /\ bloqueos'[b].suspendido
  BY <1>0, <1>1 DEF Bloqueo
<1>4. \A p : EnIO(p)' = EnIO(p)
  BY <1>3 DEF EnIO, ProcesoDe
<1>5. \A p, t : Mano(t, p)' <=> Mano(t, p)
  BY <1>1 DEF Mano
<1>6. Libres' = Libres + 1
  <2>1. sem'["multiprogramacion"] = sem["multiprogramacion"] + 1
    BY <1>0, <1>1 DEF Post, TypeOK, Semaforos
  <2>. QED
    BY <1>0, <1>1, <2>1, IndTipo DEF Libres
<1>7. ASSUME NEW p \in Procesos, b \notin EnIO(p) PROVE Iguales(p)
  <2>1. \A c \in EnIO(p) : bloqueos'[c] = bloqueos[c]
    BY <1>3, <1>7 DEF EnIO
  <2>2. Suspendida(p)' <=> Suspendida(p)
    BY <1>4, <2>1 DEF Suspendida
  <2>. QED
    BY <1>1, <1>4, <1>5, <2>2, Marcas DEF Iguales
<1>8. CASE bloqueos[b].salida = "pendiente"
  <2>1. PICK q \in Procesos : bloqueos[b].proc = q
    BY <1>0 DEF Bloqueo
  <2>2. EnIO(q) = {b}
    <3>1. b \in EnIO(q)
      BY <1>8, <2>1 DEF EnIO, ProcesoDe
    <3>. QED
      BY <3>1, PendienteUnica
  <2>3. Estado(q) = "BLOCKED"
    <3>1. ~Suspendida(q)
      BY <1>2, <2>2 DEF Suspendida
    <3>. QED
      BY <2>2, <3>1, Estados DEF EstadoDeClase
  <2>4. Estado(q)' = "SUSP_BLOCKED"
    <3>1. EnIO(q)' # {} /\ Suspendida(q)'
      BY <1>3, <1>4, <2>2 DEF Suspendida
    <3>. QED
      BY <3>1, Estados DEF EstadoDeClase
  <2>5. ASSUME NEW p \in Procesos, p # q PROVE Iguales(p)
    <3>1. b \notin EnIO(p)
      BY <2>1, <2>5 DEF EnIO, ProcesoDe
    <3>. QED
      BY <1>7, <3>1
  <2>6. Tardias' = Tardias
    BY <1>3, <1>8 DEF Tardias
  <2>7. Arco(q, "BLOCKED", "SUSP_BLOCKED")
    BY <2>3, <2>4, <2>5, <2>6, ArcoDe
  <2>. QED
    BY <1>6, <2>7 DEF Efecto
<1>9. CASE bloqueos[b].salida = "ready"
  <2>1. \A p : b \notin EnIO(p)
    BY <1>9 DEF EnIO
  <2>2. Quieto
    BY <1>7, <2>1, IgualesEstado DEF Quieto
  <2>3. Tardias' = Tardias \union {b} /\ b \notin Tardias
    BY <1>2, <1>3, <1>9 DEF Tardias
  <2>4. IsFiniteSet(Tardias)
    <3>1. DOMAIN bloqueos = 1..Len(bloqueos) /\ IsFiniteSet(1..Len(bloqueos))
      BY <1>0, FS_Interval DEF TypeOK
    <3>. QED
      BY <3>1, FS_Subset DEF Tardias
  <2>5. Cardinality(Tardias') = Cardinality(Tardias) + 1
    BY <2>3, <2>4, FS_AddElement
  <2>. QED
    BY <1>6, <2>2, <2>5 DEF Efecto
<1>10. bloqueos[b].salida # "susp_ready"
  BY <1>0, <1>2 DEF Pendientes
<1>11. bloqueos[b].salida \in {"pendiente", "ready", "susp_ready"}
  BY <1>0 DEF Bloqueo
<1>. QED
  BY <1>8, <1>9, <1>10, <1>11

LEMMA EfectoSuspensor ==
  ASSUME EInv, EInv', NEW b \in DOMAIN bloqueos, Suspensor(b) PROVE Efecto
<1>0. TypeOK /\ Pendientes
  BY DEF EInv, IInv
<1>1. CASE Confirmar(b) /\ Head(respuestas) = Confirmacion
  BY <1>1, EfectoSuspende
<1>2. CASE ~(Confirmar(b) /\ Head(respuestas) = Confirmacion)
  <2>1. /\ UNCHANGED <<por_llegar, terminados, new, susp_ready, despacho, devueltos, pc, en, sem>>
    BY <1>2 DEF Suspensor, Vencer, Buscar, NotificarSuspension, Confirmar, mundo, colas, hilos, cpu
  <2>2. /\ DOMAIN bloqueos' = DOMAIN bloqueos
        /\ \A c \in DOMAIN bloqueos : /\ bloqueos'[c].proc = bloqueos[c].proc
                                      /\ bloqueos'[c].salida = bloqueos[c].salida
                                      /\ bloqueos'[c].suspendido = bloqueos[c].suspendido
    BY <1>0, <1>2, SuspensorEscribe
  <2>3. \A p : EnIO(p)' = EnIO(p)
    BY <2>2 DEF EnIO, ProcesoDe
  <2>4. \A p : Suspendida(p)' <=> Suspendida(p)
    <3>1. \A p : \A c \in EnIO(p) : bloqueos'[c].suspendido = bloqueos[c].suspendido
      BY <2>2 DEF EnIO
    <3>. QED
      BY <2>3, <3>1 DEF Suspendida
  <2>5. \A p, t : Mano(t, p)' <=> Mano(t, p)
    BY <2>1 DEF Mano
  <2>6. \A p \in Procesos : Iguales(p)
    BY <2>1, <2>3, <2>4, <2>5, Marcas DEF Iguales
  <2>7. Quieto
    BY <2>6, IgualesEstado DEF Quieto
  <2>8. Tardias' = Tardias
    BY <2>2 DEF Tardias
  <2>9. Libres' = Libres
    BY <2>1 DEF Libres
  <2>. QED
    BY <2>7, <2>8, <2>9 DEF Efecto, SinEfecto
<1>. QED
  BY <1>1, <1>2

LEMMA EfectoNada ==
  ASSUME UNCHANGED vars PROVE Efecto
<1>1. UNCHANGED <<por_llegar, terminados, new, susp_ready, despacho, devueltos, pc, en, sem,
                  bloqueos>>
  BY DEF vars, mundo, colas, hilos, cpu
<1>2. \A p, t : Mano(t, p)' <=> Mano(t, p)
  BY <1>1 DEF Mano
<1>3. \A p \in Procesos : Iguales(p)
  BY <1>1, <1>2, Marcas DEF Iguales
<1>4. Quieto /\ Tardias' = Tardias /\ Libres' = Libres
  BY <1>1, <1>3, IgualesEstado DEF Quieto, Tardias, Libres
<1>. QED
  BY <1>4 DEF Efecto, SinEfecto

\* Every step has one of the effects.
LEMMA EfectoPaso == EInv /\ EInv' /\ [Next]_vars => Efecto
<1> SUFFICES ASSUME EInv, EInv', [Next]_vars PROVE Efecto
  OBVIOUS
<1>0. APasar = {"ltp", "io", "des", "disp"}
  BY DEF APasar
<1>1. CASE \E p \in Procesos : AtenderConsola(p)
  BY <1>1, EfectoConsola
<1>2. CASE Planificador
  BY <1>2, EfectoPlanificador, EfectoEnviar DEF Planificador
<1>3. ASSUME NEW t \in APasar, PasarAReady(t) PROVE Efecto
  BY <1>3, EfectoEncolar, EfectoPasar DEF PasarAReady
<1>4. CASE LargoPlazo
  BY <1>0, <1>3, <1>4, EfectoEsperas, EfectoGrado, EfectoAdmitir DEF LargoPlazo
<1>5. CASE Dispositivo
  BY <1>0, <1>3, <1>5, EfectoEsperas, EfectoSalirAReady, EfectoSalirASusp, EfectoPasar
     DEF Dispositivo
<1>6. CASE Desuspendidor
  BY <1>0, <1>3, <1>6, EfectoEsperas, EfectoGrado, EfectoDesuspender, EfectoPasar
     DEF Desuspendidor
<1>7. CASE Escucha
  BY <1>0, <1>3, <1>7, EfectoBloqueo, EfectoInterrumpido, EfectoExit, EfectoEsperas DEF Escucha
<1>8. CASE \E b \in DOMAIN bloqueos : Suspensor(b)
  BY <1>8, EfectoSuspensor
<1>9. CASE Cpu
  BY <1>9, EfectoDevolver DEF Cpu, CpuBloqueo, CpuExit, CpuInterrumpe
<1>10. CASE UNCHANGED vars
  BY <1>10, EfectoNada
<1>. QED
  BY <1>1, <1>2, <1>4, <1>5, <1>6, <1>7, <1>8, <1>9, <1>10 DEF Next, Paso, Reposo

-----------------------------------------------------------------------------
(* The degree of multiprogramming, to the last place.                      *)

Residentes == {"READY", "EXEC", "BLOCKED"}

Cuadra == Libres + Cardinality(EnLaMemoria) = GradoMultiprogramacion + Cardinality(Tardias)

LEMMA MemoriaEs == CV!EnMemoria = EnLaMemoria /\ CVSinGrado!EnMemoria = EnLaMemoria
  BY DEF CV!EnMemoria, CVSinGrado!EnMemoria, EstadoDeTodos, EnLaMemoria

LEMMA MemoriaFinita == IsFiniteSet(EnLaMemoria) /\ Cardinality(EnLaMemoria) \in Nat
<1>1. IsFiniteSet(EnLaMemoria)
  BY ConstantesOK, FS_Subset DEF EnLaMemoria
<1>. QED
  BY <1>1, FS_CardinalityType

LEMMA TardiasFinitas == ASSUME TypeOK PROVE Cardinality(Tardias) \in Nat
<1>1. DOMAIN bloqueos = 1..Len(bloqueos) /\ IsFiniteSet(1..Len(bloqueos))
  BY FS_Interval DEF TypeOK
<1>2. IsFiniteSet(Tardias)
  BY <1>1, FS_Subset DEF Tardias
<1>. QED
  BY <1>2, FS_CardinalityType

\* What a change of state does to the memory.
LEMMA ArcoMemoria ==
  ASSUME NEW q \in Procesos, NEW d, NEW h, Arco(q, d, h)
  PROVE  Cardinality(EnLaMemoria') = Cardinality(EnLaMemoria) - Ind(d \in Residentes)
                                       + Ind(h \in Residentes)
<1>1. EnLaMemoria' = {p \in Procesos : Estado(p)' \in {"READY", "EXEC", "BLOCKED"}}
  BY DEF EnLaMemoria
<1>2. EnLaMemoria \ {q} = EnLaMemoria' \ {q}
  BY <1>1 DEF EnLaMemoria, Arco
<1>3. (q \in EnLaMemoria <=> d \in Residentes) /\ (q \in EnLaMemoria' <=> h \in Residentes)
  BY <1>1 DEF EnLaMemoria, Arco, Residentes
<1>4. Cardinality(EnLaMemoria') = Cardinality(EnLaMemoria) - Ind(q \in EnLaMemoria)
                                    + Ind(q \in EnLaMemoria')
  BY <1>2, MemoriaFinita, CambiaUno
<1>5. Ind(q \in EnLaMemoria) = Ind(d \in Residentes) /\ Ind(q \in EnLaMemoria') = Ind(h \in Residentes)
  BY <1>3 DEF Ind
<1>. QED
  BY <1>4, <1>5

LEMMA QuietoMemoria == ASSUME Quieto PROVE EnLaMemoria' = EnLaMemoria
  BY DEF Quieto, EnLaMemoria

LEMMA CuadraPaso == EInv /\ EInv' /\ Cuadra /\ [Next]_vars => Cuadra'
<1> SUFFICES ASSUME EInv, EInv', Cuadra, [Next]_vars PROVE Cuadra'
  OBVIOUS
<1>1. Efecto
  BY EfectoPaso
<1>. DEFINE m  == Cardinality(EnLaMemoria)
            m1 == Cardinality(EnLaMemoria')
            t  == Cardinality(Tardias)
            t1 == Cardinality(Tardias')
            n  == Libres
            n1 == Libres'
<1>2. m \in Nat /\ t \in Nat /\ n \in Nat /\ GradoMultiprogramacion \in Nat
      /\ n + m = GradoMultiprogramacion + t
  BY MemoriaFinita, TardiasFinitas, LibresTipo, ConstantesOK DEF EInv, IInv, Cuadra
<1>3. SUFFICES n1 + m1 = GradoMultiprogramacion + t1
  BY DEF Cuadra
<1>4. CASE SinEfecto
  <2>1. m1 = m /\ t1 = t /\ n1 = n
    BY <1>4, QuietoMemoria DEF SinEfecto
  <2>. HIDE DEF m, m1, t, t1, n, n1
  <2>. QED
    BY <1>2, <2>1
<1>5. CASE Quieto /\ n1 = n + 1 /\ t1 = t + 1
  <2>1. m1 = m
    BY <1>5, QuietoMemoria
  <2>. HIDE DEF m, m1, t, t1, n, n1
  <2>. QED
    BY <1>2, <1>5, <2>1
<1>6. ASSUME NEW q \in Procesos, NEW d, NEW h, Arco(q, d, h),
             n1 = n + Ind(d \in Residentes) - Ind(h \in Residentes)
      PROVE  n1 + m1 = GradoMultiprogramacion + t1
  <2>1. m1 = m - Ind(d \in Residentes) + Ind(h \in Residentes) /\ t1 = t
    BY <1>6, ArcoMemoria DEF Arco
  <2>2. Ind(d \in Residentes) \in {0, 1} /\ Ind(h \in Residentes) \in {0, 1}
    BY IndTipo
  <2>. HIDE DEF m, m1, t, t1, n, n1
  <2>. QED
    BY <1>2, <1>6, <2>1, <2>2
<1>7. /\ Ind("FUERA" \in Residentes) = 0 /\ Ind("NEW" \in Residentes) = 0
      /\ Ind("READY" \in Residentes) = 1 /\ Ind("EXEC" \in Residentes) = 1
      /\ Ind("BLOCKED" \in Residentes) = 1 /\ Ind("SUSP_BLOCKED" \in Residentes) = 0
      /\ Ind("SUSP_READY" \in Residentes) = 0 /\ Ind("EXIT" \in Residentes) = 0
  BY DEF Ind, Residentes
<1>8. CASE \E q \in Procesos :
             /\ n1 = n
             /\ \/ Arco(q, "FUERA", "NEW")     \/ Arco(q, "EXEC", "READY")
                \/ Arco(q, "EXEC", "BLOCKED")  \/ Arco(q, "BLOCKED", "READY")
                \/ Arco(q, "SUSP_BLOCKED", "SUSP_READY")
                \/ Arco(q, "READY", "EXEC")
  <2>1. n = n + 0 - 0 /\ n = n + 1 - 1
    BY <1>2
  <2>. HIDE DEF m, m1, t, t1, n, n1
  <2>. QED
    BY <1>6, <1>7, <1>8, <2>1
<1>9. CASE \E q \in Procesos : /\ n1 = n + 1
                               /\ Arco(q, "BLOCKED", "SUSP_BLOCKED") \/ Arco(q, "EXEC", "EXIT")
  <2>1. n + 1 = n + 1 - 0
    BY <1>2
  <2>. HIDE DEF m, m1, t, t1, n, n1
  <2>. QED
    BY <1>6, <1>7, <1>9, <2>1
<1>10. CASE \E q \in Procesos : /\ n1 = n - 1
                                /\ Arco(q, "NEW", "READY") \/ Arco(q, "SUSP_READY", "READY")
  <2>1. n - 1 = n + 0 - 1
    BY <1>2
  <2>. HIDE DEF m, m1, t, t1, n, n1
  <2>. QED
    BY <1>6, <1>7, <1>10, <2>1
<1>. QED
  BY <1>1, <1>4, <1>5, <1>8, <1>9, <1>10 DEF Efecto

LEMMA CuadraInicio == Init => Cuadra
<1> SUFFICES ASSUME Init PROVE Cuadra
  OBVIOUS
<1>1. \A p \in Procesos : Estado(p) = "FUERA"
  <2>1. por_llegar = Procesos
    BY DEF Init
  <2>. QED
    BY <2>1, EInvInicio, Estados DEF EstadoDeClase
<1>2. EnLaMemoria = {} /\ Tardias = {}
  BY <1>1 DEF EnLaMemoria, Tardias, Init
<1>3. Libres = GradoMultiprogramacion
  BY ConstantesOK DEF Init, Libres, Inicio, Semaforos, Ind
<1>. QED
  BY <1>2, <1>3, FS_EmptySet, ConstantesOK DEF Cuadra

LEMMA CuadraSiempre == Spec => []Cuadra
<1>1. Init => EInv /\ Cuadra
  BY EInvInicio, CuadraInicio
<1>2. EInv /\ Cuadra /\ [Next]_vars => (EInv /\ Cuadra)'
  BY EInvPaso, CuadraPaso
<1>. QED
  BY <1>1, <1>2, PTL DEF Spec

\* Every place of GRADO_MULTIPROGRAMACION is in the semaphore, with a thread
\* that has taken it, or under a process in memory; each suspension that comes
\* after its process has left the device adds one (kernel.c:386-388).
THEOREM GradoCuadra == Spec => []GradoExacto
<1>1. Cuadra /\ EInv => GradoExacto
  <2> SUFFICES ASSUME Cuadra, EInv PROVE GradoExacto
    OBVIOUS
  <2>. DEFINE m == Cardinality(EnLaMemoria)
              s == sem["multiprogramacion"]
              x == Ind(pc["ltp"] \in {"mirar", "encolar"})
              y == Ind(pc["des"] \in {"extraer", "encolar"})
  <2>1. m \in Nat /\ s \in Nat /\ x \in {0, 1} /\ y \in {0, 1}
    BY MemoriaFinita, LibresTipo, IndTipo DEF EInv, IInv
  <2>2. s + x + y + m = GradoMultiprogramacion + Cardinality(Tardias)
    BY DEF Cuadra, Libres
  <2>. HIDE DEF m, s, x, y
  <2>3. s + m + x + y = GradoMultiprogramacion + Cardinality(Tardias)
    BY <2>1, <2>2
  <2>. QED
    BY <2>3, MemoriaEs DEF GradoExacto, m, s, x, y
<1>2. Spec => []EInv
  BY EInvInicio, EInvPaso, PTL DEF Spec
<1>. QED
  BY <1>1, <1>2, CuadraSiempre, PTL

-----------------------------------------------------------------------------
(* Kernel implements CicloDeVida.                                          *)

\* The image of an arc, and of a step that changes no state.
LEMMA ArcoPasa ==
  ASSUME NEW q \in Procesos, NEW d, NEW h, Arco(q, d, h)
  PROVE  EstadoDeTodos[q] = d /\ EstadoDeTodos' = [EstadoDeTodos EXCEPT ![q] = h]
<1>1. EstadoDeTodos' = [p \in Procesos |-> Estado(p)']
  BY DEF EstadoDeTodos
<1>2. [p \in Procesos |-> Estado(p)'] = [EstadoDeTodos EXCEPT ![q] = h]
  BY DEF Arco, EstadoDeTodos
<1>. QED
  BY <1>1, <1>2 DEF Arco, EstadoDeTodos

LEMMA QuietoTodos == ASSUME Quieto PROVE EstadoDeTodos' = EstadoDeTodos
<1>1. EstadoDeTodos' = [p \in Procesos |-> Estado(p)']
  BY DEF EstadoDeTodos
<1>. QED
  BY <1>1 DEF Quieto, EstadoDeTodos

\* Room for one who is not in memory, when there is no degree to keep.
LEMMA SobraLugar ==
  ASSUME NEW q \in Procesos, Estado(q) \notin {"READY", "EXEC", "BLOCKED"}
  PROVE  Cardinality(EnLaMemoria) < Cardinality(Procesos)
<1>1. EnLaMemoria \subseteq Procesos \ {q}
  BY DEF EnLaMemoria
<1>2. /\ IsFiniteSet(Procesos) /\ IsFiniteSet(Procesos \ {q})
      /\ Cardinality(Procesos \ {q}) = Cardinality(Procesos) - 1
      /\ Cardinality(Procesos) \in Nat
  BY ConstantesOK, FS_RemoveElement, FS_CardinalityType
<1>3. Cardinality(EnLaMemoria) <= Cardinality(Procesos \ {q})
  BY <1>1, <1>2, FS_Subset
<1>. QED
  BY <1>2, <1>3, MemoriaFinita

\* What Efecto says, arc by arc.
LEMMA Arcos ==
  ASSUME Efecto
  PROVE  \/ Quieto
         \/ \E q \in Procesos :
              \/ Arco(q, "FUERA", "NEW")     \/ Arco(q, "EXEC", "READY")
              \/ Arco(q, "EXEC", "BLOCKED")  \/ Arco(q, "BLOCKED", "READY")
              \/ Arco(q, "SUSP_BLOCKED", "SUSP_READY")
              \/ Arco(q, "BLOCKED", "SUSP_BLOCKED") \/ Arco(q, "EXEC", "EXIT")
              \/ Arco(q, "READY", "EXEC") /\ \A p \in Procesos : Estado(p) # "EXEC"
              \/ Libres >= 1 /\ (Arco(q, "NEW", "READY") \/ Arco(q, "SUSP_READY", "READY"))
  BY DEF Efecto, SinEfecto

\* The cardinality CicloDeVida speaks of is the one Kernel speaks of.
LEMMA CardinalesDelCiclo ==
  ASSUME NEW S
  PROVE  CV!Cardinality(S) = Cardinality(S) /\ CVSinGrado!Cardinality(S) = Cardinality(S)
  BY DEF CV!Cardinality, CVSinGrado!Cardinality, Cardinality

LEMMA PasoDeArcos == EInv /\ EInv' /\ [Next]_vars => [CVSinGrado!Next]_EstadoDeTodos
<1> SUFFICES ASSUME EInv, EInv', [Next]_vars PROVE [CVSinGrado!Next]_EstadoDeTodos
  OBVIOUS
<1>1. Efecto
  BY EfectoPaso
<1>2. CASE Quieto
  BY <1>2, QuietoTodos
<1>3. ASSUME NEW q \in Procesos, NEW d, NEW h, Arco(q, d, h) PROVE CVSinGrado!Pasar(q, d, h)
  BY <1>3, ArcoPasa DEF CVSinGrado!Pasar
<1>4. ASSUME NEW q \in Procesos,
             \/ Arco(q, "FUERA", "NEW")     \/ Arco(q, "EXEC", "READY")
             \/ Arco(q, "EXEC", "BLOCKED")  \/ Arco(q, "BLOCKED", "READY")
             \/ Arco(q, "SUSP_BLOCKED", "SUSP_READY")
             \/ Arco(q, "BLOCKED", "SUSP_BLOCKED") \/ Arco(q, "EXEC", "EXIT")
      PROVE  CVSinGrado!Next
  BY <1>3, <1>4 DEF CVSinGrado!Next, CVSinGrado!Crear, CVSinGrado!Desalojar,
     CVSinGrado!Bloquear, CVSinGrado!Desbloquear, CVSinGrado!TerminarIO, CVSinGrado!Suspender,
     CVSinGrado!Terminar
<1>5. ASSUME NEW q \in Procesos, Arco(q, "READY", "EXEC"), \A p \in Procesos : Estado(p) # "EXEC"
      PROVE  CVSinGrado!Next
  <2>1. \A p \in Procesos : EstadoDeTodos[p] # "EXEC"
    BY <1>5 DEF EstadoDeTodos
  <2>. QED
    BY <1>3, <1>5, <2>1 DEF CVSinGrado!Next, CVSinGrado!Despachar
<1>6. ASSUME NEW q \in Procesos, Arco(q, "NEW", "READY") \/ Arco(q, "SUSP_READY", "READY")
      PROVE  CVSinGrado!Next
  <2>1. CVSinGrado!HayLugar
    <3>1. Estado(q) \notin {"READY", "EXEC", "BLOCKED"}
      BY <1>6 DEF Arco
    <3>. QED
      BY <3>1, SobraLugar, MemoriaEs, CardinalesDelCiclo DEF CVSinGrado!HayLugar
  <2>. QED
    BY <1>3, <1>6, <2>1 DEF CVSinGrado!Next, CVSinGrado!Admitir, CVSinGrado!Desuspender
<1>. QED
  BY <1>1, <1>2, <1>4, <1>5, <1>6, Arcos

LEMMA PasoConGrado ==
  EInv /\ EInv' /\ Cuadra /\ [Next]_vars => (Tardias = {} => [CV!Next]_EstadoDeTodos)
<1> SUFFICES ASSUME EInv, EInv', Cuadra, [Next]_vars, Tardias = {}
             PROVE  [CV!Next]_EstadoDeTodos
  OBVIOUS
<1>1. Efecto
  BY EfectoPaso
<1>2. CASE Quieto
  BY <1>2, QuietoTodos
<1>3. ASSUME NEW q \in Procesos, NEW d, NEW h, Arco(q, d, h) PROVE CV!Pasar(q, d, h)
  BY <1>3, ArcoPasa DEF CV!Pasar
<1>4. ASSUME NEW q \in Procesos,
             \/ Arco(q, "FUERA", "NEW")     \/ Arco(q, "EXEC", "READY")
             \/ Arco(q, "EXEC", "BLOCKED")  \/ Arco(q, "BLOCKED", "READY")
             \/ Arco(q, "SUSP_BLOCKED", "SUSP_READY")
             \/ Arco(q, "BLOCKED", "SUSP_BLOCKED") \/ Arco(q, "EXEC", "EXIT")
      PROVE  CV!Next
  BY <1>3, <1>4 DEF CV!Next, CV!Crear, CV!Desalojar, CV!Bloquear, CV!Desbloquear,
     CV!TerminarIO, CV!Suspender, CV!Terminar
<1>5. ASSUME NEW q \in Procesos, Arco(q, "READY", "EXEC"), \A p \in Procesos : Estado(p) # "EXEC"
      PROVE  CV!Next
  <2>1. \A p \in Procesos : EstadoDeTodos[p] # "EXEC"
    BY <1>5 DEF EstadoDeTodos
  <2>. QED
    BY <1>3, <1>5, <2>1 DEF CV!Next, CV!Despachar
<1>6. ASSUME NEW q \in Procesos, Libres >= 1,
             Arco(q, "NEW", "READY") \/ Arco(q, "SUSP_READY", "READY")
      PROVE  CV!Next
  <2>1. CV!HayLugar
    <3>. DEFINE m == Cardinality(EnLaMemoria)
    <3>1. Libres \in Nat /\ m \in Nat /\ GradoMultiprogramacion \in Nat
      BY MemoriaFinita, LibresTipo, ConstantesOK DEF EInv, IInv
    <3>2. Libres + m = GradoMultiprogramacion + 0
      BY FS_EmptySet DEF Cuadra
    <3>. HIDE DEF m
    <3>3. m < GradoMultiprogramacion
      BY <1>6, <3>1, <3>2
    <3>. QED
      BY <3>3, MemoriaEs, CardinalesDelCiclo DEF CV!HayLugar, m
  <2>. QED
    BY <1>3, <1>6, <2>1 DEF CV!Next, CV!Admitir, CV!Desuspender
<1>. QED
  BY <1>1, <1>2, <1>4, <1>5, <1>6, Arcos

LEMMA TodosFuera == Init => CV!Init /\ CVSinGrado!Init
<1> SUFFICES ASSUME Init PROVE CV!Init /\ CVSinGrado!Init
  OBVIOUS
<1>1. por_llegar = Procesos
  BY DEF Init
<1>2. \A p \in Procesos : Estado(p) = "FUERA"
  BY <1>1, EInvInicio, Estados DEF EstadoDeClase
<1>. QED
  BY <1>2 DEF CV!Init, CVSinGrado!Init, EstadoDeTodos

\* Whatever the threads do, a process only moves along the arcs of the
\* seven-state diagram, and is dispatched only when nobody is on the CPU.
THEOREM SigueLosArcos == Spec => ImplementaArcos
<1>1. Init => EInv
  BY EInvInicio
<1>2. EInv /\ [Next]_vars => EInv'
  BY EInvPaso
<1>3. Init => CVSinGrado!Init
  BY TodosFuera
<1>4. EInv /\ EInv' /\ [Next]_vars => [CVSinGrado!Next]_EstadoDeTodos
  BY PasoDeArcos
<1>. QED
  BY <1>1, <1>2, <1>3, <1>4, PTL DEF Spec, ImplementaArcos, CVSinGrado!Spec

\* And until the first suspension that comes late, it enters memory only if
\* the degree leaves it a place: the whole of CicloDeVida.
THEOREM CumpleElCiclo == Spec => ImplementaCicloDeVida
<1>1. Init => EInv
  BY EInvInicio
<1>2. EInv /\ [Next]_vars => EInv'
  BY EInvPaso
<1>3. Init => CV!Init
  BY TodosFuera
<1>4. EInv /\ EInv' /\ Cuadra /\ [Next]_vars => [Tardias = {} => [CV!Next]_EstadoDeTodos]_vars
  BY PasoConGrado
<1>. QED
  BY <1>1, <1>2, <1>3, <1>4, CuadraSiempre, PTL DEF Spec, ImplementaCicloDeVida

-----------------------------------------------------------------------------
(* Whose number is whose.  The connection with memory has no mutex: what   *)
(* TablaPropia lacks is that no two answers be on it at once.              *)

\* n is the number of a table that memory, whose tables are s, made for p.
PropioEn(p, n, s) == n # SinTabla => n + 1 \in DOMAIN s /\ s[n + 1] = p

\* The numbers in the structs, in the PCBs that travel and in the answer a
\* thread is about to read are of the process they are kept for.
TablasPropias ==
  /\ \A p \in Procesos : PropioEn(p, tabla[p], tablas)
  /\ \A i \in DOMAIN despacho : PropioEn(despacho[i].proc, despacho[i].tabla, tablas)
  /\ \A i \in DOMAIN devueltos : PropioEn(devueltos[i].proc, devueltos[i].tabla, tablas)
  /\ \A t \in APasar : pc[t] = "recibir_tabla" /\ respuestas # <<>> =>
       PropioEn(en[t], Head(respuestas), tablas)

\* One answer on the connection, whoever it is for.
UnaRespuesta == Len(respuestas) <= 1

\* A table keeps its number and its owner when memory makes another.
LEMMA PropioCrece ==
  ASSUME NEW p, NEW n \in Tablas, NEW s \in Seq(Procesos), NEW e \in Procesos, PropioEn(p, n, s)
  PROVE  PropioEn(p, n, Append(s, e))
<1>1. CASE n = SinTabla
  BY <1>1 DEF PropioEn
<1>2. CASE n # SinTabla
  <2>1. n + 1 \in DOMAIN s /\ s[n + 1] = p
    BY <1>2 DEF PropioEn
  <2>2. n + 1 \in DOMAIN Append(s, e) /\ Append(s, e)[n + 1] = s[n + 1]
    BY <2>1
  <2>3. QED
    BY <2>1, <2>2 DEF PropioEn
<1>3. QED
  BY <1>1, <1>2

\* The table memory makes has the number of those before it.
LEMMA PropioNuevo ==
  ASSUME NEW s \in Seq(Procesos), NEW e \in Procesos
  PROVE  Len(s) \in Nat /\ PropioEn(e, Len(s), Append(s, e))
<1>1. Len(s) \in Nat /\ Len(s) + 1 \in DOMAIN Append(s, e) /\ Append(s, e)[Len(s) + 1] = e
  OBVIOUS
<1>2. QED
  BY <1>1 DEF PropioEn

\* The numbers that are kept or travel are numbers.
LEMMA NumerosTipo ==
  ASSUME TypeOK
  PROVE  /\ \A p \in Procesos : tabla[p] \in Tablas
         /\ \A i \in DOMAIN despacho : despacho[i].proc \in Procesos /\ despacho[i].tabla \in Tablas
         /\ \A i \in DOMAIN devueltos : devueltos[i].proc \in Procesos /\ devueltos[i].tabla \in Tablas
<1>1. tabla \in [Procesos -> Tablas] /\ despacho \in Seq(PCB) /\ devueltos \in Seq(Devuelto)
  BY DEF TypeOK
<1>2. /\ \A i \in DOMAIN despacho : despacho[i] \in PCB
      /\ \A i \in DOMAIN devueltos : devueltos[i] \in Devuelto
  BY <1>1
<1>3. QED
  BY <1>1, <1>2 DEF PCB, Devuelto

\* With no answer on the connection no thread waits for one.
LEMMA NadieEspera ==
  ASSUME IInv, RespuestasExactas, respuestas = <<>>
  PROVE  \A t \in APasar : pc[t] # "recibir_tabla"
<1>1. TypeOK
  BY DEF IInv
<1>2. Cardinality(Lectores) + Cardinality(Confirmando) = 0
  BY RespuestasSon
<1>3. IsFiniteSet(Lectores) /\ Cardinality(Lectores) \in Nat /\ Cardinality(Confirmando) \in Nat
  BY <1>1, EsperanFinitos
<1>4. Cardinality(Lectores) = 0
  BY <1>2, <1>3
<1>5. Lectores = {}
  BY <1>3, <1>4, FS_EmptySet
<1>6. QED
  BY <1>5 DEF Lectores

\* A step of a thread that leaves the numbers alone and does not begin to wait.
LEMMA TablasHilo ==
  ASSUME TypeOK, TablasPropias, UNCHANGED <<tabla, despacho, devueltos, respuestas, tablas>>,
         NEW t \in Hilos, NEW a, NEW b, Ir(t, a, b), b # "recibir_tabla",
         \A h \in Hilos : h # t => en'[h] = en[h]
  PROVE  TablasPropias'
<1>1. /\ pc'[t] # "recibir_tabla"
      /\ \A h \in Hilos : h # t => pc'[h] = pc[h]
  BY DEF Ir, TypeOK, Sitios
<1>2. ASSUME NEW h \in APasar, pc'[h] = "recibir_tabla", respuestas # <<>>
      PROVE  PropioEn(en'[h], Head(respuestas), tablas)
  <2>1. h \in Hilos /\ h # t
    BY <1>1, <1>2 DEF Hilos, APasar
  <2>2. pc[h] = "recibir_tabla" /\ en'[h] = en[h]
    BY <1>1, <1>2, <2>1
  <2>3. QED
    BY <1>2, <2>2 DEF TablasPropias
<1>3. QED
  BY <1>2 DEF TablasPropias

\* Nothing moves that has or awaits a number.
LEMMA TablasQuietas ==
  ASSUME TablasPropias, UNCHANGED <<tabla, despacho, devueltos, respuestas, tablas, pc, en>>
  PROVE  TablasPropias'
  BY DEF TablasPropias

\* Taking a process or letting it go is a thread's own affair.
LEMMA TomarSuelta ==
  ASSUME TypeOK, NEW t \in Hilos
  PROVE  /\ \A p : Tomar(t, p) => \A h \in Hilos : h # t => en'[h] = en[h]
         /\ Soltar(t) => \A h \in Hilos : h # t => en'[h] = en[h]
         /\ en' = en => \A h \in Hilos : h # t => en'[h] = en[h]
  BY DEF TypeOK, Tomar, Soltar

\* Memory makes a table for the process, and its number is the only answer.
LEMMA TablasPedir ==
  ASSUME IInv, RespuestasExactas, TablasPropias, UnaRespuesta', NEW t \in APasar, PedirTabla(t)
  PROVE  TablasPropias'
<1>1. /\ TypeOK /\ t \in Hilos /\ respuestas \in Seq(Nat) /\ tablas \in Seq(Procesos)
      /\ pc[t] = "pedir_tabla"
  BY DEF IInv, TypeOK, Hilos, APasar, PedirTabla, Ir
<1>2. en[t] \in Procesos
  BY <1>1 DEF IInv, Punteros, Pasando
<1>3. /\ respuestas' = Append(respuestas, Len(tablas)) /\ tablas' = Append(tablas, en[t])
      /\ UNCHANGED <<tabla, despacho, devueltos, en>> /\ Ir(t, "pedir_tabla", "recibir_tabla")
  BY DEF PedirTabla, pcbs, cpu
<1>4. Len(tablas) \in Nat /\ PropioEn(en[t], Len(tablas), tablas')
  BY <1>1, <1>2, <1>3, PropioNuevo
<1>5. respuestas = <<>> /\ respuestas' # <<>> /\ Head(respuestas') = Len(tablas)
  <2>1. Len(respuestas') = Len(respuestas) + 1 /\ Len(respuestas) \in Nat
    BY <1>1, <1>3, <1>4
  <2>2. Len(respuestas) = 0
    BY <2>1 DEF UnaRespuesta
  <2>3. respuestas = <<>>
    BY <1>1, <2>2
  <2>4. QED
    BY <1>3, <1>4, <2>3
<1>6. \A h \in APasar : pc'[h] = "recibir_tabla" => h = t
  <2>1. \A h \in APasar : pc[h] # "recibir_tabla"
    BY <1>5, NadieEspera
  <2>2. \A h \in APasar : h # t => pc'[h] = pc[h]
    BY <1>1, <1>3 DEF Ir, TypeOK, Sitios, Hilos, APasar
  <2>3. QED
    BY <2>1, <2>2
<1>7. \A p \in Procesos : PropioEn(p, tabla[p], tablas')
  <2>1. TAKE p \in Procesos
  <2>2. tabla[p] \in Tablas /\ PropioEn(p, tabla[p], tablas)
    BY <1>1, NumerosTipo DEF TablasPropias
  <2>3. QED
    BY <1>1, <1>2, <1>3, <2>2, PropioCrece
<1>8. \A i \in DOMAIN despacho : PropioEn(despacho[i].proc, despacho[i].tabla, tablas')
  <2>1. TAKE i \in DOMAIN despacho
  <2>2. despacho[i].tabla \in Tablas /\ PropioEn(despacho[i].proc, despacho[i].tabla, tablas)
    BY <1>1, NumerosTipo DEF TablasPropias
  <2>3. QED
    BY <1>1, <1>2, <1>3, <2>2, PropioCrece
<1>9. \A i \in DOMAIN devueltos : PropioEn(devueltos[i].proc, devueltos[i].tabla, tablas')
  <2>1. TAKE i \in DOMAIN devueltos
  <2>2. devueltos[i].tabla \in Tablas /\ PropioEn(devueltos[i].proc, devueltos[i].tabla, tablas)
    BY <1>1, NumerosTipo DEF TablasPropias
  <2>3. QED
    BY <1>1, <1>2, <1>3, <2>2, PropioCrece
<1>10. QED
  BY <1>3, <1>4, <1>5, <1>6, <1>7, <1>8, <1>9 DEF TablasPropias

LEMMA LongitudCero ==
  ASSUME NEW S, NEW s \in Seq(S)
  PROVE  Len(s) \in Nat /\ (Len(s) = 0 <=> s = <<>>)
  OBVIOUS

\* The connection that has at most one answer is empty once it is read.
LEMMA Leida ==
  ASSUME NEW S, NEW s \in Seq(S), s # <<>>, ~(Len(s) > 1)
  PROVE  Tail(s) = <<>> /\ Head(s) \in S
<1>1. Len(s) = 1
  <2>. DEFINE n == Len(s)
  <2>1. n \in Nat /\ n # 0
    BY LongitudCero
  <2>2. ~(n > 1)
    OBVIOUS
  <2>. HIDE DEF n
  <2>3. n = 1
    BY <2>1, <2>2
  <2>4. QED
    BY <2>3 DEF n
<1>2. Tail(s) \in Seq(S) /\ Len(Tail(s)) = 0 /\ Head(s) \in S
  BY <1>1
<1>3. QED
  BY <1>2

\* The thread reads the number of its own process.
LEMMA TablasRecibir ==
  ASSUME IInv, TablasPropias, UnaRespuesta, NEW t \in APasar, RecibirTabla(t)
  PROVE  TablasPropias'
<1>1. /\ TypeOK /\ respuestas \in Seq(Nat) /\ respuestas # <<>> /\ pc[t] = "recibir_tabla"
      /\ respuestas' = Tail(respuestas)
  BY DEF IInv, TypeOK, RecibirTabla, Ir
<1>2. en[t] \in Procesos
  BY <1>1 DEF IInv, Punteros, Pasando
<1>3. respuestas' = <<>>
  <2>1. Len(respuestas) \in Nat /\ Len(respuestas) <= 1
    BY <1>1 DEF UnaRespuesta
  <2>2. ~(Len(respuestas) > 1)
    BY <2>1
  <2>3. QED
    BY <1>1, <2>2, Leida
<1>4. PropioEn(en[t], Head(respuestas), tablas)
  BY <1>1 DEF TablasPropias
<1>5. \A p \in Procesos : tabla'[p] = tabla[p] \/ (p = en[t] /\ tabla'[p] = Head(respuestas))
  BY <1>1, <1>2 DEF RecibirTabla, TypeOK
<1>6. UNCHANGED <<despacho, devueltos, tablas>>
  BY DEF RecibirTabla, cpu
<1>7. \A p \in Procesos : PropioEn(p, tabla'[p], tablas')
  BY <1>4, <1>5, <1>6 DEF TablasPropias
<1>8. QED
  BY <1>3, <1>6, <1>7 DEF TablasPropias

LEMMA TablasPasar ==
  ASSUME IInv, RespuestasExactas, TablasPropias, UnaRespuesta, UnaRespuesta',
         NEW t \in APasar, PasarAReady(t)
  PROVE  TablasPropias'
<1>1. TypeOK /\ t \in Hilos
  BY DEF IInv, APasar, Hilos
<1>2. CASE Encolar(t)
  <2>1. /\ UNCHANGED <<tabla, despacho, devueltos, respuestas, tablas, en>>
        /\ Ir(t, "encolar", TrasEncolar(t)) /\ TrasEncolar(t) # "recibir_tabla"
    BY <1>2 DEF Encolar, pcbs, cpu, memoria, TrasEncolar, TrasTabla
  <2>2. QED
    BY <1>1, <2>1, TablasHilo
<1>3. CASE PedirTabla(t)
  BY <1>3, TablasPedir
<1>4. CASE RecibirTabla(t)
  BY <1>4, TablasRecibir
<1>5. CASE Interrumpir(t)
  <2>1. UNCHANGED <<tabla, despacho, devueltos, respuestas, tablas, en>>
        /\ Ir(t, "interrumpir", "post")
    BY <1>5 DEF Interrumpir, pcbs, memoria
  <2>2. QED
    BY <1>1, <2>1, TablasHilo
<1>6. CASE PostReady(t)
  <2>1. /\ UNCHANGED <<tabla, despacho, devueltos, respuestas, tablas>>
        /\ Ir(t, "post", TrasPasar(t)) /\ TrasPasar(t) # "recibir_tabla" /\ Soltar(t)
    BY <1>1, <1>6 DEF PostReady, pcbs, cpu, memoria, TrasPasar, Inicio, Hilos
  <2>2. \A h \in Hilos : h # t => en'[h] = en[h]
    BY <1>1, <2>1, TomarSuelta
  <2>3. QED
    BY <1>1, <2>1, <2>2, TablasHilo
<1>7. QED
  BY <1>2, <1>3, <1>4, <1>5, <1>6 DEF PasarAReady

\* A suspender asks when nobody waits for a number, and reads when nobody does.
LEMMA TablasSuspensor ==
  ASSUME IInv, RespuestasExactas, TablasPropias, UnaRespuesta, UnaRespuesta',
         NEW b \in DOMAIN bloqueos, Suspensor(b)
  PROVE  TablasPropias'
<1>1. TypeOK /\ respuestas \in Seq(Nat)
  BY DEF IInv, TypeOK
<1>2. UNCHANGED <<tabla, despacho, devueltos, tablas, pc, en>>
  BY DEF Suspensor, Vencer, Buscar, NotificarSuspension, Confirmar, hilos, pcbs, cpu, memoria
<1>3. CASE UNCHANGED respuestas
  BY <1>2, <1>3, TablasQuietas
<1>4. CASE respuestas' = Append(respuestas, Confirmacion)
  <2>1. Len(respuestas') = Len(respuestas) + 1 /\ Len(respuestas) \in Nat
    BY <1>1, <1>4 DEF Confirmacion
  <2>2. Len(respuestas) = 0
    BY <2>1 DEF UnaRespuesta
  <2>3. respuestas = <<>>
    BY <1>1, <2>2
  <2>4. \A t \in APasar : pc[t] # "recibir_tabla"
    BY <2>3, NadieEspera
  <2>5. QED
    BY <1>2, <2>4 DEF TablasPropias
<1>5. CASE respuestas # <<>> /\ respuestas' = Tail(respuestas)
  <2>1. respuestas' = <<>>
    <3>1. Len(respuestas) \in Nat /\ Len(respuestas) <= 1
      BY <1>1 DEF UnaRespuesta
    <3>2. ~(Len(respuestas) > 1)
      BY <3>1
    <3>3. QED
      BY <1>1, <1>5, <3>2, Leida
  <2>2. QED
    BY <1>2, <2>1 DEF TablasPropias
<1>6. QED
  BY <1>3, <1>4, <1>5 DEF Suspensor, Vencer, Buscar, NotificarSuspension, Confirmar, memoria

\* The PCB that goes to the CPU takes the number of its struct.
LEMMA TablasPlanificador ==
  ASSUME IInv, TablasPropias, Planificador PROVE TablasPropias'
<1>1. TypeOK /\ "stp" \in Hilos /\ UNCHANGED <<tabla, devueltos, respuestas, tablas>>
  BY DEF IInv, Hilos, Planificador, EsperarCpu, EsperarReady, Extraer, Enviar, Marcar, pcbs, cpu,
         memoria
<1>2. CASE EsperarCpu
  BY <1>1, <1>2, TablasHilo DEF EsperarCpu, cpu
<1>3. CASE EsperarReady
  BY <1>1, <1>3, TablasHilo DEF EsperarReady, cpu
<1>4. CASE Extraer
  <2>1. \A h \in Hilos : h # "stp" => en'[h] = en[h]
    BY <1>1, <1>4, TomarSuelta DEF Extraer
  <2>2. UNCHANGED despacho /\ Ir("stp", "extraer", "enviar")
    BY <1>4 DEF Extraer, cpu
  <2>3. QED
    BY <1>1, <2>1, <2>2, TablasHilo
<1>5. CASE Enviar
  <2>. DEFINE p == en["stp"]
              m == [proc |-> p, tabla |-> tabla[p]]
  <2>1. p \in Procesos
    BY <1>5 DEF IInv, Punteros, Enviar, Ir
  <2>2. tabla[p] \in Tablas /\ despacho \in Seq(PCB)
    BY <1>1, <2>1 DEF TypeOK
  <2>3. m \in PCB /\ m.proc = p /\ m.tabla = tabla[p] /\ PropioEn(p, tabla[p], tablas)
    BY <2>1, <2>2 DEF PCB, TablasPropias
  <2>4. despacho' = Append(despacho, m)
    BY <1>5 DEF Enviar
  <2>. HIDE DEF m
  <2>5. \A i \in DOMAIN despacho' : despacho'[i] = m \/ (i \in DOMAIN despacho /\ despacho'[i] = despacho[i])
    BY <2>2, <2>3, <2>4
  <2>6. \A i \in DOMAIN despacho' : PropioEn(despacho'[i].proc, despacho'[i].tabla, tablas)
    BY <2>3, <2>5 DEF TablasPropias
  <2>7. \A h \in Hilos : h # "stp" => en'[h] = en[h]
    BY <1>1, <1>5, TomarSuelta DEF Enviar
  <2>8. \A h \in APasar : pc'[h] = pc[h] /\ en'[h] = en[h]
    BY <1>1, <1>5, <2>7 DEF Enviar, Ir, TypeOK, Sitios, Hilos, APasar
  <2>9. QED
    BY <1>1, <2>6, <2>8 DEF TablasPropias
<1>6. CASE Marcar
  BY <1>1, <1>6, TablasHilo DEF Marcar, cpu
<1>7. QED
  BY <1>2, <1>3, <1>4, <1>5, <1>6 DEF Planificador

LEMMA TablasLargoPlazo ==
  ASSUME IInv, RespuestasExactas, TablasPropias, UnaRespuesta, UnaRespuesta', LargoPlazo
  PROVE  TablasPropias'
<1>1. TypeOK /\ "ltp" \in Hilos /\ "ltp" \in APasar
  BY DEF IInv, Hilos, APasar
<1>2. CASE PasarAReady("ltp")
  BY <1>1, <1>2, TablasPasar
<1>3. CASE EsperarNew
  BY <1>1, <1>3, TablasHilo DEF EsperarNew, pcbs, cpu, memoria
<1>4. CASE EsperarGrado
  BY <1>1, <1>4, TablasHilo DEF EsperarGrado, pcbs, cpu, memoria
<1>5. CASE AdmitirNuevo
  <2>1. \A h \in Hilos : h # "ltp" => en'[h] = en[h]
    BY <1>1, <1>5, TomarSuelta DEF AdmitirNuevo
  <2>2. QED
    BY <1>1, <1>5, <2>1, TablasHilo DEF AdmitirNuevo, pcbs, cpu, memoria
<1>6. CASE CederLugar
  BY <1>1, <1>6, TablasHilo DEF CederLugar, pcbs, cpu, memoria
<1>7. QED
  BY <1>2, <1>3, <1>4, <1>5, <1>6 DEF LargoPlazo

LEMMA TablasOtraVez ==
  ASSUME TypeOK, TablasPropias, NEW t \in {"io", "des"}, InterrumpirOtraVez(t)
  PROVE  TablasPropias'
<1>1. /\ Ir(t, "interrumpir2", Inicio[t]) /\ t \in Hilos /\ Inicio[t] # "recibir_tabla"
      /\ UNCHANGED <<tabla, despacho, devueltos, respuestas, tablas, en>>
  BY DEF InterrumpirOtraVez, memoria, pcbs, Hilos, Inicio
<1>2. QED
  BY <1>1, TablasHilo

LEMMA TablasDispositivo ==
  ASSUME IInv, RespuestasExactas, TablasPropias, UnaRespuesta, UnaRespuesta', Dispositivo
  PROVE  TablasPropias'
<1>1. TypeOK /\ "io" \in Hilos /\ "io" \in APasar
  BY DEF IInv, Hilos, APasar
<1>2. CASE IniciarIO
  BY <1>1, <1>2, TablasHilo DEF IniciarIO, pcbs, cpu, memoria
<1>3. CASE TerminarIO
  BY <1>1, <1>3, TablasHilo DEF TerminarIO, pcbs, cpu, memoria
<1>4. CASE SalirAReady
  <2>1. \A h \in Hilos : h # "io" => en'[h] = en[h]
    BY <1>1, <1>4, TomarSuelta DEF SalirAReady
  <2>2. QED
    BY <1>1, <1>4, <2>1, TablasHilo DEF SalirAReady, pcbs, cpu, memoria
<1>5. CASE SalirASuspReady
  BY <1>1, <1>5, TablasHilo DEF SalirASuspReady, pcbs, cpu, memoria
<1>6. CASE PasarAReady("io")
  BY <1>1, <1>6, TablasPasar
<1>7. CASE InterrumpirOtraVez("io")
  BY <1>1, <1>7, TablasOtraVez
<1>8. QED
  BY <1>2, <1>3, <1>4, <1>5, <1>6, <1>7 DEF Dispositivo

LEMMA TablasDesuspendidor ==
  ASSUME IInv, RespuestasExactas, TablasPropias, UnaRespuesta, UnaRespuesta', Desuspendidor
  PROVE  TablasPropias'
<1>1. TypeOK /\ "des" \in Hilos /\ "des" \in APasar
  BY DEF IInv, Hilos, APasar
<1>2. CASE EsperarSuspReady
  BY <1>1, <1>2, TablasHilo DEF EsperarSuspReady, pcbs, cpu, memoria
<1>3. CASE EsperarLugar
  BY <1>1, <1>3, TablasHilo DEF EsperarLugar, pcbs, cpu, memoria
<1>4. CASE Desuspender
  <2>1. \A h \in Hilos : h # "des" => en'[h] = en[h]
    BY <1>1, <1>4, TomarSuelta DEF Desuspender
  <2>2. QED
    BY <1>1, <1>4, <2>1, TablasHilo DEF Desuspender, pcbs, cpu, memoria
<1>5. CASE PasarAReady("des")
  BY <1>1, <1>5, TablasPasar
<1>6. CASE InterrumpirOtraVez("des")
  BY <1>1, <1>6, TablasOtraVez
<1>7. QED
  BY <1>2, <1>3, <1>4, <1>5, <1>6 DEF Desuspendidor

\* The struct made of what the CPU returns has the number that travelled.
LEMMA TablasDevuelto ==
  ASSUME TypeOK, TablasPropias, NEW op, Recibir(op), UNCHANGED tablas
  PROVE  /\ \A p \in Procesos : PropioEn(p, tabla'[p], tablas')
         /\ \A i \in DOMAIN devueltos' : PropioEn(devueltos'[i].proc, devueltos'[i].tabla, tablas')
<1>1. devueltos \in Seq(Devuelto) /\ devueltos # <<>> /\ devueltos' = Tail(devueltos)
  BY DEF TypeOK, Recibir
<1>2. /\ 1 \in DOMAIN devueltos /\ Head(devueltos) = devueltos[1]
      /\ \A i \in DOMAIN devueltos' : i + 1 \in DOMAIN devueltos /\ devueltos'[i] = devueltos[i + 1]
  BY <1>1
<1>3. \A p \in Procesos : tabla'[p] = tabla[p]
                          \/ (p = Head(devueltos).proc /\ tabla'[p] = Head(devueltos).tabla)
  BY DEF Recibir, TypeOK
<1>4. PropioEn(Head(devueltos).proc, Head(devueltos).tabla, tablas)
  BY <1>2 DEF TablasPropias
<1>5. \A p \in Procesos : PropioEn(p, tabla'[p], tablas')
  BY <1>3, <1>4 DEF TablasPropias
<1>6. \A i \in DOMAIN devueltos' : PropioEn(devueltos'[i].proc, devueltos'[i].tabla, tablas')
  BY <1>2 DEF TablasPropias
<1>7. QED
  BY <1>5, <1>6

\* The three branches of the listener.
LEMMA TablasRama ==
  ASSUME TypeOK, TablasPropias, NEW op, Recibir(op), UNCHANGED <<despacho, respuestas, tablas>>,
         NEW a, NEW b, Ir("disp", a, b), b # "recibir_tabla",
         \A h \in Hilos : h # "disp" => en'[h] = en[h]
  PROVE  TablasPropias'
<1>1. /\ \A p \in Procesos : PropioEn(p, tabla'[p], tablas')
      /\ \A i \in DOMAIN devueltos' : PropioEn(devueltos'[i].proc, devueltos'[i].tabla, tablas')
  BY TablasDevuelto
<1>2. \A h \in APasar : pc'[h] = "recibir_tabla" => pc[h] = "recibir_tabla" /\ en'[h] = en[h]
  BY DEF Ir, TypeOK, Sitios, Hilos, APasar
<1>3. QED
  BY <1>1, <1>2 DEF TablasPropias

LEMMA TablasEscucha ==
  ASSUME IInv, RespuestasExactas, TablasPropias, UnaRespuesta, UnaRespuesta', Escucha
  PROVE  TablasPropias'
<1>1. TypeOK /\ "disp" \in Hilos /\ "disp" \in APasar
  BY DEF IInv, Hilos, APasar
<1>2. CASE RecibirBloqueo
  <2>1. /\ Recibir("BLOQUEO_IO") /\ Ir("disp", "escuchar", "liberar")
        /\ UNCHANGED <<despacho, respuestas, tablas, en>>
    BY <1>2 DEF RecibirBloqueo, memoria
  <2>2. QED
    BY <1>1, <2>1, TablasRama
<1>3. CASE RecibirInterrumpido
  <2>1. /\ Recibir("INTERRUPCION") /\ Ir("disp", "escuchar", "encolar")
        /\ UNCHANGED <<despacho, respuestas, tablas>> /\ Tomar("disp", Head(devueltos).proc)
    BY <1>3 DEF RecibirInterrumpido, memoria
  <2>2. \A h \in Hilos : h # "disp" => en'[h] = en[h]
    BY <1>1, <2>1, TomarSuelta
  <2>3. QED
    BY <1>1, <2>1, <2>2, TablasRama
<1>4. CASE RecibirExit
  <2>1. /\ Recibir("EXIT") /\ Ir("disp", "escuchar", "liberar")
        /\ UNCHANGED <<despacho, respuestas, tablas, en>>
    BY <1>4 DEF RecibirExit, memoria
  <2>2. QED
    BY <1>1, <2>1, TablasRama
<1>5. CASE LiberarCpu
  BY <1>1, <1>5, TablasHilo DEF LiberarCpu, pcbs, cpu, memoria
<1>6. CASE PasarAReady("disp")
  BY <1>1, <1>6, TablasPasar
<1>7. QED
  BY <1>2, <1>3, <1>4, <1>5, <1>6 DEF Escucha

\* The CPU returns a PCB with the number it came with.
LEMMA TablasCpu ==
  ASSUME IInv, TablasPropias, Cpu PROVE TablasPropias'
<1>1. TypeOK /\ despacho \in Seq(PCB) /\ devueltos \in Seq(Devuelto)
  BY DEF IInv, TypeOK
<1>2. PICK op \in {"BLOQUEO_IO", "INTERRUPCION", "EXIT"} : Devolver(op)
  BY DEF Cpu, CpuBloqueo, CpuExit, CpuInterrumpe
<1>3. UNCHANGED <<tabla, tablas, respuestas, pc, en>>
  BY <1>2 DEF Devolver, hilos, pcbs, memoria
<1>. DEFINE m == [op |-> op, proc |-> Head(despacho).proc, tabla |-> Head(despacho).tabla]
<1>4. /\ despacho # <<>> /\ despacho' = Tail(despacho) /\ devueltos' = Append(devueltos, m)
      /\ m.proc = Head(despacho).proc /\ m.tabla = Head(despacho).tabla
  BY <1>2 DEF Devolver
<1>5. /\ 1 \in DOMAIN despacho /\ Head(despacho) = despacho[1] /\ Head(despacho) \in PCB
      /\ \A i \in DOMAIN despacho' : i + 1 \in DOMAIN despacho /\ despacho'[i] = despacho[i + 1]
  BY <1>1, <1>4
<1>6. m \in Devuelto
  BY <1>5 DEF PCB, Devuelto
<1>7. PropioEn(m.proc, m.tabla, tablas)
  BY <1>4, <1>5 DEF TablasPropias
<1>. HIDE DEF m
<1>8. \A i \in DOMAIN devueltos' : devueltos'[i] = m
                                   \/ (i \in DOMAIN devueltos /\ devueltos'[i] = devueltos[i])
  BY <1>1, <1>4, <1>6
<1>9. \A i \in DOMAIN devueltos' : PropioEn(devueltos'[i].proc, devueltos'[i].tabla, tablas)
  BY <1>7, <1>8 DEF TablasPropias
<1>10. \A i \in DOMAIN despacho' : PropioEn(despacho'[i].proc, despacho'[i].tabla, tablas)
  BY <1>5 DEF TablasPropias
<1>11. QED
  BY <1>3, <1>9, <1>10 DEF TablasPropias

LEMMA TablasPaso ==
  IInv /\ RespuestasExactas /\ TablasPropias /\ UnaRespuesta /\ UnaRespuesta' /\ [Next]_vars
    => TablasPropias'
<1> SUFFICES ASSUME IInv, RespuestasExactas, TablasPropias, UnaRespuesta, UnaRespuesta', [Next]_vars
             PROVE  TablasPropias'
  OBVIOUS
<1>1. CASE \E p \in Procesos : AtenderConsola(p)
  BY <1>1, TablasQuietas DEF AtenderConsola, hilos, pcbs, cpu, memoria
<1>2. CASE Planificador  BY <1>2, TablasPlanificador
<1>3. CASE LargoPlazo    BY <1>3, TablasLargoPlazo
<1>4. CASE Dispositivo   BY <1>4, TablasDispositivo
<1>5. CASE Desuspendidor BY <1>5, TablasDesuspendidor
<1>6. CASE Escucha       BY <1>6, TablasEscucha
<1>7. CASE \E b \in DOMAIN bloqueos : Suspensor(b)
  BY <1>7, TablasSuspensor
<1>8. CASE Cpu           BY <1>8, TablasCpu
<1>9. CASE UNCHANGED vars
  BY <1>9, TablasQuietas DEF vars, hilos, pcbs, cpu, memoria
<1> QED BY <1>1, <1>2, <1>3, <1>4, <1>5, <1>6, <1>7, <1>8, <1>9 DEF Next, Paso, Reposo

\* A process has the table memory made for it as long as no two answers are on
\* conexion_con_memoria at once, which is what a mutex held from the request to
\* its answer would ensure (kernel.c:383-386, 512-513): nothing else in the
\* kernel, neither the PCB that overtakes its number nor the copy the CPU
\* returns, gives a process the table of another.
THEOREM TablaPropiaDeAUna == Spec /\ []UnaRespuesta => []TablaPropia
<1>1. Init => TablasPropias
  BY DEF Init, TablasPropias, PropioEn
<1>2. IInv /\ RespuestasExactas /\ TablasPropias /\ UnaRespuesta /\ UnaRespuesta' /\ [Next]_vars
        => TablasPropias'
  BY TablasPaso
<1>3. TablasPropias => TablaPropia
  BY DEF TablasPropias, TablaPropia, PropioEn
<1> QED BY <1>1, <1>2, <1>3, InvarianteInductivo, RespuestasJustas, PTL DEF Spec
=============================================================================
