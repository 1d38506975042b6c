---------------------------- MODULE ReemplazoProofs ----------------------------
(***************************************************************************)
(* What is proved of Direcciones and Reemplazo, for any sizes of page,     *)
(* table and memory, numbers of frames, addresses and both algorithms.     *)
(***************************************************************************)
EXTENDS Reemplazo, FiniteSetTheorems, SequenceTheorems, TLAPS

-----------------------------------------------------------------------------
(* Arithmetic.                                                             *)

\* What the provers have to be told of products.
LEMMA Producto ==
  ASSUME NEW a \in Nat, NEW b \in Nat PROVE a * b \in Nat
  OBVIOUS

LEMMA ProductoCrece ==
  ASSUME NEW a \in Int, NEW b \in Int, NEW c \in Nat, a <= b PROVE a * c <= b * c
  OBVIOUS

\* Quotient and rest.
LEMMA Cociente ==
  ASSUME NEW a \in Nat, NEW b \in Nat \ {0}
  PROVE  /\ a \div b \in Nat /\ a % b \in 0..(b - 1)
         /\ a = (a \div b) * b + (a % b)
  OBVIOUS

\* A quotient is below n if the dividend is below n divisors.
LEMMA CocienteMenor ==
  ASSUME NEW a \in Nat, NEW b \in Nat \ {0}, NEW n \in Nat, a < n * b
  PROVE  a \div b < n
<1>. DEFINE q == a \div b
<1>1. q \in Nat /\ q * b <= a /\ q * b \in Int /\ n * b \in Int
  BY Cociente
<1>. HIDE DEF q
<1>2. ASSUME n <= q PROVE FALSE
  <2>1. n * b <= q * b
    BY <1>1, <1>2, ProductoCrece
  <2>2. QED
    BY <1>1, <2>1
<1>3. QED
  BY <1>1, <1>2 DEF q

-----------------------------------------------------------------------------
(* The CPU and the tables.                                                 *)

\* A logical address has a page of the process, and an offset inside it.
LEMMA PaginaDeLaDireccion ==
  ASSUME NEW d \in Direcciones
  PROVE  /\ NumeroDePagina(d) \in Paginas
         /\ Desplazamiento(d) \in 0..(TamanioPagina - 1)
         /\ Desplazamiento(d) = d % TamanioPagina
<1>. DEFINE n == EntradasPorTabla * EntradasPorTabla
            q == d \div TamanioPagina
<1>1. EntradasPorTabla \in Nat /\ TamanioPagina \in Nat \ {0} /\ n \in Nat
  BY TamaniosOK, Producto
<1>2. d \in Nat /\ d < n * TamanioPagina
  <2>1. n * TamanioPagina \in Nat
    BY <1>1, Producto
  <2>2. QED
    BY <2>1 DEF Direcciones
<1>. HIDE DEF n
<1>3. q \in Nat /\ d % TamanioPagina \in 0..(TamanioPagina - 1)
      /\ d = q * TamanioPagina + (d % TamanioPagina) /\ q < n
  BY <1>1, <1>2, Cociente, CocienteMenor
<1>4. q * TamanioPagina \in Nat
  BY <1>1, <1>3, Producto
<1>5. q \in 0..(n - 1)
  BY <1>1, <1>3
<1>6. d - q * TamanioPagina = d % TamanioPagina
  <2>. HIDE DEF q
  <2>. DEFINE r == d % TamanioPagina
              k == q * TamanioPagina
  <2>1. d = k + r /\ r \in Nat /\ k \in Nat
    BY <1>1, <1>3, <1>4
  <2>. HIDE DEF r, k
  <2>2. d - k = r
    BY <2>1
  <2>3. QED
    BY <2>2 DEF r, k
<1>7. QED
  BY <1>3, <1>5, <1>6 DEF NumeroDePagina, Desplazamiento, Paginas, n

\* The two entries the CPU sends are entries of a table, and lead back to the
\* page: the numbering of memory (memoria.c:769-813) undoes the split of the CPU.
THEOREM IdaYVuelta ==
  ASSUME NEW x \in Paginas
  PROVE  /\ EntradaPrimerNivel(x) \in Entradas /\ EntradaSegundoNivel(x) \in Entradas
         /\ NumeroEnTabla(EntradaPrimerNivel(x), EntradaSegundoNivel(x)) = x
<1>1. EntradasPorTabla \in Nat \ {0} /\ EntradasPorTabla * EntradasPorTabla \in Nat
  BY TamaniosOK, Producto
<1>2. x \in Nat /\ x < EntradasPorTabla * EntradasPorTabla
  BY <1>1 DEF Paginas
<1>. DEFINE q == x \div EntradasPorTabla
            r == x % EntradasPorTabla
<1>3. q \in Nat /\ r \in 0..(EntradasPorTabla - 1) /\ x = q * EntradasPorTabla + r
  BY <1>1, <1>2, Cociente
<1>4. q < EntradasPorTabla
  BY <1>1, <1>2, CocienteMenor
<1>. HIDE DEF q, r
<1>5. q \in 0..(EntradasPorTabla - 1)
  BY <1>1, <1>3, <1>4
<1>6. QED
  BY <1>3, <1>5 DEF EntradaPrimerNivel, EntradaSegundoNivel, NumeroEnTabla, Entradas, q, r

\* Pages of a table of second level are pages of the process.
LEMMA NumeroDePaginaEnTabla ==
  ASSUME NEW t \in Entradas, NEW e \in Entradas
  PROVE  NumeroEnTabla(t, e) \in Paginas
<1>. DEFINE n == EntradasPorTabla
<1>1. n \in Nat \ {0} /\ t \in 0..(n - 1) /\ e \in 0..(n - 1)
  BY TamaniosOK DEF Entradas
<1>. HIDE DEF n
<1>2. t * n \in Nat /\ n * n \in Nat /\ t * n <= (n - 1) * n
  BY <1>1, Producto, ProductoCrece
<1>3. (n - 1) * n = n * n - n
  BY <1>1
<1>4. t * n + e \in 0..(n * n - 1)
  BY <1>1, <1>2, <1>3
<1>5. QED
  BY <1>4 DEF NumeroEnTabla, Paginas, n

-----------------------------------------------------------------------------
(* Frames and bytes.                                                       *)

\* Every frame of the bitmap is inside user memory.
THEOREM MarcoEnMemoria ==
  ASSUME NEW m \in Marcos
  PROVE  BytesDelMarco(m) \subseteq 0..(TamanioMemoria - 1)
<1>1. TamanioPagina \in Nat \ {0} /\ TamanioMemoria \in Nat
  BY TamaniosOK
<1>. DEFINE c == CantidadPaginas
            b == BytesDelMapa
<1>2. c \in Nat /\ c * TamanioPagina <= TamanioMemoria
  <2>1. c * TamanioPagina \in Nat
    BY <1>1, Cociente, Producto DEF CantidadPaginas
  <2>2. QED
    BY <1>1, <2>1, Cociente DEF CantidadPaginas
<1>. HIDE DEF c
<1>3. b \in Nat /\ 8 * b <= c
  BY <1>2 DEF BytesDelMapa, c
<1>. HIDE DEF b
<1>4. m \in Nat /\ m + 1 <= c
  BY <1>2, <1>3 DEF Marcos, CantidadMarcos, b
<1>. DEFINE k == m * TamanioPagina
<1>5. k \in Nat /\ (m + 1) * TamanioPagina <= c * TamanioPagina
      /\ (m + 1) * TamanioPagina = k + TamanioPagina
  BY <1>1, <1>2, <1>4, Producto, ProductoCrece
<1>6. c * TamanioPagina \in Nat
  BY <1>1, <1>2, Producto
<1>. DEFINE f == c * TamanioPagina
<1>. HIDE DEF k, f
<1>7. k + TamanioPagina <= TamanioMemoria /\ k \in Nat
  <2>1. k + TamanioPagina <= f /\ f <= TamanioMemoria /\ f \in Nat
    BY <1>2, <1>5, <1>6 DEF f
  <2>2. QED
    BY <1>1, <1>5, <2>1
<1>8. k..(k + TamanioPagina - 1) \subseteq 0..(TamanioMemoria - 1)
  BY <1>1, <1>7
<1>9. QED
  BY <1>8 DEF BytesDelMarco, k

\* Four bytes at an aligned offset are bytes of one frame, if pages hold whole words.
LEMMA PalabraEnMarco ==
  ASSUME TamanioPagina % Palabra = 0,
         NEW m \in Nat, NEW desp \in 0..(TamanioPagina - 1), desp % Palabra = 0
  PROVE  BytesDelAcceso(m, desp) \subseteq BytesDelMarco(m)
<1>. DEFINE k == m * TamanioPagina
<1>1. TamanioPagina \in Nat \ {0} /\ k \in Nat
  BY TamaniosOK, Producto
<1>. HIDE DEF k
<1>2. desp + 4 <= TamanioPagina
  BY <1>1 DEF Palabra
<1>3. (k + desp)..(k + desp + 4 - 1) \subseteq k..(k + TamanioPagina - 1)
  BY <1>1, <1>2
<1>4. QED
  BY <1>3 DEF BytesDelAcceso, BytesDelMarco, DireccionFisica, Palabra, k

\* The offset of an aligned address is aligned, if pages hold whole words.
LEMMA DesplazamientoAlineado ==
  ASSUME TamanioPagina % Palabra = 0, NEW d \in Direcciones, d % Palabra = 0
  PROVE  Desplazamiento(d) % Palabra = 0
<1>. DEFINE w == TamanioPagina \div 4
            q == d \div TamanioPagina
<1>1. TamanioPagina \in Nat \ {0} /\ d \in Nat
  BY TamaniosOK DEF Direcciones
<1>2. w \in Nat /\ TamanioPagina = 4 * w
  BY <1>1 DEF Palabra
<1>3. q \in Nat
  BY <1>1, Cociente
<1>. HIDE DEF w, q
<1>4. q * TamanioPagina = 4 * (q * w) /\ q * w \in Nat
  BY <1>2, <1>3, Producto
<1>5. Desplazamiento(d) = d - q * TamanioPagina /\ Desplazamiento(d) \in Nat
  <2>1. Desplazamiento(d) \in 0..(TamanioPagina - 1)
    BY PaginaDeLaDireccion
  <2>2. QED
    BY <1>1, <2>1 DEF Desplazamiento, NumeroDePagina, q
<1>. DEFINE h == q * w
            o == Desplazamiento(d)
<1>. HIDE DEF h, o
<1>6. o = d - 4 * h /\ o \in Nat /\ h \in Nat /\ d \in Nat /\ d % 4 = 0
  BY <1>1, <1>4, <1>5 DEF h, o, Palabra
<1>7. o % 4 = 0
  BY <1>6
<1>8. QED
  BY <1>7 DEF o, Palabra


-----------------------------------------------------------------------------
(* The inductive invariant.                                                *)

Pagina == NumeroDePagina(acceso.direccion)

\* The process has no more frames than are its due, and each page its own.
Repartidos ==
  /\ Cardinality(presencia) <= marcos_por_proceso
  /\ primer_libre + marcos_por_proceso <= CantidadMarcos
  /\ \A x \in presencia : marco[x] \in Marcos
  /\ \A x, y \in presencia : marco[x] = marco[y] => x = y

\* What the two sides have agreed on while an access is under way.
EnCurso ==
  /\ pc # "libre" => acceso.direccion \in Accedidas
  /\ pc = "buscar" \/ Buscando =>
       acceso.mensaje = SegundoAcceso(EntradaPrimerNivel(Pagina),
                                      EntradaSegundoNivel(Pagina))
  /\ pc = "acceder" => Pagina \in presencia /\ acceso.marco = marco[Pagina]

\* What an algorithm works on.
EnBusqueda ==
  Buscando =>
    /\ Pedida \notin presencia
    /\ Cardinality(presencia) = marcos_por_proceso
    /\ paginas \in SetToSeqs(presencia)
    /\ indice_puntero \in 0..(marcos_por_proceso - 1)

IInv == TypeOK /\ Repartidos /\ EnCurso /\ EnBusqueda /\ PunteroPropio

-----------------------------------------------------------------------------
(* Sets and lists.                                                         *)

\* Some frame is the lowest.
LEMMA Minimo ==
  ASSUME NEW S \in SUBSET Nat, S # {}
  PROVE  Min(S) \in S /\ \A y \in S : Min(S) <= y
<1>. DEFINE R == OpToRel(<, Nat)
<1>1. IsWellFoundedOn(R, Nat)
  BY NatLessThanWellFounded DEF OpToRel
<1>. HIDE DEF R
<1>2. PICK x \in S : \A y \in S : ~(<<y, x>> \in R)
  BY <1>1, WFMin
<1>3. \A y \in S : x <= y
  <2>1. TAKE y \in S
  <2>2. x \in Nat /\ y \in Nat /\ <<y, x>> \notin R
    BY <1>2
  <2>3. ~(y < x)
    BY <2>2 DEF R, OpToRel
  <2>4. QED
    BY <2>2, <2>3
<1>4. QED
  BY <1>3 DEF Min

\* The pages of a process are finitely many.
LEMMA PaginasFinitas ==
  ASSUME NEW S \in SUBSET Paginas
  PROVE  IsFiniteSet(S) /\ Cardinality(S) \in Nat
<1>1. EntradasPorTabla * EntradasPorTabla - 1 \in Int
  BY TamaniosOK, Producto
<1>2. IsFiniteSet(Paginas)
  BY <1>1, FS_Interval DEF Paginas
<1>3. QED
  BY <1>2, FS_Subset, FS_CardinalityType

\* The list an algorithm works on has each page of the set at one place.
LEMMA Lista ==
  ASSUME NEW S, IsFiniteSet(S), NEW s \in SetToSeqs(S)
  PROVE  /\ s \in Seq(S) /\ Len(s) = Cardinality(S) /\ Cardinality(S) \in Nat
         /\ \A k \in 1..Cardinality(S) : s[k] \in S
         /\ \A j, k \in 1..Cardinality(S) : s[j] = s[k] => j = k
         /\ \A x \in S : \E k \in 1..Cardinality(S) : s[k] = x
<1>. DEFINE n == Cardinality(S)
<1>1. n \in Nat
  BY FS_CardinalityType
<1>2. s \in [1..n -> S] /\ \A j, k \in 1..n : j # k => s[j] # s[k]
  BY DEF SetToSeqs
<1>. HIDE DEF n
<1>3. s \in Seq(S) /\ Len(s) = n
  <2>1. s \in Seq(S)
    BY <1>1, <1>2
  <2>2. QED
    BY <1>1, <1>2, <2>1
<1>4. s \in Injection(1..n, S)
  BY <1>2 DEF Injection, IsInjective
<1>5. Cardinality(1..n) = n
  BY <1>1, FS_Interval
<1>6. s \in Surjection(1..n, S)
  BY <1>4, <1>5, FS_Injection DEF n
<1>7. \A x \in S : \E k \in 1..n : s[k] = x
  BY <1>6 DEF Surjection
<1>8. QED
  BY <1>1, <1>2, <1>3, <1>7 DEF n

\* The bitmap has a frame for a process that has not all of its own.
LEMMA HayMarco ==
  ASSUME TypeOK, Repartidos, Cardinality(presencia) < marcos_por_proceso
  PROVE  ProximoMarcoLibre \in Marcos \ MarcosDe(presencia)
<1>. DEFINE T == MarcosDe(presencia)
            F == (Marcos \ T) \ 0..(primer_libre - 1)
            I == primer_libre..(CantidadMarcos - 1)
            f == [x \in presencia |-> marco[x]]
<1>1. presencia \in SUBSET Paginas /\ primer_libre \in Nat /\ marcos_por_proceso \in Nat
  BY ConfiguracionOK DEF TypeOK
<1>2. CantidadMarcos \in Int
  BY TamaniosOK DEF CantidadMarcos, BytesDelMapa, CantidadPaginas
<1>3. IsFiniteSet(presencia) /\ Cardinality(presencia) \in Nat
  BY <1>1, PaginasFinitas
<1>4. f \in Surjection(presencia, T)
  BY DEF Surjection, MarcosDe
<1>5. IsFiniteSet(T) /\ Cardinality(T) <= Cardinality(presencia)
  BY <1>3, <1>4, FS_Surjection
<1>6. Cardinality(T) \in Nat
  BY <1>5, FS_CardinalityType
<1>7. Cardinality(I) >= marcos_por_proceso /\ Cardinality(I) \in Nat /\ IsFiniteSet(I)
  <2>1. primer_libre + marcos_por_proceso <= CantidadMarcos
    BY DEF Repartidos
  <2>2. Cardinality(I) = IF primer_libre > CantidadMarcos - 1 THEN 0
                         ELSE CantidadMarcos - 1 - primer_libre + 1
    BY <1>1, <1>2, FS_Interval
  <2>3. IsFiniteSet(I)
    BY <1>1, <1>2, FS_Interval
  <2>4. QED
    BY <1>1, <1>2, <2>1, <2>2, <2>3
<1>8. ~(I \subseteq T)
  <2>1. I \subseteq T => Cardinality(I) <= Cardinality(T)
    BY <1>5, FS_Subset
  <2>2. QED
    BY <1>1, <1>3, <1>5, <1>6, <1>7, <2>1
<1>9. F # {} /\ F \in SUBSET Nat
  <2>1. PICK m \in I : m \notin T
    BY <1>8
  <2>2. m \in Marcos /\ m \notin 0..(primer_libre - 1)
    BY <1>1, <1>2, <2>1 DEF Marcos
  <2>3. F \in SUBSET Nat
    BY DEF Marcos
  <2>4. QED
    BY <2>1, <2>2, <2>3
<1>10. Min(F) \in F
  BY <1>9, Minimo
<1>11. QED
  BY <1>10 DEF ProximoMarcoLibre

\* What follows from the types and the assumptions, in the form the steps use.
LEMMA Basico ==
  ASSUME TypeOK
  PROVE  /\ marcos_por_proceso \in Nat \ {0}
         /\ presencia \in SUBSET Paginas /\ IsFiniteSet(presencia)
         /\ Cardinality(presencia) \in Nat
<1>1. marcos_por_proceso \in Nat \ {0} /\ presencia \in SUBSET Paginas
  BY ConfiguracionOK DEF TypeOK
<1>2. QED
  BY <1>1, PaginasFinitas

\* Memory puts together the page that the CPU took apart.
LEMMA PideLaPagina ==
  ASSUME TypeOK, EnCurso, pc = "buscar" \/ Buscando
  PROVE  Pedida = Pagina /\ Pagina \in Paginas /\ acceso.direccion \in Accedidas
<1>1. acceso.direccion \in Accedidas
  BY DEF EnCurso, Buscando
<1>2. Pagina \in Paginas
  BY <1>1, ConfiguracionOK, PaginaDeLaDireccion DEF Pagina
<1>3. acceso.mensaje[2] = EntradaPrimerNivel(Pagina)
      /\ acceso.mensaje[3] = EntradaSegundoNivel(Pagina)
  BY DEF EnCurso, SegundoAcceso
<1>4. Pedida = Pagina
  BY <1>2, <1>3, IdaYVuelta DEF Pedida, NumeroDeTabla, NumeroDeEntrada
<1>5. QED
  BY <1>1, <1>2, <1>4

\* The page looked at and the next one are pages of the process, each with a
\* frame.
LEMMA Mirada ==
  ASSUME IInv, Buscando
  PROVE  /\ EnMira \in presencia /\ marco[EnMira] \in Marcos
         /\ Siguiente(indice_puntero) \in 0..(marcos_por_proceso - 1)
         /\ paginas[Siguiente(indice_puntero) + 1] \in presencia
<1>. DEFINE n == marcos_por_proceso
            k == indice_puntero
<1>1. n \in Nat \ {0} /\ IsFiniteSet(presencia)
  BY Basico DEF IInv
<1>2. Cardinality(presencia) = n /\ paginas \in SetToSeqs(presencia) /\ k \in 0..(n - 1)
  BY DEF IInv, EnBusqueda
<1>3. \A j \in 1..n : paginas[j] \in presencia
  BY <1>1, <1>2, Lista
<1>4. Siguiente(k) \in 0..(n - 1)
  BY <1>1, <1>2 DEF Siguiente
<1>5. k + 1 \in 1..n /\ Siguiente(k) + 1 \in 1..n
  BY <1>1, <1>2, <1>4
<1>6. QED
  BY <1>2, <1>3, <1>4, <1>5 DEF EnMira, IInv, Repartidos

-----------------------------------------------------------------------------
(* The initial states, and the steps of the CPU.                           *)

LEMMA InvInicial == Init => IInv
<1>. SUFFICES ASSUME Init PROVE IInv
  OBVIOUS
<1>1. marcos_por_proceso \in Nat \ {0} /\ primer_libre \in Nat
  BY ConfiguracionOK DEF Init
<1>2. Cardinality(presencia) = 0
  BY FS_EmptySet DEF Init
<1>3. TypeOK
  BY <1>1 DEF Init, TypeOK, SinAcceso, SinHistoria, Lugares
<1>4. Repartidos /\ PunteroPropio
  BY <1>1, <1>2 DEF Init, Repartidos, PunteroPropio
<1>5. EnCurso /\ EnBusqueda
  BY DEF Init, EnCurso, EnBusqueda, Buscando
<1>6. QED
  BY <1>3, <1>4, <1>5 DEF IInv

\* A step that leaves the tables and the frames alone.
LEMMA TablasQuietas ==
  ASSUME IInv,
         UNCHANGED <<presencia, marco, puntero_marco, marcos_por_proceso, primer_libre>>
  PROVE  Repartidos' /\ PunteroPropio'
BY DEF IInv, Repartidos, PunteroPropio, MarcosDe

LEMMA InvTraducir ==
  ASSUME IInv, NEW d \in Accedidas, Traducir(d)
  PROVE  IInv'
<1>. DEFINE x == NumeroDePagina(d)
            m == PrimerAcceso(Tabla, EntradaPrimerNivel(x))
<1>1. d \in Direcciones /\ x \in Paginas
  BY ConfiguracionOK, PaginaDeLaDireccion
<1>2. /\ EntradaPrimerNivel(x) \in Entradas /\ EntradaSegundoNivel(x) \in Entradas
      /\ EntradaPrimerNivel(x) \in Nat /\ EntradaSegundoNivel(x) \in Nat
  BY <1>1, IdaYVuelta DEF Entradas
<1>3. Repartidos' /\ PunteroPropio'
  BY TablasQuietas DEF Traducir, SinTocarMemoria, config, tablas, bits, mundo
<1>. USE DEF SinTocarMemoria, config, tablas, bits, mundo, bucle, historia
<1>4. CASE x \in presencia /\ pc' = "acceder"
            /\ acceso' = [SinAcceso EXCEPT !.direccion = d, !.marco = marco[x]]
  <2>1. /\ acceso'.direccion = d /\ acceso'.marco = marco[x] /\ acceso'.mensaje = <<>>
        /\ acceso' = [direccion |-> d, mensaje |-> <<>>, marco |-> marco[x]]
    BY <1>4 DEF SinAcceso
  <2>2. marco[x] \in Marcos
    BY <1>4 DEF IInv, Repartidos
  <2>3. TypeOK'
    <3>1. acceso' \in [direccion : Direcciones \union {Ninguna}, mensaje : Seq(Nat),
                       marco : Marcos \union {Ninguna}]
      BY <1>1, <2>1, <2>2
    <3>2. QED
      BY <1>4, <3>1 DEF IInv, TypeOK, Traducir, Lugares
  <2>4. EnCurso' /\ EnBusqueda'
    BY <1>4, <2>1 DEF EnCurso, EnBusqueda, Buscando, Pagina, Traducir
  <2>5. QED
    BY <1>3, <2>3, <2>4 DEF IInv
<1>5. CASE pc' = "buscar"
            /\ acceso' = [direccion |-> d, marco |-> Ninguna,
                          mensaje |-> SegundoAcceso(TablaSegundoNivel(m),
                                                    EntradaSegundoNivel(x))]
  <2>1. TablaSegundoNivel(m) = EntradaPrimerNivel(x)
    BY DEF TablaSegundoNivel, NumeroDeEntrada, PrimerAcceso
  <2>. DEFINE s == SegundoAcceso(EntradaPrimerNivel(x), EntradaSegundoNivel(x))
  <2>2. /\ s \in Seq(Nat)
        /\ NumeroDeTabla(s) = EntradaPrimerNivel(x)
        /\ NumeroDeEntrada(s) = EntradaSegundoNivel(x)
    BY <1>2 DEF SegundoAcceso, OpCpu, NumeroDeTabla, NumeroDeEntrada
  <2>3. acceso' = [direccion |-> d, mensaje |-> s, marco |-> Ninguna]
    BY <1>5, <2>1
  <2>. HIDE DEF s
  <2>4. TypeOK'
    BY <1>1, <1>2, <1>5, <2>2, <2>3 DEF IInv, TypeOK, Traducir, Lugares
  <2>5. EnCurso' /\ EnBusqueda'
    BY <1>5, <2>3 DEF EnCurso, EnBusqueda, Buscando, Pagina, Traducir, s
  <2>6. QED
    BY <1>3, <2>4, <2>5 DEF IInv
<1>6. QED
  BY <1>4, <1>5 DEF Traducir

LEMMA InvTerminarAcceso ==
  ASSUME IInv, Leer \/ Escribir
  PROVE  IInv'
<1>. USE DEF Leer, Escribir, TerminarAcceso, SinTocarMemoria, config, tablas, bits,
             mundo, bucle, historia
<1>1. Repartidos' /\ PunteroPropio'
  BY TablasQuietas
<1>2. modificada' \in SUBSET Paginas
  BY DEF IInv, TypeOK
<1>3. TypeOK'
  <2>1. SinAcceso \in [direccion : Direcciones \union {Ninguna}, mensaje : Seq(Nat),
                       marco : Marcos \union {Ninguna}]
    BY DEF SinAcceso
  <2>2. acceso' = SinAcceso /\ pc' = "libre"
    OBVIOUS
  <2>3. QED
    BY <1>2, <2>1, <2>2 DEF IInv, TypeOK, Lugares
<1>4. EnCurso' /\ EnBusqueda'
  BY DEF EnCurso, EnBusqueda, Buscando
<1>5. QED
  BY <1>1, <1>3, <1>4 DEF IInv

LEMMA InvPasarSegundo ==
  ASSUME IInv, PasarSegundo
  PROVE  IInv'
<1>. USE DEF PasarSegundo, config, tablas, bits, bucle, historia
<1>1. Repartidos' /\ PunteroPropio'
  BY TablasQuietas
<1>2. tiempo_carga' \in [Paginas -> 0..(reloj')] /\ reloj' \in Nat
  <2>1. reloj \in Nat /\ reloj' = reloj + 1 /\ tiempo_carga \in [Paginas -> 0..reloj]
    BY DEF IInv, TypeOK
  <2>2. 0..reloj \subseteq 0..(reloj')
    BY <2>1
  <2>3. QED
    BY <2>1, <2>2
<1>3. TypeOK'
  BY <1>2 DEF IInv, TypeOK
<1>4. EnCurso' /\ EnBusqueda'
  BY DEF EnCurso, EnBusqueda, Buscando
<1>5. QED
  BY <1>1, <1>3, <1>4 DEF IInv

LEMMA InvSuspender ==
  ASSUME IInv, Suspender
  PROVE  IInv'
<1>. USE DEF Suspender, config, bucle, historia
<1>1. Cardinality(presencia') = 0 /\ marcos_por_proceso' \in Nat \ {0}
  BY FS_EmptySet, Basico DEF IInv
<1>2. primer_libre' \in Nat
  BY ConfiguracionOK
<1>3. TypeOK'
  BY <1>1, <1>2 DEF IInv, TypeOK
<1>4. Repartidos' /\ PunteroPropio'
  BY <1>1 DEF Repartidos, PunteroPropio
<1>5. EnCurso' /\ EnBusqueda'
  BY DEF EnCurso, EnBusqueda, Buscando
<1>6. QED
  BY <1>3, <1>4, <1>5 DEF IInv

-----------------------------------------------------------------------------
(* The steps of memory.                                                    *)

\* The answer of memory ends what was agreed on, with the frame of the page.
LEMMA Respuesta ==
  ASSUME IInv, pc = "buscar" \/ Buscando, NEW m \in Marcos, Responder(m),
         Pagina \in presencia', marco'[Pagina] = m
  PROVE  /\ EnCurso' /\ EnBusqueda' /\ pc' = "acceder"
         /\ acceso' \in [direccion : Direcciones \union {Ninguna}, mensaje : Seq(Nat),
                         marco : Marcos \union {Ninguna}]
<1>1. acceso.direccion \in Accedidas
  BY PideLaPagina DEF IInv
<1>2. acceso \in [direccion : Direcciones \union {Ninguna}, mensaje : Seq(Nat),
                  marco : Marcos \union {Ninguna}]
  BY DEF IInv, TypeOK
<1>3. acceso' = [acceso EXCEPT !.marco = m, !.mensaje = <<>>] /\ pc' = "acceder"
  BY DEF Responder
<1>4. acceso'.direccion = acceso.direccion /\ acceso'.marco = m
  BY <1>2, <1>3
<1>5. <<>> \in Seq(Nat)
  OBVIOUS
<1>6. acceso' \in [direccion : Direcciones \union {Ninguna}, mensaje : Seq(Nat),
                   marco : Marcos \union {Ninguna}]
  BY <1>2, <1>3, <1>5
<1>7. Pagina' = Pagina
  BY <1>4 DEF Pagina
<1>8. QED
  BY <1>1, <1>3, <1>4, <1>6, <1>7 DEF EnCurso, EnBusqueda, Buscando

LEMMA InvBuscarPresente ==
  ASSUME IInv, BuscarPresente
  PROVE  IInv'
<1>. USE DEF BuscarPresente, config, mundo, bucle, historia
<1>1. pc = "buscar" /\ Pedida = Pagina /\ Pedida \in presencia
  BY PideLaPagina DEF IInv, Llega
<1>2. marco[Pagina] \in Marcos
  BY <1>1 DEF IInv, Repartidos
<1>3. /\ EnCurso' /\ EnBusqueda' /\ pc' = "acceder"
      /\ acceso' \in [direccion : Direcciones \union {Ninguna}, mensaje : Seq(Nat),
                      marco : Marcos \union {Ninguna}]
  BY <1>1, <1>2, Respuesta
<1>4. Repartidos' /\ PunteroPropio'
  BY TablasQuietas
<1>5. TypeOK'
  BY <1>1, <1>3 DEF IInv, TypeOK, Lugares
<1>6. QED
  BY <1>3, <1>4, <1>5 DEF IInv

LEMMA InvAsignarMarco ==
  ASSUME IInv, AsignarMarco
  PROVE  IInv'
<1>. DEFINE M == ProximoMarcoLibre
            n == marcos_por_proceso
<1>. USE DEF AsignarMarco, config, mundo, bucle, historia
<1>1. pc = "buscar" /\ Pedida = Pagina /\ Pagina \in Paginas
  BY PideLaPagina DEF IInv, Llega
<1>2. M \in Marcos \ MarcosDe(presencia)
  BY HayMarco DEF IInv
<1>3. marco \in [Paginas -> Marcos \union {Ninguna}]
  BY DEF IInv, TypeOK
<1>4. /\ marco' \in [Paginas -> Marcos \union {Ninguna}]
      /\ marco'[Pagina] = M /\ \A x \in Paginas \ {Pagina} : marco'[x] = marco[x]
  BY <1>1, <1>2, <1>3
<1>5. /\ presencia' = presencia \union {Pagina} /\ Pagina \notin presencia
      /\ presencia' \in SUBSET Paginas /\ IsFiniteSet(presencia')
      /\ Cardinality(presencia') = Cardinality(presencia) + 1
  BY <1>1, Basico, FS_AddElement DEF IInv
<1>6. Cardinality(presencia) \in Nat /\ n \in Nat \ {0} /\ presencia \in SUBSET Paginas
  BY Basico DEF IInv
<1>7. /\ EnCurso' /\ EnBusqueda' /\ pc' = "acceder"
      /\ acceso' \in [direccion : Direcciones \union {Ninguna}, mensaje : Seq(Nat),
                      marco : Marcos \union {Ninguna}]
  BY <1>1, <1>2, <1>4, <1>5, Respuesta
<1>8. Repartidos'
  <2>1. Cardinality(presencia') <= n
    BY <1>5, <1>6
  <2>2. \A x \in presencia : marco'[x] = marco[x] /\ marco[x] \in Marcos /\ marco[x] # M
    BY <1>2, <1>4, <1>5, <1>6 DEF IInv, Repartidos, MarcosDe
  <2>3. \A x \in presencia' : marco'[x] \in Marcos
    BY <1>2, <1>4, <1>5, <2>2
  <2>4. \A x, y \in presencia' : marco'[x] = marco'[y] => x = y
    BY <1>4, <1>5, <2>2 DEF IInv, Repartidos
  <2>5. QED
    BY <2>1, <2>3, <2>4 DEF IInv, Repartidos
<1>9. /\ puntero_marco' \in Marcos \union {Ninguna}
      /\ Cardinality(presencia') = n => puntero_marco' \in {marco'[x] : x \in presencia'}
  <2>1. CASE Cardinality(presencia') = n
    <3>1. PICK s \in Ordenadas(presencia', tiempo_carga') : puntero_marco' = marco'[s[1]]
      BY <2>1 DEF PunteroAlAsignar
    <3>2. s[1] \in presencia'
      BY <1>5, <1>6, <2>1, <3>1, Lista DEF Ordenadas
    <3>3. QED
      BY <1>4, <1>5, <3>1, <3>2
  <2>2. CASE Cardinality(presencia') # n
    <3>1. puntero_marco' = puntero_marco
      BY <2>2 DEF PunteroAlAsignar
    <3>2. QED
      BY <2>2, <3>1 DEF IInv, TypeOK
  <2>3. QED
    BY <2>1, <2>2
<1>10. PunteroPropio'
  BY <1>9 DEF PunteroPropio, MarcosDe
<1>11. TypeOK'
  <2>1. tiempo_carga' \in [Paginas -> 0..(reloj')]
    BY <1>1 DEF IInv, TypeOK
  <2>2. usada' \subseteq presencia'
    BY DEF IInv, TypeOK
  <2>3. QED
    BY <1>4, <1>5, <1>7, <1>9, <2>1, <2>2 DEF IInv, TypeOK, Lugares
<1>12. QED
  BY <1>7, <1>8, <1>10, <1>11 DEF IInv

\* The place of the pointer in the list is a place of the list, and the page
\* there has the frame the pointer is at.
LEMMA DondeApunta ==
  ASSUME IInv, Cardinality(presencia) = marcos_por_proceso,
         NEW s \in SetToSeqs(presencia)
  PROVE  /\ IndiceDelPuntero(s) \in 0..(marcos_por_proceso - 1)
         /\ marco[s[IndiceDelPuntero(s) + 1]] = puntero_marco
<1>. DEFINE n == marcos_por_proceso
<1>1. n \in Nat \ {0} /\ IsFiniteSet(presencia)
  BY Basico DEF IInv
<1>2. puntero_marco \in MarcosDe(presencia)
  BY DEF IInv, PunteroPropio
<1>3. PICK x \in presencia : marco[x] = puntero_marco
  BY <1>2 DEF MarcosDe
<1>4. Len(s) = n /\ \E k \in 1..n : s[k] = x
  BY <1>1, Lista
<1>5. PICK k \in 1..n : s[k] = x
  BY <1>4
<1>6. k - 1 \in 0..(Len(s) - 1) /\ marco[s[(k - 1) + 1]] = puntero_marco
  BY <1>1, <1>3, <1>4, <1>5
<1>7. \E j \in 0..(Len(s) - 1) : marco[s[j + 1]] = puntero_marco
  BY <1>6
<1>8. QED
  BY <1>2, <1>4, <1>7 DEF IndiceDelPuntero

LEMMA InvIniciarReemplazo ==
  ASSUME IInv, IniciarReemplazo
  PROVE  IInv'
<1>. USE DEF IniciarReemplazo, config, tablas, bits, mundo
<1>1. pc = "buscar" /\ Pedida = Pagina /\ Pedida \notin presencia
  BY PideLaPagina DEF IInv, Llega
<1>2. Cardinality(presencia) = marcos_por_proceso
  BY Basico DEF IInv, Repartidos
<1>3. PICK s \in Ordenadas(presencia, tiempo_carga) :
        /\ paginas' = s /\ indice_puntero' = IndiceDelPuntero(s)
        /\ antes' = [orden |-> s, desde |-> IndiceDelPuntero(s), usada |-> usada,
                     modificada |-> modificada \intersect presencia]
  OBVIOUS
<1>4. s \in SetToSeqs(presencia) /\ s \in Seq(Paginas)
  <2>1. s \in SetToSeqs(presencia)
    BY DEF Ordenadas
  <2>2. s \in Seq(presencia) /\ presencia \in SUBSET Paginas
    BY <2>1, Lista, Basico DEF IInv
  <2>3. QED
    BY <2>1, <2>2
<1>5. IndiceDelPuntero(s) \in 0..(marcos_por_proceso - 1) /\ IndiceDelPuntero(s) \in Nat
  BY <1>2, <1>4, DondeApunta
<1>6. pc' \in {"clock", "paso_1"}
  OBVIOUS
<1>7. Repartidos' /\ PunteroPropio'
  BY TablasQuietas
<1>8. TypeOK'
  <2>1. antes' \in [orden : Seq(Paginas), desde : Nat,
                    usada : SUBSET Paginas, modificada : SUBSET Paginas]
    BY <1>3, <1>4, <1>5 DEF IInv, TypeOK
  <2>2. QED
    BY <1>3, <1>4, <1>5, <1>6, <2>1 DEF IInv, TypeOK, Lugares
<1>9. EnCurso' /\ EnBusqueda'
  <2>1. Pagina' = Pagina /\ Pedida' = Pedida
    BY DEF Pagina, Pedida
  <2>2. QED
    BY <1>1, <1>2, <1>3, <1>4, <1>5, <1>6, <2>1 DEF IInv, EnCurso, EnBusqueda, Buscando
<1>10. QED
  BY <1>7, <1>8, <1>9 DEF IInv

\* What a replacement does to the pages and the frames: the page that comes
\* has the frame of the one that leaves, the others keep theirs.
LEMMA Cambio ==
  ASSUME IInv, Buscando, Cargar
  PROVE  /\ EnMira \in presencia /\ Pagina \in Paginas \ presencia /\ Pedida = Pagina
         /\ presencia' = (presencia \ {EnMira}) \union {Pagina}
         /\ marco' \in [Paginas -> Marcos \union {Ninguna}]
         /\ marco'[Pagina] = marco[EnMira]
         /\ \A x \in presencia \ {EnMira} : marco'[x] = marco[x]
         /\ Cardinality(presencia') = marcos_por_proceso
         /\ MarcosDe(presencia)' = MarcosDe(presencia)
<1>. DEFINE V == EnMira
<1>1. Pedida = Pagina /\ Pagina \in Paginas /\ Pagina \notin presencia
  BY PideLaPagina DEF IInv, EnBusqueda
<1>2. V \in presencia /\ marco[V] \in Marcos
  BY Mirada
<1>3. /\ presencia \in SUBSET Paginas /\ IsFiniteSet(presencia)
      /\ Cardinality(presencia) \in Nat /\ Cardinality(presencia) = marcos_por_proceso
  BY Basico DEF IInv, EnBusqueda
<1>4. /\ presencia' = (presencia \ {V}) \union {Pagina}
      /\ marco' = [marco EXCEPT ![Pagina] = marco[V], ![V] = Ninguna]
  BY <1>1 DEF Cargar
<1>5. V # Pagina /\ marco \in [Paginas -> Marcos \union {Ninguna}]
  BY <1>1, <1>2 DEF IInv, TypeOK
<1>. HIDE DEF V
<1>6. /\ marco' \in [Paginas -> Marcos \union {Ninguna}]
      /\ marco'[Pagina] = marco[V]
      /\ \A x \in presencia \ {V} : marco'[x] = marco[x]
  BY <1>1, <1>2, <1>3, <1>4, <1>5
<1>7. IsFiniteSet(presencia \ {V}) /\ Cardinality(presencia \ {V}) = Cardinality(presencia) - 1
  BY <1>2, <1>3, FS_RemoveElement
<1>8. Cardinality(presencia') = Cardinality(presencia)
  <2>1. Cardinality(presencia') = Cardinality(presencia \ {V}) + 1
    BY <1>1, <1>4, <1>7, FS_AddElement
  <2>2. QED
    BY <1>3, <1>7, <2>1
<1>9. {marco'[x] : x \in presencia'} = {marco[x] : x \in presencia}
  BY <1>1, <1>2, <1>4, <1>6
<1>10. QED
  BY <1>1, <1>2, <1>3, <1>4, <1>6, <1>8, <1>9 DEF V, MarcosDe

LEMMA InvCargar ==
  ASSUME IInv, Buscando, Cargar
  PROVE  IInv'
<1>. DEFINE V == EnMira
<1>1. /\ V \in presencia /\ Pagina \in Paginas \ presencia /\ Pedida = Pagina
      /\ presencia' = (presencia \ {V}) \union {Pagina}
      /\ marco' \in [Paginas -> Marcos \union {Ninguna}]
      /\ marco'[Pagina] = marco[V]
      /\ \A x \in presencia \ {V} : marco'[x] = marco[x]
      /\ Cardinality(presencia') = marcos_por_proceso
      /\ MarcosDe(presencia)' = MarcosDe(presencia)
  BY Cambio
<1>2. marco[V] \in Marcos
  BY Mirada
<1>3. UNCHANGED <<algoritmo_reemplazo, marcos_por_proceso, tiempo_carga, reloj,
                  primer_libre, suspensiones>>
  BY DEF Cargar, config, mundo
<1>4. marcos_por_proceso \in Nat \ {0} /\ presencia \in SUBSET Paginas
  BY Basico DEF IInv
<1>5. /\ EnCurso' /\ EnBusqueda' /\ pc' = "acceder"
      /\ acceso' \in [direccion : Direcciones \union {Ninguna}, mensaje : Seq(Nat),
                      marco : Marcos \union {Ninguna}]
  <2>1. Responder(marco[V])
    BY DEF Cargar
  <2>2. Pagina \in presencia'
    BY <1>1
  <2>3. QED
    BY <1>1, <1>2, <2>1, <2>2, Respuesta
<1>6. puntero_marco' \in MarcosDe(presencia) /\ puntero_marco' \in Marcos
  <2>1. paginas[Siguiente(indice_puntero) + 1] \in presencia
    BY Mirada
  <2>2. puntero_marco' = marco[paginas[Siguiente(indice_puntero) + 1]]
    BY DEF Cargar, PunteroTras
  <2>3. QED
    BY <2>1, <2>2 DEF IInv, Repartidos, MarcosDe
<1>. HIDE DEF V
<1>7. PunteroPropio'
  BY <1>1, <1>6 DEF PunteroPropio
<1>8. Repartidos'
  <2>1. \A x \in presencia' : marco'[x] \in Marcos
    BY <1>1, <1>2 DEF IInv, Repartidos
  <2>2. \A x, y \in presencia' : marco'[x] = marco'[y] => x = y
    BY <1>1 DEF IInv, Repartidos
  <2>3. QED
    BY <1>1, <1>3, <1>4, <2>1, <2>2 DEF IInv, Repartidos
<1>9. TypeOK'
  <2>1. presencia' \subseteq Paginas /\ modificada' \subseteq Paginas
    BY <1>1, <1>4 DEF Cargar, IInv, TypeOK
  <2>2. usada' \subseteq presencia'
    BY <1>1 DEF Cargar, IInv, TypeOK, V
  <2>3. ultima' \in Paginas \union {Ninguna}
    BY <1>1 DEF Cargar
  <2>4. /\ paginas' \in Seq(Paginas) /\ indice_puntero' \in Nat /\ i' \in Nat
        /\ miradas' \in Nat
        /\ antes' \in [orden : Seq(Paginas), desde : Nat,
                       usada : SUBSET Paginas, modificada : SUBSET Paginas]
    BY DEF Cargar, SinHistoria
  <2>5. QED
    BY <1>1, <1>3, <1>5, <1>6, <2>1, <2>2, <2>3, <2>4 DEF IInv, TypeOK, Lugares
<1>10. QED
  BY <1>5, <1>7, <1>8, <1>9 DEF IInv

\* A page that stays changes the index and the bits of use only.
LEMMA InvSeguir ==
  ASSUME IInv, Buscando, NEW S \in SUBSET usada, Seguir(S), Buscando', i' \in Nat
  PROVE  IInv'
<1>. USE DEF Seguir, config, mundo
<1>1. Repartidos' /\ PunteroPropio'
  BY TablasQuietas
<1>2. indice_puntero' \in 0..(marcos_por_proceso - 1) /\ indice_puntero' \in Nat
  BY Mirada
<1>3. TypeOK'
  BY <1>2 DEF IInv, TypeOK, Buscando, Lugares
<1>4. EnCurso' /\ EnBusqueda'
  <2>1. Pagina' = Pagina /\ Pedida' = Pedida
    BY DEF Pagina, Pedida
  <2>2. QED
    BY <1>2, <2>1 DEF IInv, EnCurso, EnBusqueda, Buscando
<1>5. QED
  BY <1>1, <1>3, <1>4 DEF IInv

LEMMA InvMirar ==
  ASSUME IInv, MirarClock \/ MirarPaso1 \/ MirarPaso2
  PROVE  IInv'
<1>1. Buscando
  BY DEF Buscando, MirarClock, MirarPaso1, MirarPaso2
<1>2. CASE Cargar
  BY <1>1, <1>2, InvCargar
<1>3. CASE ~Cargar
  <2>1. PICK S \in {usada, usada \ {EnMira}} : Seguir(S)
    BY <1>3 DEF MirarClock, MirarPaso1, MirarPaso2
  <2>2. pc' \in {"clock", "paso_1", "paso_2"}
    BY <1>3 DEF MirarClock, MirarPaso1, MirarPaso2, ContarVuelta
  <2>3. i' \in Nat
    <3>1. i' \in {i, i + 1, 0}
      BY <1>3 DEF MirarClock, MirarPaso1, MirarPaso2, ContarVuelta
    <3>2. QED
      BY <3>1 DEF IInv, TypeOK
  <2>4. QED
    BY <1>1, <2>1, <2>2, <2>3, InvSeguir DEF Buscando
<1>4. QED
  BY <1>2, <1>3

LEMMA InvPaso == IInv /\ [Next]_vars => IInv'
<1>. SUFFICES ASSUME IInv, [Next]_vars PROVE IInv'
  OBVIOUS
<1>1. CASE Cpu
  <2>1. ASSUME NEW d \in Accedidas, Traducir(d) PROVE IInv'
    BY <2>1, InvTraducir
  <2>2. QED
    BY <1>1, <2>1, InvTerminarAcceso DEF Cpu
<1>2. CASE Memoria
  BY <1>2, InvBuscarPresente, InvAsignarMarco, InvIniciarReemplazo, InvMirar,
     InvSuspender DEF Memoria
<1>3. CASE PasarSegundo
  BY <1>3, InvPasarSegundo
<1>4. CASE UNCHANGED vars
  <2>. USE <1>4 DEF vars, config, tablas, bits, mundo, bucle, historia
  <2>1. Repartidos' /\ PunteroPropio'
    BY TablasQuietas
  <2>2. TypeOK'
    BY DEF IInv, TypeOK
  <2>3. EnCurso' /\ EnBusqueda'
    BY DEF IInv, EnCurso, EnBusqueda, Buscando, Pagina, Pedida
  <2>4. QED
    BY <2>1, <2>2, <2>3 DEF IInv
<1>5. QED
  BY <1>1, <1>2, <1>3, <1>4 DEF Next

LEMMA Invariante == Spec => []IInv
BY InvInicial, InvPaso, PTL DEF Spec

-----------------------------------------------------------------------------
(* Types, pointer, and the bytes of an access.                             *)

\* Every variable has its type in every state.
THEOREM TipoCorrectoReemplazo == Spec => []TypeOK
<1>1. IInv => TypeOK
  BY DEF IInv
<1>2. QED
  BY <1>1, Invariante, PTL

\* A process with all its frames has its pointer at one of them, so that
\* encontrar_indice_puntero (memoria.c:316) finds it.
THEOREM PunteroEnSuMarco == Spec => []PunteroPropio
<1>1. IInv => PunteroPropio
  BY DEF IInv
<1>2. QED
  BY <1>1, Invariante, PTL

\* If pages hold whole words, an aligned access touches only bytes of the frame
\* of its page, inside user memory (cpu.c:303-409, memoria.c:124-138, 638-662).
THEOREM AccesosEnSuPagina ==
  ASSUME TamanioPagina % Palabra = 0
  PROVE  Spec => []AccesoEnSuPagina
<1>1. ASSUME IInv, pc = "acceder" PROVE AccesoEnSuPagina
  <2>. DEFINE d == acceso.direccion
              x == d \div TamanioPagina
              b == BytesDelAcceso(acceso.marco, Desplazamiento(d))
  <2>1. d \in Direcciones /\ d % Palabra = 0
    BY <1>1, ConfiguracionOK DEF IInv, EnCurso
  <2>2. x \in presencia /\ acceso.marco = marco[x] /\ marco[x] \in Marcos
    BY <1>1 DEF IInv, EnCurso, Repartidos, Pagina, NumeroDePagina
  <2>3. /\ Desplazamiento(d) \in 0..(TamanioPagina - 1)
        /\ Desplazamiento(d) % Palabra = 0
    BY <2>1, PaginaDeLaDireccion, DesplazamientoAlineado
  <2>4. acceso.marco \in Nat
    BY <2>2 DEF Marcos
  <2>. HIDE DEF x, d
  <2>5. b \subseteq BytesDelMarco(marco[x]) /\ b \subseteq 0..(TamanioMemoria - 1)
    <3>1. b \subseteq BytesDelMarco(acceso.marco)
      BY <2>3, <2>4, PalabraEnMarco
    <3>2. BytesDelMarco(marco[x]) \subseteq 0..(TamanioMemoria - 1)
      BY <2>2, MarcoEnMemoria
    <3>3. QED
      BY <2>2, <3>1, <3>2
  <2>6. \A m \in {PedidoDeLectura, PedidoDeEscritura} :
          MarcoDelAcceso(m) = acceso.marco /\ DespDelAcceso(m) = Desplazamiento(d)
    BY DEF PedidoDeLectura, PedidoDeEscritura, AccesoDeLectura, AccesoDeEscritura,
           MarcoDelAcceso, DespDelAcceso, d
  <2>7. QED
    BY <2>2, <2>5, <2>6 DEF AccesoEnSuPagina, x, d
<1>2. IInv => AccesoEnSuPagina
  BY <1>1 DEF AccesoEnSuPagina
<1>3. QED
  BY <1>2, Invariante, PTL

-----------------------------------------------------------------------------
(* The rounds of the algorithms.                                           *)

\* How far a place of the list is from where the algorithm started.
Lejos(k) ==
  IF antes.desde <= k THEN k - antes.desde ELSE k + marcos_por_proceso - antes.desde

\* The pages at the first m places from there on.
Vistas(m) ==
  {paginas[k + 1] : k \in {j \in 0..(marcos_por_proceso - 1) : Lejos(j) < m}}

\* What the algorithm has kept of what it found.
Partida ==
  Buscando =>
    /\ antes.orden = paginas /\ antes.desde \in 0..(marcos_por_proceso - 1)
    /\ antes.usada \subseteq presencia
    /\ antes.modificada = modificada \intersect presencia
    /\ marco[paginas[antes.desde + 1]] = puntero_marco
    /\ pc = "clock" <=> algoritmo_reemplazo = "CLOCK"

\* CLOCK: the pages seen were all used, and no others have lost the bit.
RondaClock ==
  pc = "clock" =>
    /\ miradas <= marcos_por_proceso
    /\ Lejos(indice_puntero) = (IF miradas = marcos_por_proceso THEN 0 ELSE miradas)
    /\ usada = antes.usada \ Vistas(miradas)
    /\ Vistas(miradas) \subseteq antes.usada

\* The first step of CLOCK-M, the first time or the second.
RondaPaso1 ==
  pc = "paso_1" =>
    /\ Lejos(indice_puntero) = i
    /\ \/ /\ miradas = i /\ usada = antes.usada
          /\ Vistas(i) \subseteq antes.usada \union antes.modificada
       \/ /\ miradas = 2 * marcos_por_proceso + i /\ usada = {}
          /\ presencia \subseteq antes.usada
          /\ Vistas(i) \subseteq antes.modificada

\* The second step of CLOCK-M, the first time or the second.
RondaPaso2 ==
  pc = "paso_2" =>
    /\ Lejos(indice_puntero) = i
    /\ presencia \subseteq antes.usada \union antes.modificada
    /\ \/ /\ miradas = marcos_por_proceso + i /\ usada = antes.usada \ Vistas(i)
          /\ Vistas(i) \subseteq antes.usada
       \/ /\ miradas = 3 * marcos_por_proceso /\ i = 0 /\ usada = {}
          /\ presencia \subseteq antes.usada /\ presencia \subseteq antes.modificada

Rondas == Partida /\ RondaClock /\ RondaPaso1 /\ RondaPaso2

\* Going around the list, one place at a time.
LEMMA Avance ==
  ASSUME IInv, Partida, Buscando
  PROVE  LET n == marcos_por_proceso
             k == indice_puntero
         IN /\ n \in Nat \ {0} /\ k \in 0..(n - 1) /\ Lejos(k) \in 0..(n - 1)
            /\ Lejos(antes.desde) = 0
            /\ Lejos(k) < n - 1 => Lejos(Siguiente(k)) = Lejos(k) + 1
            /\ Lejos(k) = n - 1 => Siguiente(k) = antes.desde
            /\ \A a, b \in 0..(n - 1) : Lejos(a) = Lejos(b) => a = b
            /\ \A a \in 0..(n - 1) : Lejos(a) \in 0..(n - 1)
<1>1. marcos_por_proceso \in Nat \ {0}
  BY Basico DEF IInv
<1>2. indice_puntero \in 0..(marcos_por_proceso - 1) /\ antes.desde \in 0..(marcos_por_proceso - 1)
  BY DEF IInv, EnBusqueda, Partida
<1>3. QED
  BY <1>1, <1>2 DEF Lejos, Siguiente

\* Pages and places of the list.
LEMMA Lugar ==
  ASSUME IInv, Buscando
  PROVE  /\ \A k \in 0..(marcos_por_proceso - 1) : paginas[k + 1] \in presencia
         /\ \A j, k \in 0..(marcos_por_proceso - 1) :
              paginas[j + 1] = paginas[k + 1] => j = k
         /\ \A x \in presencia : \E k \in 0..(marcos_por_proceso - 1) : paginas[k + 1] = x
         /\ Len(paginas) = marcos_por_proceso
<1>. DEFINE n == marcos_por_proceso
<1>1. n \in Nat \ {0} /\ IsFiniteSet(presencia)
  BY Basico DEF IInv
<1>2. Cardinality(presencia) = n /\ paginas \in SetToSeqs(presencia)
  BY DEF IInv, EnBusqueda
<1>3. /\ Len(paginas) = n
      /\ \A k \in 1..n : paginas[k] \in presencia
      /\ \A j, k \in 1..n : paginas[j] = paginas[k] => j = k
      /\ \A x \in presencia : \E k \in 1..n : paginas[k] = x
  BY <1>1, <1>2, Lista
<1>. HIDE DEF n
<1>4. \A k \in 0..(n - 1) : k + 1 \in 1..n
  BY <1>1
<1>5. \A k \in 0..(n - 1) : paginas[k + 1] \in presencia
  BY <1>3, <1>4
<1>6. \A j, k \in 0..(n - 1) : paginas[j + 1] = paginas[k + 1] => j = k
  <2>1. TAKE j, k \in 0..(n - 1)
  <2>2. paginas[j + 1] = paginas[k + 1] => j + 1 = k + 1
    BY <1>3, <1>4
  <2>3. QED
    BY <1>1, <2>2
<1>7. \A x \in presencia : \E k \in 0..(n - 1) : paginas[k + 1] = x
  <2>1. TAKE x \in presencia
  <2>2. PICK k \in 1..n : paginas[k] = x
    BY <1>3
  <2>3. k - 1 \in 0..(n - 1) /\ paginas[(k - 1) + 1] = x
    BY <1>1, <2>2
  <2>4. QED
    BY <2>3
<1>8. QED
  BY <1>3, <1>5, <1>6, <1>7 DEF n

\* With each look the pages seen are one more, and after a round they are all.
LEMMA UnaMas ==
  ASSUME IInv, Partida, Buscando
  PROVE  /\ Vistas(0) = {} /\ Vistas(marcos_por_proceso) = presencia
         /\ EnMira \notin Vistas(Lejos(indice_puntero))
         /\ Vistas(Lejos(indice_puntero) + 1) =
              Vistas(Lejos(indice_puntero)) \union {EnMira}
         /\ \A k \in 0..(marcos_por_proceso - 1), m \in Nat :
              paginas[k + 1] \in Vistas(m) <=> Lejos(k) < m
<1>. DEFINE n == marcos_por_proceso
            v == indice_puntero
<1>1. /\ n \in Nat \ {0} /\ v \in 0..(n - 1)
      /\ \A a, b \in 0..(n - 1) : Lejos(a) = Lejos(b) => a = b
      /\ \A a \in 0..(n - 1) : Lejos(a) \in 0..(n - 1)
  BY Avance
<1>2. /\ \A k \in 0..(n - 1) : paginas[k + 1] \in presencia
      /\ \A j, k \in 0..(n - 1) : paginas[j + 1] = paginas[k + 1] => j = k
      /\ \A x \in presencia : \E k \in 0..(n - 1) : paginas[k + 1] = x
  BY Lugar
<1>3. \A k \in 0..(n - 1), m \in Nat : paginas[k + 1] \in Vistas(m) <=> Lejos(k) < m
  BY <1>2 DEF Vistas
<1>4. \A x, m : x \in Vistas(m) => \E k \in 0..(n - 1) : x = paginas[k + 1]
  BY DEF Vistas
<1>5. EnMira = paginas[v + 1] /\ Lejos(v) \in Nat /\ Lejos(v) + 1 \in Nat
  BY <1>1 DEF EnMira
<1>6. Vistas(0) = {}
  <2>1. \A k \in 0..(n - 1) : paginas[k + 1] \in Vistas(0) <=> Lejos(k) < 0
    BY <1>3
  <2>2. \A k \in 0..(n - 1) : ~(Lejos(k) < 0)
    BY <1>1
  <2>3. QED
    BY <1>4, <2>1, <2>2
<1>. HIDE DEF n, v
<1>7. Vistas(n) = presencia
  <2>1. ASSUME NEW k \in 0..(n - 1) PROVE paginas[k + 1] \in Vistas(n)
    <3>1. n \in Nat /\ Lejos(k) < n
      BY <1>1
    <3>2. QED
      BY <1>3, <3>1
  <2>2. ASSUME NEW x \in presencia PROVE x \in Vistas(n)
    BY <1>2, <2>1
  <2>3. ASSUME NEW x \in Vistas(n) PROVE x \in presencia
    BY <1>2, <1>4
  <2>4. QED
    BY <2>2, <2>3
<1>8. paginas[v + 1] \notin Vistas(Lejos(v))
  BY <1>1, <1>3, <1>5
<1>9. Vistas(Lejos(v) + 1) = Vistas(Lejos(v)) \union {paginas[v + 1]}
  <2>1. \A k \in 0..(n - 1) : Lejos(k) < Lejos(v) + 1 <=> Lejos(k) < Lejos(v) \/ k = v
    BY <1>1
  <2>2. \A k \in 0..(n - 1) : paginas[k + 1] \in Vistas(Lejos(v) + 1) <=>
                              paginas[k + 1] \in Vistas(Lejos(v)) \/ k = v
    BY <1>3, <1>5, <2>1
  <2>3. \A k \in 0..(n - 1) : k = v <=> paginas[k + 1] = paginas[v + 1]
    BY <1>1, <1>2
  <2>4. QED
    BY <1>1, <1>4, <2>2, <2>3
<1>10. QED
  BY <1>3, <1>5, <1>6, <1>7, <1>8, <1>9 DEF n, v

\* A look that leaves the page where it is keeps what was found, and counts.
LEMMA Queda ==
  ASSUME IInv, Partida, Buscando, NEW S, Seguir(S), Buscando',
         pc' = "clock" <=> pc = "clock"
  PROVE  /\ Partida' /\ UNCHANGED <<marcos_por_proceso, presencia, antes>>
         /\ \A k : Lejos(k)' = Lejos(k)
         /\ \A m : Vistas(m)' = Vistas(m)
         /\ miradas' = miradas + 1 /\ usada' = S
         /\ Lejos(indice_puntero) < marcos_por_proceso - 1 =>
              Lejos(indice_puntero)' = Lejos(indice_puntero) + 1
         /\ Lejos(indice_puntero) = marcos_por_proceso - 1 => Lejos(indice_puntero)' = 0
<1>1. /\ UNCHANGED <<algoritmo_reemplazo, marcos_por_proceso, presencia, modificada, marco,
                     puntero_marco, antes, paginas>>
      /\ indice_puntero' = Siguiente(indice_puntero) /\ miradas' = miradas + 1 /\ usada' = S
  BY DEF Seguir, config
<1>2. Partida'
  BY <1>1 DEF Partida
<1>3. \A k : Lejos(k)' = Lejos(k)
  BY <1>1 DEF Lejos
<1>4. \A m : Vistas(m)' = Vistas(m)
  BY <1>1 DEF Vistas, Lejos
<1>5. Lejos(indice_puntero)' = Lejos(Siguiente(indice_puntero))
  BY <1>1 DEF Lejos
<1>6. QED
  BY <1>1, <1>2, <1>3, <1>4, <1>5, Avance

LEMMA RondasInicial == Init => Rondas
BY DEF Init, Rondas, Partida, RondaClock, RondaPaso1, RondaPaso2, Buscando

\* Where no algorithm runs nothing is to be shown.
LEMMA RondasFuera ==
  ASSUME ~Buscando'
  PROVE  Rondas'
BY DEF Rondas, Partida, RondaClock, RondaPaso1, RondaPaso2, Buscando

LEMMA RondasIniciar ==
  ASSUME IInv, IniciarReemplazo
  PROVE  Rondas'
<1>. USE DEF IniciarReemplazo, config, tablas, bits
<1>1. Cardinality(presencia) = marcos_por_proceso
  BY Basico DEF IInv, Repartidos
<1>2. PICK s \in SetToSeqs(presencia) :
        /\ paginas' = s /\ indice_puntero' = IndiceDelPuntero(s)
        /\ antes' = [orden |-> s, desde |-> IndiceDelPuntero(s), usada |-> usada,
                     modificada |-> modificada \intersect presencia]
  BY DEF Ordenadas
<1>3. /\ IndiceDelPuntero(s) \in 0..(marcos_por_proceso - 1)
      /\ marco[s[IndiceDelPuntero(s) + 1]] = puntero_marco
  BY <1>1, <1>2, DondeApunta
<1>4. Partida'
  BY <1>2, <1>3 DEF Partida, IInv, TypeOK
<1>5. Vistas(0)' = {} /\ Lejos(indice_puntero)' = 0
  <2>1. Vistas(0)' = {}
    <3>1. antes'.desde \in 0..(marcos_por_proceso - 1) /\ marcos_por_proceso \in Nat \ {0}
      BY <1>2, <1>3, Basico DEF IInv
    <3>2. \A j \in 0..(marcos_por_proceso - 1) : ~(Lejos(j)' < 0)
      BY <3>1 DEF Lejos
    <3>3. QED
      BY <3>2 DEF Vistas
  <2>2. Lejos(indice_puntero)' = 0
    BY <1>2, <1>3 DEF Lejos
  <2>3. QED
    BY <2>1, <2>2
<1>6. marcos_por_proceso' \in Nat \ {0}
  BY Basico DEF IInv
<1>7. RondaClock' /\ RondaPaso1' /\ RondaPaso2'
  <2>1. Vistas(miradas)' = {} /\ Vistas(i)' = {} /\ miradas' = 0 /\ i' = 0
    BY <1>5 DEF Vistas
  <2>2. usada' = antes'.usada
    BY <1>2
  <2>3. pc' # "paso_2"
    OBVIOUS
  <2>4. QED
    BY <1>5, <1>6, <2>1, <2>2, <2>3 DEF RondaClock, RondaPaso1, RondaPaso2
<1>8. QED
  BY <1>4, <1>7 DEF Rondas

LEMMA RondasClock ==
  ASSUME IInv, Rondas, MirarClock, ~Cargar
  PROVE  Rondas'
<1>. DEFINE n == marcos_por_proceso
            d == Lejos(indice_puntero)
<1>1. /\ Buscando /\ pc = "clock" /\ EnMira \in usada /\ Seguir(usada \ {EnMira})
      /\ pc' = "clock" /\ Buscando'
  BY DEF MirarClock, Buscando
<1>2. /\ n \in Nat \ {0} /\ d \in 0..(n - 1) /\ miradas \in Nat
  BY <1>1, Avance DEF Rondas, IInv, TypeOK
<1>3. /\ miradas <= n /\ d = (IF miradas = n THEN 0 ELSE miradas)
      /\ usada = antes.usada \ Vistas(miradas) /\ Vistas(miradas) \subseteq antes.usada
      /\ antes.usada \subseteq presencia
  BY <1>1 DEF Rondas, RondaClock, Partida
<1>4. Vistas(n) = presencia /\ Vistas(d + 1) = Vistas(d) \union {EnMira}
  BY <1>1, UnaMas DEF Rondas
<1>5. /\ Partida' /\ UNCHANGED <<marcos_por_proceso, antes>>
      /\ \A m : Vistas(m)' = Vistas(m)
      /\ miradas' = miradas + 1 /\ usada' = usada \ {EnMira}
      /\ d < n - 1 => Lejos(indice_puntero)' = d + 1
      /\ d = n - 1 => Lejos(indice_puntero)' = 0
  BY <1>1, Queda DEF Rondas
<1>. HIDE DEF d
<1>6. miradas < n /\ d = miradas
  BY <1>1, <1>2, <1>3, <1>4
<1>7. /\ usada' = antes.usada \ Vistas(miradas + 1)
      /\ Vistas(miradas + 1) \subseteq antes.usada
  BY <1>1, <1>3, <1>4, <1>5, <1>6
<1>8. /\ miradas' <= n
      /\ Lejos(indice_puntero)' = (IF miradas' = n THEN 0 ELSE miradas')
  BY <1>2, <1>5, <1>6
<1>9. Vistas(miradas)' = Vistas(miradas + 1)
  BY <1>5 DEF Vistas, Lejos
<1>10. RondaClock'
  BY <1>5, <1>7, <1>8, <1>9 DEF RondaClock
<1>11. QED
  BY <1>1, <1>5, <1>10 DEF Rondas, RondaPaso1, RondaPaso2

LEMMA RondasMirarPaso1 ==
  ASSUME IInv, Rondas, MirarPaso1, ~Cargar
  PROVE  Rondas'
<1>. DEFINE n == marcos_por_proceso
            d == Lejos(indice_puntero)
<1>1. /\ Buscando /\ pc = "paso_1" /\ (EnMira \in usada \/ EnMira \in modificada)
      /\ Seguir(usada) /\ ContarVuelta("paso_2")
  BY DEF MirarPaso1, Buscando
<1>2. Buscando' /\ pc' # "clock"
  BY <1>1 DEF ContarVuelta, Buscando
<1>3. /\ n \in Nat \ {0} /\ d \in 0..(n - 1) /\ i = d
  BY <1>1, Avance DEF Rondas, RondaPaso1
<1>4. /\ Vistas(n) = presencia /\ Vistas(d + 1) = Vistas(d) \union {EnMira}
      /\ EnMira \in presencia
  BY <1>1, UnaMas, Mirada DEF Rondas
<1>5. /\ Partida' /\ UNCHANGED <<marcos_por_proceso, presencia, antes>>
      /\ \A m : Vistas(m)' = Vistas(m)
      /\ miradas' = miradas + 1 /\ usada' = usada
      /\ d < n - 1 => Lejos(indice_puntero)' = d + 1
      /\ d = n - 1 => Lejos(indice_puntero)' = 0
  BY <1>1, <1>2, Queda DEF Rondas
<1>6. antes.modificada = modificada \intersect presencia
  BY <1>1 DEF Rondas, Partida
<1>. HIDE DEF d
<1>7. \/ /\ miradas = d /\ usada = antes.usada
         /\ Vistas(d + 1) \subseteq antes.usada \union antes.modificada
      \/ /\ miradas = 2 * n + d /\ usada = {} /\ presencia \subseteq antes.usada
         /\ Vistas(d + 1) \subseteq antes.modificada
  BY <1>1, <1>3, <1>4, <1>6 DEF Rondas, RondaPaso1
<1>8. CASE d < n - 1
  <2>1. i' = d + 1 /\ pc' = "paso_1" /\ Lejos(indice_puntero)' = d + 1
    BY <1>1, <1>3, <1>5, <1>8 DEF ContarVuelta
  <2>2. Vistas(i)' = Vistas(d + 1)
    BY <1>5, <2>1 DEF Vistas, Lejos
  <2>3. RondaPaso1'
    <3>1. \/ miradas' = d + 1 /\ miradas = d
          \/ miradas' = 2 * n + (d + 1) /\ miradas = 2 * n + d
      BY <1>3, <1>5, <1>7
    <3>2. miradas = d => ~(miradas = 2 * n + d)
      BY <1>3
    <3>3. QED
      BY <1>5, <1>7, <2>1, <2>2, <3>1, <3>2 DEF RondaPaso1
  <2>4. QED
    BY <1>2, <1>5, <2>1, <2>3 DEF Rondas, RondaClock, RondaPaso2
<1>9. CASE d = n - 1
  <2>1. i' = 0 /\ pc' = "paso_2" /\ Lejos(indice_puntero)' = 0 /\ d + 1 = n
    BY <1>1, <1>3, <1>5, <1>9 DEF ContarVuelta
  <2>2. Vistas(i)' = {}
    <3>1. Vistas(0) = {}
      BY <1>1, UnaMas DEF Rondas
    <3>2. Vistas(i)' = Vistas(0)'
      BY <2>1 DEF Vistas, Lejos
    <3>3. QED
      BY <1>5, <3>1, <3>2
  <2>3. RondaPaso2'
    <3>1. \/ miradas' = n + 0 /\ miradas = d
          \/ miradas' = 3 * n /\ miradas = 2 * n + d
      BY <1>3, <1>5, <1>7, <1>9
    <3>2. miradas = d => ~(miradas = 2 * n + d)
      BY <1>3
    <3>3. Vistas(d + 1) = presencia /\ UNCHANGED <<presencia, antes>>
      BY <1>4, <1>5, <2>1
    <3>4. \/ /\ miradas' = n + 0 /\ usada' = antes.usada
             /\ presencia \subseteq antes.usada \union antes.modificada
          \/ /\ miradas' = 3 * n /\ usada' = {}
             /\ presencia \subseteq antes.usada /\ presencia \subseteq antes.modificada
      BY <1>5, <1>7, <3>1, <3>2, <3>3
    <3>5. /\ presencia' \subseteq antes'.usada \union antes'.modificada
          /\ \/ /\ miradas' = marcos_por_proceso' + i'
                /\ usada' = antes'.usada \ Vistas(i)' /\ Vistas(i)' \subseteq antes'.usada
             \/ /\ miradas' = 3 * marcos_por_proceso' /\ i' = 0 /\ usada' = {}
                /\ presencia' \subseteq antes'.usada
                /\ presencia' \subseteq antes'.modificada
      <4>1. marcos_por_proceso' = marcos_por_proceso
        BY <1>5
      <4>2. QED
        BY <2>1, <2>2, <3>3, <3>4, <4>1
    <3>6. QED
      BY <2>1, <3>5 DEF RondaPaso2
  <2>4. QED
    BY <1>2, <1>5, <2>1, <2>3 DEF Rondas, RondaClock, RondaPaso1
<1>10. QED
  BY <1>3, <1>8, <1>9

LEMMA RondasMirarPaso2 ==
  ASSUME IInv, Rondas, MirarPaso2, ~Cargar
  PROVE  Rondas'
<1>. DEFINE n == marcos_por_proceso
            d == Lejos(indice_puntero)
<1>1. /\ Buscando /\ pc = "paso_2" /\ (EnMira \in usada \/ EnMira \notin modificada)
      /\ Seguir(usada \ {EnMira}) /\ ContarVuelta("paso_1")
  BY DEF MirarPaso2, Buscando
<1>2. Buscando' /\ pc' # "clock"
  BY <1>1 DEF ContarVuelta, Buscando
<1>3. /\ n \in Nat \ {0} /\ d \in 0..(n - 1) /\ i = d
  BY <1>1, Avance DEF Rondas, RondaPaso2
<1>4. /\ Vistas(n) = presencia /\ Vistas(d + 1) = Vistas(d) \union {EnMira}
      /\ EnMira \in presencia
  BY <1>1, UnaMas, Mirada DEF Rondas
<1>5. /\ Partida' /\ UNCHANGED <<marcos_por_proceso, presencia, antes>>
      /\ \A m : Vistas(m)' = Vistas(m)
      /\ miradas' = miradas + 1 /\ usada' = usada \ {EnMira}
      /\ d < n - 1 => Lejos(indice_puntero)' = d + 1
      /\ d = n - 1 => Lejos(indice_puntero)' = 0
  BY <1>1, <1>2, Queda DEF Rondas
<1>6. antes.modificada = modificada \intersect presencia /\ antes.usada \subseteq presencia
  BY <1>1 DEF Rondas, Partida
<1>. HIDE DEF d
<1>7. /\ miradas = n + d /\ usada' = antes.usada \ Vistas(d + 1)
      /\ Vistas(d + 1) \subseteq antes.usada
      /\ presencia \subseteq antes.usada \union antes.modificada
  BY <1>1, <1>3, <1>4, <1>5, <1>6 DEF Rondas, RondaPaso2
<1>8. CASE d < n - 1
  <2>1. i' = d + 1 /\ pc' = "paso_2" /\ Lejos(indice_puntero)' = d + 1
    BY <1>1, <1>3, <1>5, <1>8 DEF ContarVuelta
  <2>2. Vistas(i)' = Vistas(d + 1)
    BY <1>5, <2>1 DEF Vistas, Lejos
  <2>3. miradas' = n + (d + 1)
    BY <1>3, <1>5, <1>7
  <2>4. RondaPaso2'
    BY <1>5, <1>7, <2>1, <2>2, <2>3 DEF RondaPaso2
  <2>5. QED
    BY <1>2, <1>5, <2>1, <2>4 DEF Rondas, RondaClock, RondaPaso1
<1>9. CASE d = n - 1
  <2>1. i' = 0 /\ pc' = "paso_1" /\ Lejos(indice_puntero)' = 0 /\ d + 1 = n
    BY <1>1, <1>3, <1>5, <1>9 DEF ContarVuelta
  <2>2. Vistas(i)' = {}
    <3>1. Vistas(0) = {}
      BY <1>1, UnaMas DEF Rondas
    <3>2. Vistas(i)' = Vistas(0)'
      BY <2>1 DEF Vistas, Lejos
    <3>3. QED
      BY <1>5, <3>1, <3>2
  <2>3. miradas' = 2 * n + 0
    BY <1>3, <1>5, <1>7, <1>9
  <2>4. usada' = {} /\ presencia \subseteq antes.usada
    BY <1>4, <1>6, <1>7, <2>1
  <2>5. RondaPaso1'
    BY <1>5, <2>1, <2>2, <2>3, <2>4 DEF RondaPaso1
  <2>6. QED
    BY <1>2, <1>5, <2>1, <2>5 DEF Rondas, RondaClock, RondaPaso2
<1>10. QED
  BY <1>3, <1>8, <1>9

LEMMA RondasPaso == IInv /\ Rondas /\ [Next]_vars => Rondas'
<1>. SUFFICES ASSUME IInv, Rondas, [Next]_vars PROVE Rondas'
  OBVIOUS
<1>1. CASE Cpu
  <2>1. ~Buscando'
    BY <1>1 DEF Cpu, Traducir, Leer, Escribir, TerminarAcceso, Buscando
  <2>2. QED
    BY <2>1, RondasFuera
<1>2. CASE PasarSegundo \/ Suspender \/ BuscarPresente \/ AsignarMarco \/ Cargar
  <2>1. ~Buscando'
    BY <1>2 DEF PasarSegundo, Suspender, BuscarPresente, AsignarMarco, Cargar, Responder,
                Buscando
  <2>2. QED
    BY <2>1, RondasFuera
<1>3. CASE IniciarReemplazo
  BY <1>3, RondasIniciar
<1>4. CASE (MirarClock \/ MirarPaso1 \/ MirarPaso2) /\ ~Cargar
  BY <1>4, RondasClock, RondasMirarPaso1, RondasMirarPaso2
<1>5. CASE UNCHANGED vars
  BY <1>5 DEF vars, config, tablas, bits, mundo, bucle, historia, Rondas, Partida,
              RondaClock, RondaPaso1, RondaPaso2, Buscando, Vistas, Lejos
<1>6. QED
  BY <1>1, <1>2, <1>3, <1>4, <1>5 DEF Next, Memoria

LEMMA InvarianteConRondas == Spec => [](IInv /\ Rondas)
BY InvInicial, InvPaso, RondasInicial, RondasPaso, PTL DEF Spec

-----------------------------------------------------------------------------
(* The loops end, and their victim is the textbook's.                      *)

\* CLOCK looks at most once around and once more, CLOCK-M at most three times
\* around and once more, and neither outside the list (memoria.c:320, 385, 423).
THEOREM BuclesTerminan == Spec => []MiradasAcotadas
<1>1. ASSUME IInv, Rondas, Buscando
      PROVE  /\ indice_puntero < Len(paginas)
             /\ miradas <= (IF pc = "clock" THEN 1 ELSE 3) * marcos_por_proceso
  <2>. DEFINE n == marcos_por_proceso
              d == Lejos(indice_puntero)
  <2>1. n \in Nat \ {0} /\ d \in 0..(n - 1) /\ indice_puntero \in 0..(n - 1)
    BY <1>1, Avance DEF Rondas
  <2>2. Len(paginas) = n
    BY <1>1, Lugar
  <2>. HIDE DEF d
  <2>3. CASE pc = "clock"
    BY <1>1, <2>1, <2>2, <2>3 DEF Rondas, RondaClock
  <2>4. CASE pc = "paso_1"
    BY <1>1, <2>1, <2>2, <2>4 DEF Rondas, RondaPaso1, d
  <2>5. CASE pc = "paso_2"
    BY <1>1, <2>1, <2>2, <2>5 DEF Rondas, RondaPaso2, d
  <2>6. QED
    BY <1>1, <2>3, <2>4, <2>5 DEF Buscando
<1>2. IInv /\ Rondas => MiradasAcotadas
  BY <1>1 DEF MiradasAcotadas
<1>3. QED
  BY <1>2, InvarianteConRondas, PTL

\* The rest of what is less than two divisors.
LEMMA Resto ==
  ASSUME NEW a \in Nat, NEW n \in Nat \ {0}, a < 2 * n
  PROVE  a % n = (IF a < n THEN a ELSE a - n)
<1>. DEFINE q == a \div n
            r == a % n
<1>1. q \in Nat /\ r \in 0..(n - 1) /\ a = q * n + r
  BY Cociente
<1>2. q < 2
  BY CocienteMenor
<1>. HIDE DEF q, r
<1>3. q = 0 \/ q = 1
  BY <1>1, <1>2
<1>4. r = (IF a < n THEN a ELSE a - n)
  <2>1. CASE q = 0
    BY <1>1, <2>1
  <2>2. CASE q = 1
    BY <1>1, <2>2
  <2>3. QED
    BY <1>3, <2>1, <2>2
<1>5. QED
  BY <1>4 DEF r

\* The distance of the specification is the distance of the place.
LEMMA DistanciaDelLugar ==
  ASSUME IInv, Partida, Buscando, NEW k \in 0..(marcos_por_proceso - 1)
  PROVE  Distancia(paginas[k + 1]) = Lejos(k)
<1>. DEFINE n == marcos_por_proceso
            d == antes.desde
            c == CHOOSE c \in DOMAIN antes.orden : antes.orden[c] = paginas[k + 1]
<1>1. n \in Nat \ {0} /\ d \in 0..(n - 1) /\ antes.orden = paginas
  BY Basico DEF IInv, Partida
<1>2. Len(paginas) = n
      /\ \A a, b \in 0..(n - 1) : paginas[a + 1] = paginas[b + 1] => a = b
  BY Lugar
<1>3. DOMAIN paginas = 1..n
  BY <1>2 DEF IInv, TypeOK
<1>4. k + 1 \in 1..n
  BY <1>1
<1>5. c \in 1..n /\ paginas[c] = paginas[k + 1]
  BY <1>1, <1>3, <1>4
<1>. HIDE DEF c
<1>6. c = k + 1
  <2>1. c - 1 \in 0..(n - 1) /\ (c - 1) + 1 = c
    BY <1>1, <1>5
  <2>2. c - 1 = k
    BY <1>2, <1>5, <2>1
  <2>3. QED
    BY <1>1, <1>5, <2>2
<1>7. Distancia(paginas[k + 1]) = (c - 1 - d + n) % n
  BY <1>1, <1>2 DEF Distancia, c
<1>8. c - 1 - d + n = k - d + n /\ k - d + n \in Nat /\ k - d + n < 2 * n
  BY <1>1, <1>6
<1>9. (k - d + n) % n = (IF k - d + n < n THEN k - d + n ELSE (k - d + n) - n)
  BY <1>1, <1>8, Resto
<1>10. QED
  BY <1>1, <1>7, <1>8, <1>9 DEF Lejos

\* A look that ends the search ends it at a page as EsVictima says.
LEMMA VictimaDeLaRonda ==
  ASSUME IInv, Rondas, MirarClock \/ MirarPaso1 \/ MirarPaso2, Cargar
  PROVE  EsVictima(EnMira)
<1>. DEFINE n == marcos_por_proceso
            k == indice_puntero
            V == EnMira
            U == antes.usada
            M == antes.modificada
<1>1. Buscando /\ Partida
  BY DEF MirarClock, MirarPaso1, MirarPaso2, Buscando, Rondas
<1>2. /\ n \in Nat \ {0} /\ k \in 0..(n - 1) /\ Lejos(k) \in 0..(n - 1)
      /\ \A a, b \in 0..(n - 1) : Lejos(a) = Lejos(b) => a = b
      /\ \A a \in 0..(n - 1) : Lejos(a) \in 0..(n - 1)
  BY <1>1, Avance
<1>3. /\ \A j \in 0..(n - 1) : paginas[j + 1] \in presencia
      /\ \A x \in presencia : \E j \in 0..(n - 1) : paginas[j + 1] = x
      /\ V \in presencia /\ V = paginas[k + 1]
  BY <1>1, Lugar, Mirada DEF EnMira
<1>4. /\ Vistas(n) = presencia /\ V \notin Vistas(Lejos(k))
      /\ \A j \in 0..(n - 1), m \in Nat : paginas[j + 1] \in Vistas(m) <=> Lejos(j) < m
  BY <1>1, UnaMas
<1>5. ToSet(antes.orden) = presencia
  <2>1. antes.orden = paginas /\ paginas \in SetToSeqs(presencia) /\ IsFiniteSet(presencia)
    BY <1>1, Basico DEF IInv, Partida, EnBusqueda
  <2>2. /\ paginas \in Seq(presencia) /\ Len(paginas) = Cardinality(presencia)
        /\ \A x \in presencia : \E j \in 1..Cardinality(presencia) : paginas[j] = x
    BY <2>1, Lista
  <2>3. DOMAIN paginas = 1..Cardinality(presencia)
    BY <2>2
  <2>4. QED
    BY <2>1, <2>2, <2>3 DEF ToSet
<1>6. /\ U \subseteq presencia /\ \A x \in presencia : x \in modificada <=> x \in M
      /\ pc = "clock" <=> algoritmo_reemplazo = "CLOCK"
  BY <1>1 DEF Partida
<1>7. ASSUME NEW j \in 0..(n - 1), paginas[j + 1] # V
      PROVE  LET y == paginas[j + 1]
             IN Costo(V) < Costo(y) \/ (Costo(V) = Costo(y) /\ Distancia(V) < Distancia(y))
  <2>. DEFINE y == paginas[j + 1]
              e == Lejos(k)
              f == Lejos(j)
  <2>1. Distancia(V) = e /\ Distancia(y) = f
    BY <1>1, <1>2, <1>3, DistanciaDelLugar
  <2>2. e \in 0..(n - 1) /\ f \in 0..(n - 1) /\ e # f
    BY <1>2, <1>3, <1>7
  <2>3. y \in presencia /\ \A m \in Nat : y \in Vistas(m) <=> f < m
    BY <1>3, <1>4
  <2>4. y \in Vistas(e) \/ e < f
    BY <2>2, <2>3
  <2>. HIDE DEF e, f, y
  <2>5. /\ Costo(V) = (IF V \in U THEN 2 ELSE 0)
                      + (IF V \in M /\ algoritmo_reemplazo # "CLOCK" THEN 1 ELSE 0)
        /\ Costo(y) = (IF y \in U THEN 2 ELSE 0)
                      + (IF y \in M /\ algoritmo_reemplazo # "CLOCK" THEN 1 ELSE 0)
    BY DEF Costo
  <2>6. Costo(V) < Costo(y) \/ (Costo(V) = Costo(y) /\ e < f)
    <3>1. CASE pc = "clock"
      <4>1. V \notin usada
        BY <3>1 DEF MirarClock, MirarPaso1, MirarPaso2, Seguir, Cargar, Responder
      <4>2. /\ e = (IF miradas = n THEN 0 ELSE miradas)
            /\ usada = U \ Vistas(miradas) /\ Vistas(miradas) \subseteq U
        BY <3>1 DEF Rondas, RondaClock, e
      <4>3. CASE miradas = n
        BY <1>3, <1>4, <1>6, <2>2, <2>3, <2>5, <3>1, <4>2, <4>3
      <4>4. CASE miradas # n
        BY <1>3, <1>4, <1>6, <2>2, <2>3, <2>4, <2>5, <3>1, <4>1, <4>2, <4>4 DEF e
      <4>5. QED
        BY <4>3, <4>4
    <3>2. CASE pc = "paso_1"
      <4>1. V \notin usada /\ V \notin M
        BY <1>3, <1>6, <3>2 DEF MirarClock, MirarPaso1, MirarPaso2, Cargar, Responder,
                                Seguir, ContarVuelta
      <4>2. /\ e = i
            /\ \/ usada = U /\ Vistas(i) \subseteq U \union M
               \/ presencia \subseteq U /\ Vistas(i) \subseteq M
        BY <3>2 DEF Rondas, RondaPaso1, e
      <4>3. QED
        BY <1>3, <1>6, <2>2, <2>3, <2>4, <2>5, <3>2, <4>1, <4>2
    <3>3. CASE pc = "paso_2"
      <4>1. V \notin usada /\ V \in M
        BY <1>3, <1>6, <3>3 DEF MirarClock, MirarPaso1, MirarPaso2, Cargar, Responder,
                                Seguir, ContarVuelta
      <4>2. /\ e = i /\ presencia \subseteq U \union M
            /\ \/ usada = U \ Vistas(i) /\ Vistas(i) \subseteq U
               \/ i = 0 /\ presencia \subseteq U /\ presencia \subseteq M
        BY <3>3 DEF Rondas, RondaPaso2, e
      <4>3. V \notin Vistas(i)
        BY <1>4, <4>2 DEF e
      <4>4. QED
        BY <1>3, <1>6, <2>2, <2>3, <2>4, <2>5, <3>3, <4>1, <4>2, <4>3
    <3>4. QED
      BY <1>1, <3>1, <3>2, <3>3 DEF Buscando
  <2>7. QED
    BY <2>1, <2>6 DEF y
<1>8. ASSUME NEW y \in presencia \ {V}
      PROVE  Costo(V) < Costo(y) \/ (Costo(V) = Costo(y) /\ Distancia(V) < Distancia(y))
  BY <1>3, <1>7
<1>9. QED
  BY <1>3, <1>5, <1>8 DEF EsVictima

\* A step that ends the search is a look that loads.
LEMMA FinDeBusqueda ==
  ASSUME [Next]_vars, Buscando, pc' = "acceder"
  PROVE  Cargar /\ (MirarClock \/ MirarPaso1 \/ MirarPaso2)
<1>1. ~Cpu /\ ~PasarSegundo /\ ~Suspender /\ ~BuscarPresente /\ ~AsignarMarco
      /\ ~IniciarReemplazo
  BY DEF Cpu, Traducir, Leer, Escribir, TerminarAcceso, PasarSegundo, Suspender,
         BuscarPresente, AsignarMarco, IniciarReemplazo, Llega, Buscando
<1>2. ~(UNCHANGED vars)
  BY DEF vars, Buscando
<1>3. MirarClock \/ MirarPaso1 \/ MirarPaso2
  BY <1>1, <1>2 DEF Next, Memoria
<1>4. Cargar
  BY <1>3 DEF MirarClock, MirarPaso1, MirarPaso2, ContarVuelta, Buscando
<1>5. QED
  BY <1>3, <1>4

\* The page that leaves is the one that is cheapest by the bits as the algorithm
\* found them, the first of these from the pointer on (memoria.c:303-459).
THEOREM VictimaDelTexto == Spec => VictimaExacta
<1>1. ASSUME IInv, Rondas, [Next]_vars, Buscando, pc' = "acceder",
             NEW x \in presencia \ presencia'
      PROVE  EsVictima(x)
  <2>1. Cargar /\ (MirarClock \/ MirarPaso1 \/ MirarPaso2)
    BY <1>1, FinDeBusqueda
  <2>2. presencia' = (presencia \ {EnMira}) \union {Pagina}
    BY <1>1, <2>1, Cambio
  <2>3. x = EnMira
    BY <2>2
  <2>4. QED
    BY <1>1, <2>1, <2>3, VictimaDeLaRonda
<1>2. IInv /\ Rondas /\ [Next]_vars =>
        [Buscando /\ pc' = "acceder" => \A x \in presencia \ presencia' : EsVictima(x)]_vars
  BY <1>1
<1>3. QED
  BY <1>2, InvarianteConRondas, PTL DEF Spec, VictimaExacta

-----------------------------------------------------------------------------
(* The page just loaded.                                                   *)

\* The page CLOCK loaded last is used, and is not the one at the pointer.
Reciente ==
  ultima # Ninguna =>
    /\ ultima \in presencia /\ marco[ultima] # puntero_marco
    /\ Cardinality(presencia) = marcos_por_proceso
    /\ ultima \in usada \/ Buscando
    /\ Buscando => ultima \in antes.usada

\* After a replacement by CLOCK the pointer is at another page.
LEMMA RecienteCargada ==
  ASSUME IInv, Partida, Buscando, Cargar, marcos_por_proceso > 1
  PROVE  Reciente'
<1>. DEFINE n == marcos_por_proceso
            k == indice_puntero
            V == EnMira
            W == paginas[Siguiente(k) + 1]
<1>1. n \in Nat \ {0} /\ k \in 0..(n - 1) /\ Siguiente(k) \in 0..(n - 1)
  BY Avance, Mirada
<1>2. Siguiente(k) # k
  BY <1>1 DEF Siguiente
<1>3. V \in presencia /\ W \in presencia /\ W # V
  BY <1>1, <1>2, Lugar DEF EnMira
<1>4. /\ Pagina \in Paginas \ presencia /\ Pedida = Pagina
      /\ presencia' = (presencia \ {V}) \union {Pagina}
      /\ marco'[Pagina] = marco[V]
      /\ Cardinality(presencia') = n
  BY Cambio
<1>5. puntero_marco' = marco[W] /\ UNCHANGED marcos_por_proceso /\ ~Buscando'
  BY DEF Cargar, PunteroTras, config, Responder, Buscando
<1>6. marco[W] # marco[V]
  BY <1>3 DEF IInv, Repartidos
<1>7. ultima' \in {Pagina, Ninguna} /\ Pagina \in usada'
  BY <1>4 DEF Cargar
<1>. HIDE DEF V, W
<1>8. QED
  BY <1>4, <1>5, <1>6, <1>7 DEF Reciente

LEMMA RecientePaso ==
  ASSUME \A m \in CantidadesDeMarcos : m > 1, IInv, Partida, Reciente, [Next]_vars
  PROVE  Reciente'
<1>1. marcos_por_proceso > 1
  BY DEF IInv, TypeOK
<1>2. CASE Cpu \/ PasarSegundo
  <2>. USE DEF Cpu, Traducir, Leer, Escribir, TerminarAcceso, SinTocarMemoria, PasarSegundo,
               config, tablas, bits, bucle, historia
  <2>1. UNCHANGED <<ultima, presencia, usada, marco, puntero_marco, marcos_por_proceso>>
    BY <1>2
  <2>2. ~Buscando /\ ~Buscando'
    BY <1>2 DEF Buscando
  <2>3. QED
    BY <2>1, <2>2 DEF Reciente
<1>3. CASE Suspender \/ AsignarMarco
  BY <1>3 DEF Suspender, AsignarMarco, Reciente
<1>4. CASE BuscarPresente
  <2>1. ultima \in usada => ultima \in usada'
    BY <1>4 DEF BuscarPresente
  <2>2. QED
    BY <1>4, <2>1 DEF BuscarPresente, Llega, Responder, config, historia, Reciente, Buscando
<1>5. CASE IniciarReemplazo
  <2>1. antes'.usada = usada /\ Buscando' /\ ~Buscando
    BY <1>5 DEF IniciarReemplazo, Llega, Buscando
  <2>2. QED
    BY <1>5, <2>1 DEF IniciarReemplazo, config, tablas, bits, Reciente
<1>6. CASE (MirarClock \/ MirarPaso1 \/ MirarPaso2) /\ Cargar
  <2>1. Buscando
    BY <1>6 DEF MirarClock, MirarPaso1, MirarPaso2, Buscando
  <2>2. QED
    BY <1>1, <1>6, <2>1, RecienteCargada
<1>7. CASE (MirarClock \/ MirarPaso1 \/ MirarPaso2) /\ ~Cargar
  <2>1. Buscando /\ Buscando'
    BY <1>7 DEF MirarClock, MirarPaso1, MirarPaso2, ContarVuelta, Buscando
  <2>2. UNCHANGED <<ultima, presencia, marco, puntero_marco, marcos_por_proceso, antes>>
    BY <1>7 DEF MirarClock, MirarPaso1, MirarPaso2, Seguir, config
  <2>3. QED
    BY <2>1, <2>2 DEF Reciente
<1>8. CASE UNCHANGED vars
  BY <1>8 DEF vars, config, tablas, bits, historia, Reciente, Buscando
<1>9. QED
  BY <1>2, <1>3, <1>4, <1>5, <1>6, <1>7, <1>8 DEF Next, Memoria

\* With more than one frame, the page that one replacement by CLOCK loads is not
\* the victim of the next (memoria.c:331-353).
THEOREM NoSaleLaRecienCargada ==
  ASSUME \A m \in CantidadesDeMarcos : m > 1
  PROVE  Spec => RecienCargadaQueda
<1>1. Init => Reciente
  BY DEF Init, Reciente
<1>2. ASSUME IInv, Rondas, Reciente, [Next]_vars, pc = "clock", pc' = "acceder"
      PROVE  ultima \notin presencia \ presencia'
  <2>. DEFINE n == marcos_por_proceso
              k == indice_puntero
              V == EnMira
  <2>1. Buscando /\ Partida
    BY <1>2 DEF Buscando, Rondas
  <2>2. Cargar /\ V \notin usada
    BY <1>2, <2>1, FinDeBusqueda DEF MirarClock, MirarPaso1, MirarPaso2, Seguir, Cargar,
                                     Responder
  <2>3. presencia' = (presencia \ {V}) \union {Pagina} /\ V \in presencia
    BY <1>2, <2>1, <2>2, Cambio
  <2>4. /\ n \in Nat \ {0} /\ k \in 0..(n - 1) /\ Lejos(antes.desde) = 0
        /\ \A a, b \in 0..(n - 1) : Lejos(a) = Lejos(b) => a = b
        /\ antes.desde \in 0..(n - 1)
    BY <1>2, <2>1, Avance DEF Partida
  <2>5. V \notin Vistas(Lejos(k)) /\ V = paginas[k + 1]
    BY <1>2, <2>1, UnaMas DEF EnMira
  <2>6. /\ Lejos(k) = (IF miradas = n THEN 0 ELSE miradas)
        /\ usada = antes.usada \ Vistas(miradas)
    BY <1>2 DEF Rondas, RondaClock
  <2>7. Ninguna \notin presencia
    <3>1. presencia \subseteq Nat
      BY <1>2 DEF IInv, TypeOK, Paginas
    <3>2. QED
      BY <3>1 DEF Ninguna
  <2>8. CASE miradas = n
    <3>1. k = antes.desde
      BY <2>4, <2>6, <2>8
    <3>2. marco[V] = puntero_marco
      BY <2>1, <2>5, <3>1 DEF Partida
    <3>3. QED
      BY <1>2, <2>3, <2>7, <3>2 DEF Reciente
  <2>9. CASE miradas # n
    <3>1. V \notin antes.usada
      BY <2>2, <2>5, <2>6, <2>9
    <3>2. ultima # Ninguna => ultima \in antes.usada
      BY <1>2, <2>1 DEF Reciente
    <3>3. QED
      BY <2>3, <2>7, <3>1, <3>2
  <2>10. QED
    BY <2>8, <2>9
<1>3. IInv /\ Rondas /\ Reciente /\ [Next]_vars =>
        [pc = "clock" /\ pc' = "acceder" => ultima \notin presencia \ presencia']_vars
  BY <1>2
<1>4. IInv /\ Rondas /\ Reciente /\ [Next]_vars => Reciente'
  BY RecientePaso DEF Rondas
<1>5. QED
  BY <1>1, <1>3, <1>4, InvarianteConRondas, PTL DEF Spec, RecienCargadaQueda

-----------------------------------------------------------------------------
(* With two frames CLOCK is the textbook's.                                *)

DosMarcos == algoritmo_reemplazo = "CLOCK" /\ marcos_por_proceso = 2

\* The circle of two pages, from the one at the pointer on.
CirculoDe(S, mar, pun) ==
  IF Cardinality(S) < 2 THEN <<>>
  ELSE LET x == CHOOSE x \in S : mar[x] = pun
       IN <<x, CHOOSE y \in S : y # x>>

LEMMA EsSuCirculo == Circulo = CirculoDe(presencia, marco, puntero_marco)
  BY DEF Circulo, CirculoDe

LEMMA SeraSuCirculo == Circulo' = CirculoDe(presencia', marco', puntero_marco')
  BY DEF Circulo, CirculoDe

\* Two different pages are two.
LEMMA DosPaginas ==
  ASSUME NEW x, NEW y, x # y
  PROVE  IsFiniteSet({x, y}) /\ Cardinality({x, y}) = 2
<1>1. IsFiniteSet({x}) /\ Cardinality({x}) = 1
  BY FS_Singleton
<1>2. {x, y} = {x} \union {y}
  OBVIOUS
<1>3. IsFiniteSet({x} \union {y}) /\ Cardinality({x} \union {y}) = Cardinality({x}) + 1
  BY <1>1, FS_AddElement
<1>4. QED
  BY <1>1, <1>2, <1>3

\* It begins at the one whose frame the pointer is at.
LEMMA CirculoEs ==
  ASSUME NEW x, NEW y, x # y, NEW mar, NEW pun, mar[x] = pun, mar[y] # pun
  PROVE  CirculoDe({x, y}, mar, pun) = <<x, y>>
<1>. DEFINE a == CHOOSE z \in {x, y} : mar[z] = pun
            b == CHOOSE z \in {x, y} : z # a
<1>1. a = x
  OBVIOUS
<1>2. b = y
  BY <1>1
<1>3. Cardinality({x, y}) = 2
  BY DosPaginas
<1>4. CirculoDe({x, y}, mar, pun) = <<a, b>>
  BY <1>3 DEF CirculoDe
<1>. HIDE DEF a, b
<1>5. QED
  BY <1>1, <1>2, <1>4

\* Two pages are all there are, if the set has two.
LEMMA SonTodas ==
  ASSUME NEW S, IsFiniteSet(S), Cardinality(S) = 2, NEW x \in S, NEW y \in S, x # y
  PROVE  S = {x, y}
<1>1. IsFiniteSet({x, y}) /\ Cardinality({x, y}) = 2 /\ {x, y} \subseteq S
  BY DosPaginas
<1>2. QED
  BY <1>1, FS_Subset

\* There is another.
LEMMA HayOtra ==
  ASSUME NEW S, IsFiniteSet(S), Cardinality(S) = 2, NEW x \in S
  PROVE  \E y \in S : x # y /\ S = {x, y}
<1>1. S # {x}
  BY FS_Singleton
<1>2. PICK y \in S : y # x
  BY <1>1
<1>3. QED
  BY <1>2, SonTodas

\* One element of a sequence.
LEMMA UnaSola ==
  ASSUME NEW S, NEW s \in Seq(S), NEW m \in 1..Len(s)
  PROVE  SubSeq(s, m, m) = <<s[m]>>
<1>1. m \in m..Len(s)
  OBVIOUS
<1>2. SubSeq(s, m, m) = <<s[m]>> \o SubSeq(s, m + 1, m)
  BY <1>1, SubSeqRecursiveFirst
<1>3. SubSeq(s, m + 1, m) = <<>>
  BY SubSeqEmpty
<1>4. <<s[m]>> \o <<>> = <<s[m]>>
  OBVIOUS
<1>5. QED
  BY <1>2, <1>3, <1>4

\* The circle turned to where the next search begins.
LEMMA Giros ==
  ASSUME NEW a, NEW b, NEW p
  PROVE  /\ SubSeq(<<a, b>>, 2, 2) \o SubSeq(<<a, b>>, 1, 0) \o <<p>> = <<b, p>>
         /\ SubSeq(<<a, b>>, 3, 2) \o SubSeq(<<a, b>>, 1, 1) \o <<p>> = <<a, p>>
<1>. DEFINE s == <<a, b>>
<1>1. s \in Seq({a, b}) /\ 1 \in 1..Len(s) /\ 2 \in 1..Len(s) /\ s[1] = a /\ s[2] = b
  OBVIOUS
<1>. HIDE DEF s
<1>2. SubSeq(s, 2, 2) = <<b>>
  BY <1>1, UnaSola
<1>3. SubSeq(s, 1, 1) = <<a>>
  BY <1>1, UnaSola
<1>4. SubSeq(s, 1, 0) = <<>>
  BY SubSeqEmpty
<1>5. SubSeq(s, 3, 2) = <<>>
  BY SubSeqEmpty
<1>6. <<b>> \o <<>> = <<b>> /\ <<>> \o <<a>> = <<a>>
  OBVIOUS
<1>7. \A c : <<c>> \o <<p>> = <<c, p>>
  <2>1. TAKE c
  <2>2. <<c>> \in Seq({c, p}) /\ <<p>> \in Seq({c, p}) /\ <<c, p>> \in Seq({c, p})
    OBVIOUS
  <2>3. Len(<<c>> \o <<p>>) = 2 /\ (<<c>> \o <<p>>)[1] = c /\ (<<c>> \o <<p>>)[2] = p
    BY <2>2
  <2>4. <<c>> \o <<p>> \in Seq({c, p})
    BY <2>2
  <2>. DEFINE u == <<c>> \o <<p>>
              v == <<c, p>>
  <2>5. /\ u \in Seq({c, p}) /\ v \in Seq({c, p}) /\ Len(u) = 2 /\ Len(v) = 2
        /\ \A k \in 1..2 : u[k] = v[k]
    BY <2>2, <2>3, <2>4
  <2>. HIDE DEF u, v
  <2>6. u = v
    BY <2>5, SeqEqual
  <2>7. QED
    BY <2>6 DEF u, v
<1>8. SubSeq(s, 2, 2) \o SubSeq(s, 1, 0) \o <<p>> = <<b, p>>
  BY <1>2, <1>4, <1>6, <1>7
<1>9. SubSeq(s, 3, 2) \o SubSeq(s, 1, 1) \o <<p>> = <<a, p>>
  BY <1>3, <1>5, <1>6, <1>7
<1>10. QED
  BY <1>8, <1>9 DEF s

\* While CLOCK looks around, the page at the pointer is where it began.
LEMMA CirculoEnBusqueda ==
  ASSUME IInv, Rondas, DosMarcos, Buscando
  PROVE  LET d == antes.desde
             x == paginas[d + 1]
             y == paginas[Siguiente(d) + 1]
         IN /\ d \in 0..1 /\ Siguiente(d) = 1 - d
            /\ x \in presencia /\ y \in presencia
            /\ x # y /\ presencia = {x, y} /\ Circulo = <<x, y>>
            /\ Lejos(d) = 0 /\ Lejos(1 - d) = 1
<1>. DEFINE d == antes.desde
            x == paginas[d + 1]
            y == paginas[(1 - d) + 1]
<1>1. /\ d \in 0..1 /\ marco[x] = puntero_marco /\ marcos_por_proceso = 2
      /\ Siguiente(d) = 1 - d /\ Lejos(d) = 0 /\ Lejos(1 - d) = 1
  BY DEF Rondas, Partida, DosMarcos, Siguiente, Lejos
<1>2. x \in presencia /\ y \in presencia /\ x # y
  <2>1. d \in 0..1 /\ 1 - d \in 0..1 /\ d # 1 - d
    BY <1>1
  <2>2. /\ \A k \in 0..1 : paginas[k + 1] \in presencia
        /\ \A j, k \in 0..1 : paginas[j + 1] = paginas[k + 1] => j = k
    BY <1>1, Lugar
  <2>3. QED
    BY <2>1, <2>2
<1>3. IsFiniteSet(presencia) /\ Cardinality(presencia) = 2
  BY <1>1, Basico DEF IInv, EnBusqueda
<1>4. marco[y] # puntero_marco
  BY <1>1, <1>2 DEF IInv, Repartidos
<1>. HIDE DEF x, y
<1>5. presencia = {x, y}
  BY <1>2, <1>3, SonTodas
<1>6. Circulo = <<x, y>>
  BY <1>1, <1>2, <1>4, <1>5, CirculoEs, EsSuCirculo
<1>7. QED
  BY <1>1, <1>2, <1>5, <1>6 DEF x, y

\* A replacement is one of the textbook's: the page at the hand, or the next, or
\* the first again.
LEMMA RelojCargar ==
  ASSUME IInv, Rondas, DosMarcos, MirarClock, Cargar
  PROVE  Reloj!Next
<1>. DEFINE d == antes.desde
            x == paginas[d + 1]
            y == paginas[Siguiente(d) + 1]
            k == indice_puntero
            V == EnMira
            W == paginas[Siguiente(k) + 1]
<1>1. Buscando /\ pc = "clock" /\ Partida /\ V \notin usada
  <2>1. Buscando /\ pc = "clock" /\ Partida
    BY DEF MirarClock, Buscando, Rondas
  <2>2. V \in presencia /\ presencia' = (presencia \ {V}) \union {Pagina}
        /\ Pagina \notin presencia
    BY <2>1, Cambio
  <2>3. presencia' # presencia
    BY <2>2
  <2>4. QED
    BY <2>1, <2>3 DEF MirarClock, Seguir
<1>2. /\ d \in 0..1 /\ Siguiente(d) = 1 - d /\ x \in presencia /\ y \in presencia
      /\ x # y /\ presencia = {x, y} /\ Circulo = <<x, y>>
      /\ Lejos(d) = 0 /\ Lejos(1 - d) = 1
  BY <1>1, CirculoEnBusqueda
<1>3. /\ V \in presencia /\ Pagina \in Paginas \ presencia
      /\ presencia' = (presencia \ {V}) \union {Pagina}
      /\ marco'[Pagina] = marco[V]
      /\ \A z \in presencia \ {V} : marco'[z] = marco[z]
      /\ Pedida = Pagina
  BY <1>1, Cambio
<1>4. /\ usada' = (usada \ {V}) \union {Pagina} /\ puntero_marco' = marco[W]
      /\ ~Buscando'
  BY <1>3 DEF Cargar, PunteroTras, Responder, Buscando
<1>5. /\ miradas \in 0..2 /\ Lejos(k) = (IF miradas = 2 THEN 0 ELSE miradas)
      /\ usada = antes.usada \ Vistas(miradas) /\ Vistas(miradas) \subseteq antes.usada
      /\ antes.usada \subseteq presencia /\ k \in 0..1
  BY <1>1, Avance DEF Rondas, RondaClock, Partida, DosMarcos, IInv, TypeOK
<1>6. /\ Vistas(0) = {} /\ Vistas(2) = presencia
      /\ \A j \in 0..1, m \in Nat : paginas[j + 1] \in Vistas(m) <=> Lejos(j) < m
  BY <1>1, UnaMas DEF DosMarcos
<1>7. x \in Vistas(1) /\ y \notin Vistas(1)
  <2>1. 1 \in Nat /\ d \in 0..1 /\ 1 - d \in 0..1
    BY <1>2
  <2>2. QED
    BY <1>2, <1>6, <2>1
<1>8. /\ UsadaDelReloj = antes.usada /\ UsadaDelReloj' = usada'
  BY <1>1, <1>4 DEF UsadaDelReloj
<1>9. ASSUME {V, W} = {x, y}, V # W
      PROVE  Circulo' = <<W, Pagina>>
  <2>1. presencia' = {W, Pagina} /\ W # Pagina
    BY <1>2, <1>3, <1>9
  <2>2. marco'[W] = marco[W] /\ marco[W] # marco[V]
    BY <1>2, <1>3, <1>9 DEF IInv, Repartidos
  <2>. HIDE DEF V, W
  <2>3. marco'[W] = puntero_marco' /\ marco'[Pagina] # puntero_marco'
    BY <1>3, <1>4, <2>2
  <2>. DEFINE P == Pagina
  <2>. HIDE DEF P
  <2>4. CirculoDe({W, P}, marco', puntero_marco') = <<W, P>>
    BY <2>1, <2>3, CirculoEs DEF P
  <2>5. CirculoDe(presencia', marco', puntero_marco') = <<W, Pagina>>
    BY <2>1, <2>4 DEF P
  <2>6. QED
    BY <2>5, SeraSuCirculo
<1>10. SUFFICES \E j \in 1..2 : j \in DOMAIN Circulo /\ Reloj!Reemplazar(Pagina, j)
  BY <1>3 DEF Reloj!Next
<1>11. CASE miradas = 0 \/ miradas = 2
  <2>1. k = d /\ V = x /\ W = y
    BY <1>1, <1>2, <1>5, <1>11, Avance DEF EnMira, DosMarcos
  <2>2. Circulo' = <<y, Pagina>>
    BY <1>2, <1>9, <2>1
  <2>3. \/ x \notin antes.usada /\ usada' = antes.usada \union {Pagina}
        \/ {x, y} \subseteq antes.usada /\ usada' = {Pagina}
    BY <1>1, <1>2, <1>4, <1>5, <1>6, <1>11, <2>1
  <2>4. presencia' = ({x, y} \ {x}) \union {Pagina}
    BY <1>2, <1>3, <2>1
  <2>. HIDE DEF x, y
  <2>5. Reloj!Elementos(Circulo) = {x, y} /\ 1 \in DOMAIN Circulo /\ Circulo[1] = x
    BY <1>2 DEF Reloj!Elementos
  <2>6. SubSeq(Circulo, 1 + 1, 2) \o SubSeq(Circulo, 1, 1 - 1) \o <<Pagina>> = <<y, Pagina>>
    BY <1>2, Giros
  <2>7. Reloj!Reemplazar(Pagina, 1)
    BY <1>2, <1>3, <1>8, <2>2, <2>3, <2>4, <2>5, <2>6 DEF Reloj!Reemplazar
  <2>8. QED
    BY <2>5, <2>7
<1>12. CASE miradas = 1
  <2>1. k = 1 - d /\ V = y /\ W = x
    BY <1>1, <1>2, <1>5, <1>12, Avance DEF EnMira, DosMarcos, Siguiente
  <2>2. Circulo' = <<x, Pagina>>
    BY <1>2, <1>9, <2>1
  <2>3. /\ x \in antes.usada /\ y \notin antes.usada
        /\ usada' = (antes.usada \ {x}) \union {Pagina}
    BY <1>1, <1>2, <1>4, <1>5, <1>7, <1>12, <2>1
  <2>4. presencia' = ({x, y} \ {y}) \union {Pagina}
    BY <1>2, <1>3, <2>1
  <2>. HIDE DEF x, y
  <2>5. 2 \in DOMAIN Circulo /\ Circulo[2] = y /\ {Circulo[j] : j \in 1..(2 - 1)} = {x}
        /\ \A j \in 1..(2 - 1) : Circulo[j] = x
    BY <1>2
  <2>6. SubSeq(Circulo, 2 + 1, 2) \o SubSeq(Circulo, 1, 2 - 1) \o <<Pagina>> = <<x, Pagina>>
    BY <1>2, Giros
  <2>7. Reloj!Reemplazar(Pagina, 2)
    BY <1>2, <1>3, <1>8, <2>2, <2>3, <2>4, <2>5, <2>6 DEF Reloj!Reemplazar
  <2>8. QED
    BY <2>5, <2>7
<1>13. QED
  BY <1>5, <1>11, <1>12

\* Each module counts with its own copy of the library.
LEMMA CuentaIgual ==
  ASSUME NEW S
  PROVE  Reloj!Cardinality(S) = Cardinality(S)
  BY DEF Cardinality, Reloj!Cardinality

\* A page gets a frame that is free; with the second the hand is set.
LEMMA RelojAsignar ==
  ASSUME IInv, IInv', DosMarcos, AsignarMarco
  PROVE  Reloj!Next
<1>1. /\ Pedida = Pagina /\ Pagina \in Paginas /\ Pagina \notin presencia
      /\ Cardinality(presencia) < 2 /\ presencia' = presencia \union {Pagina}
      /\ usada' = usada \union {Pagina} /\ ~Buscando /\ ~Buscando'
      /\ marcos_por_proceso' = 2
  BY PideLaPagina DEF AsignarMarco, IInv, Llega, DosMarcos, Responder, Buscando, config
<1>2. /\ IsFiniteSet(presencia) /\ Cardinality(presencia) \in Nat
      /\ presencia' \in SUBSET Paginas
  BY <1>1, Basico DEF IInv
<1>3. IsFiniteSet(presencia') /\ Cardinality(presencia') = Cardinality(presencia) + 1
  BY <1>1, <1>2, FS_AddElement
<1>4. UsadaDelReloj' = UsadaDelReloj \union {Pagina}
  BY <1>1 DEF UsadaDelReloj
<1>5. CASE Cardinality(presencia) + 1 = 2
  <2>1. PICK x \in presencia' : marco'[x] = puntero_marco'
    BY <1>1, <1>3, <1>5 DEF IInv, PunteroPropio, MarcosDe
  <2>2. PICK y \in presencia' : x # y /\ presencia' = {x, y}
    BY <1>3, <1>5, HayOtra
  <2>3. marco'[y] # puntero_marco'
    BY <2>1, <2>2 DEF IInv, Repartidos
  <2>4. Circulo' = <<x, y>>
    BY <2>1, <2>2, <2>3, CirculoEs, SeraSuCirculo
  <2>5. <<x, y>> \in [1..2 -> Paginas] /\ Reloj!Elementos(<<x, y>>) = presencia'
    BY <1>2, <2>1, <2>2 DEF Reloj!Elementos
  <2>6. Reloj!Cargar(Pagina)
    BY <1>1, <1>4, <1>5, <2>4, <2>5, CuentaIgual DEF Reloj!Cargar
  <2>7. QED
    BY <1>1, <2>6 DEF Reloj!Next
<1>6. CASE Cardinality(presencia) + 1 # 2
  <2>1. Cardinality(presencia') < 2
    BY <1>1, <1>2, <1>3, <1>6
  <2>2. Circulo' = <<>>
    BY <2>1 DEF Circulo
  <2>3. Reloj!Cargar(Pagina)
    BY <1>1, <1>4, <1>6, <2>2, CuentaIgual DEF Reloj!Cargar
  <2>4. QED
    BY <1>1, <2>3 DEF Reloj!Next
<1>7. QED
  BY <1>5, <1>6

\* What does not touch the tables nor the bits of use, the textbook does not see.
LEMMA RelojQuieto ==
  ASSUME UNCHANGED <<presencia, marco, puntero_marco, UsadaDelReloj>>
  PROVE  UNCHANGED Reloj!vars
<1>1. Circulo' = Circulo
  BY EsSuCirculo, SeraSuCirculo
<1>2. QED
  BY <1>1 DEF Reloj!vars

LEMMA RelojPaso ==
  ASSUME IInv, IInv', Rondas, DosMarcos, [Next]_vars
  PROVE  [Reloj!Next]_(Reloj!vars)
<1>1. CASE Cpu \/ PasarSegundo \/ UNCHANGED vars
  <2>. USE DEF Cpu, Traducir, Leer, Escribir, TerminarAcceso, SinTocarMemoria, PasarSegundo,
               vars, config, tablas, bits, bucle, historia
  <2>1. UNCHANGED <<presencia, usada, marco, puntero_marco, antes>>
    BY <1>1
  <2>2. Buscando' <=> Buscando
    BY <1>1 DEF Buscando
  <2>3. UsadaDelReloj' = UsadaDelReloj
    BY <2>1, <2>2 DEF UsadaDelReloj
  <2>4. QED
    BY <2>1, <2>3, RelojQuieto
<1>2. CASE Suspender
  <2>1. presencia' = {} /\ usada' = {} /\ ~Buscando'
    BY <1>2 DEF Suspender, Buscando
  <2>2. Circulo' = <<>> /\ UsadaDelReloj' = {}
    BY <2>1, FS_EmptySet DEF Circulo, UsadaDelReloj
  <2>3. QED
    BY <2>1, <2>2 DEF Reloj!Next, Reloj!Vaciar
<1>3. CASE BuscarPresente
  <2>1. /\ Pedida \in presencia /\ usada' = usada \union {Pedida} /\ ~Buscando /\ ~Buscando'
        /\ UNCHANGED <<presencia, marco, puntero_marco>> /\ presencia \subseteq Paginas
    BY <1>3 DEF BuscarPresente, Llega, Responder, Buscando, IInv, TypeOK
  <2>2. Circulo' = Circulo /\ UsadaDelReloj' = UsadaDelReloj \union {Pedida}
    BY <2>1, EsSuCirculo, SeraSuCirculo DEF UsadaDelReloj
  <2>3. Reloj!Usar(Pedida)
    BY <2>1, <2>2 DEF Reloj!Usar
  <2>4. QED
    BY <2>1, <2>3 DEF Reloj!Next
<1>4. CASE AsignarMarco
  BY <1>4, RelojAsignar
<1>5. CASE IniciarReemplazo
  <2>1. antes'.usada = usada /\ Buscando' /\ ~Buscando
        /\ UNCHANGED <<presencia, marco, puntero_marco>>
    BY <1>5 DEF IniciarReemplazo, Llega, Buscando, tablas, bits
  <2>2. UsadaDelReloj' = UsadaDelReloj
    BY <2>1 DEF UsadaDelReloj
  <2>3. QED
    BY <2>1, <2>2, RelojQuieto
<1>6. CASE MirarClock
  <2>1. CASE Cargar
    BY <1>6, <2>1, RelojCargar
  <2>2. CASE ~Cargar
    <3>1. /\ UNCHANGED <<presencia, marco, puntero_marco, antes>> /\ Buscando /\ Buscando'
      BY <1>6, <2>2 DEF MirarClock, Seguir, Buscando
    <3>2. UsadaDelReloj' = UsadaDelReloj
      BY <3>1 DEF UsadaDelReloj
    <3>3. QED
      BY <3>1, <3>2, RelojQuieto
  <2>3. QED
    BY <2>1, <2>2
<1>7. CASE MirarPaso1 \/ MirarPaso2
  <2>1. Buscando /\ pc # "clock"
    BY <1>7 DEF MirarPaso1, MirarPaso2, Buscando
  <2>2. QED
    BY <2>1 DEF Rondas, Partida, DosMarcos
<1>8. QED
  BY <1>1, <1>2, <1>3, <1>4, <1>5, <1>6, <1>7 DEF Next, Memoria

\* Every step of CLOCK on two frames is a step of the promise, or a stutter: the
\* pointer kept as a frame, looked up in a list sorted anew each time, is the hand
\* of the textbook's circle, whatever the times of loading (memoria.c:303-359).
THEOREM CumpleElReloj == Spec => ImplementaReloj
<1>1. IInv /\ IInv' /\ Rondas /\ [Next]_vars =>
        [algoritmo_reemplazo = "CLOCK" /\ marcos_por_proceso = 2 =>
           [Reloj!Next]_(Reloj!vars)]_vars
  BY RelojPaso DEF DosMarcos
<1>2. QED
  BY <1>1, InvarianteConRondas, PTL DEF Spec, ImplementaReloj
=============================================================================
