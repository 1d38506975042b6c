------------------------- MODULE SegundaOportunidad -------------------------
(***************************************************************************)
(* What CLOCK promises: the pages in memory form a circle.  A page that    *)
(* was used since it was last looked at gets a second chance; the first    *)
(* one that was not leaves, and the page that comes takes its place, the   *)
(* last that will be looked at.  The circle is cut open at the hand, so it *)
(* is a queue: looking at a page sends it to the end.                      *)
(***************************************************************************)
EXTENDS Integers, Sequences, FiniteSets

CONSTANTS Paginas, Cupo     \* Cupo: frames of the process

VARIABLES circulo,   \* the pages from the hand on; <<>> while frames are free
          cargadas,  \* the pages in memory
          usadas     \* of these, those used since they were last looked at

vars == <<circulo, cargadas, usadas>>

Elementos(s) == {s[k] : k \in DOMAIN s}

Init == circulo = <<>> /\ cargadas = {} /\ usadas = {}

Usar(x) ==
  /\ x \in cargadas
  /\ usadas' = usadas \union {x}
  /\ UNCHANGED <<circulo, cargadas>>

\* There is a free frame.  With the last one taken the hand is set; where, the
\* promise leaves open.
Cargar(x) ==
  /\ x \notin cargadas /\ Cardinality(cargadas) < Cupo
  /\ cargadas' = cargadas \union {x}
  /\ usadas' = usadas \union {x}
  /\ IF Cardinality(cargadas) + 1 = Cupo
     THEN \E s \in [1..Cupo -> Paginas] :
            Elementos(s) = cargadas' /\ circulo' = s
     ELSE circulo' = <<>>

\* Those before the k-th get their second chance, the k-th leaves.
Reemplazar(x, k) ==
  /\ x \notin cargadas /\ circulo # <<>>
  /\ \/ /\ circulo[k] \notin usadas
        /\ \A j \in 1..(k - 1) : circulo[j] \in usadas
        /\ usadas' = (usadas \ {circulo[j] : j \in 1..(k - 1)}) \union {x}
     \/ /\ Elementos(circulo) \subseteq usadas /\ k = 1
        /\ usadas' = {x}
  /\ cargadas' = (cargadas \ {circulo[k]}) \union {x}
  /\ circulo' = SubSeq(circulo, k + 1, Cupo) \o SubSeq(circulo, 1, k - 1) \o <<x>>

\* The process is suspended.
Vaciar == circulo' = <<>> /\ cargadas' = {} /\ usadas' = {}

Next == \/ \E x \in Paginas : Usar(x) \/ Cargar(x)
        \/ \E x \in Paginas, k \in 1..Cupo : k \in DOMAIN circulo /\ Reemplazar(x, k)
        \/ Vaciar

Spec == Init /\ [][Next]_vars
=============================================================================
