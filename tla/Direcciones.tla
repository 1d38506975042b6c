----------------------------- MODULE Direcciones -----------------------------
(***************************************************************************)
(* The arithmetic of addresses: how the CPU splits a logical address       *)
(* (cpu/src/cpu.c), how memory numbers the pages of its two levels of      *)
(* tables, and which bytes of user memory an access touches                *)
(* (memoria/src/memoria.c).  Tables, entries, pages and frames are counted *)
(* from 0, as in the code.                                                 *)
(***************************************************************************)
EXTENDS Integers

CONSTANTS EntradasPorTabla, TamanioPagina, TamanioMemoria

ASSUME TamaniosOK ==
  /\ EntradasPorTabla \in Nat \ {0}
  /\ TamanioPagina \in Nat \ {0}
  /\ TamanioMemoria \in Nat

\* What a READ or a WRITE transfers: a uint32_t.
Palabra == 4

Entradas == 0..(EntradasPorTabla - 1)

Paginas == 0..(EntradasPorTabla * EntradasPorTabla - 1)

\* A process has at most the addresses of its pages.
Direcciones == 0..(EntradasPorTabla * EntradasPorTabla * TamanioPagina - 1)

-----------------------------------------------------------------------------
(* The CPU.                                                                *)

NumeroDePagina(d) == d \div TamanioPagina

EntradaPrimerNivel(x) == x \div EntradasPorTabla

\* Variant: the size of a page where the entries of a table are meant.
EntradaSegundoNivelPorPagina(x) == x % TamanioPagina

EntradaSegundoNivel(x) == x % EntradasPorTabla

Desplazamiento(d) == d - NumeroDePagina(d) * TamanioPagina

-----------------------------------------------------------------------------
(* Memory.                                                                 *)

\* t_pagina.numero, the place of the page in the swap file: contador_paginas
\* goes on from one table of second level to the next.
NumeroEnTabla(t, e) == t * EntradasPorTabla + e

CantidadPaginas == TamanioMemoria \div TamanioPagina

\* Variant: the quotient is rounded up, as the call of ceil says.
BytesDelMapaHaciaArriba == (CantidadPaginas + 7) \div 8

\* ceil is applied to a quotient of integers, so it rounds nothing up.
BytesDelMapa == CantidadPaginas \div 8

\* bitarray_get_max_bit: the bitmap is created with a size in bytes.
CantidadMarcos == 8 * BytesDelMapa

Marcos == 0..(CantidadMarcos - 1)

DireccionFisica(m, desp) == m * TamanioPagina + desp

\* The question leer_contenido_marco and escribir_en_marco ask.
EstaEnMemoria(m, desp) == ~(DireccionFisica(m, desp) > TamanioMemoria - 1)

\* The bytes their memcpy copies.
BytesDelAcceso(m, desp) ==
  DireccionFisica(m, desp)..(DireccionFisica(m, desp) + Palabra - 1)

\* The bytes of a frame (escribir_marco_completo).
BytesDelMarco(m) == (m * TamanioPagina)..(m * TamanioPagina + TamanioPagina - 1)
=============================================================================
