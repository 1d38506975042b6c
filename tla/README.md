# Formal models of CobraKai

CobraKai is four programs in C that together simulate an operating system:
**consola** sends a process, **kernel** schedules it, **cpu** executes its
instructions, **memoria** pages its data. They talk over TCP; kernel, cpu and
memoria are multithreaded. This directory holds TLA+ models of that system, the
TLC runs that check them on small instances and TLAPS proofs for all instances.

## The system

| Part | State it keeps | Operations | What is hard | What makes it correct |
|---|---|---|---|---|
| Kernel, scheduling (`kernel.c`) | queues `new`, `ready`, `blocked`, `susp_ready`; six semaphores; `ejecutando`; one PCB per process | six kinds of threads: consoles, short-term (FIFO or SRT), long-term, I/O device, desuspendidor, CPU listener, and one `esperar_y_suspender` per blocking | threads that hand processes to each other; timers that race the I/O; one unprotected socket to memory shared by all | one process on the CPU, none lost or duplicated, semaphores equal to queues, degree of multiprogramming, every process answered |
| CPU, instruction cycle (`cpu.c`) | `pcb`, `pos`, `cpu->interrupcion`, `sem_interrupt` | dispatch thread (fetch, decode, execute, check_interrupt), interrupt thread | a flag read twice by one thread and set by the other; interruptions that arrive late | each PCB given back exactly once, no instruction skipped or repeated |
| CPU, translation and TLB (`cpu.c`) | `cola_tlb`, last table number | `obtener_TLB`, `guardar_en_TLB` (FIFO, LRU), three accesses to memory | entries that outlive a page replacement | an access reaches the page it names |
| Consoles (`consola.c`, kernel `main`) | `conexion_consola`, `numero_proceso` | connect, accept, `atender_consola`, final answer | globals shared by all the console threads; a console that goes away | each console gets its own answer, ids are unique |
| Memory, tables and swap (`memoria.c`) | page tables, frame bitmap, swap files, `numero_de_tabla_primer_nivel`, `id_a_suspender`, `swap` | requests of the CPU's thread and of the kernel's thread | suspension of a process while the CPU uses its pages | a frame belongs to one page, what is read is what was last written |
| Memory, replacement (`memoria.c`) | bits `usada`, `modificada`, `presencia`, a pointer per process, times of loading | CLOCK, CLOCK-M | order of frames against the pointer, loops without a bound | the victim is the one the algorithm names, the loops end, modified pages are written |
| Addresses (`cpu.c`, `memoria.c`) | none | split of a logical address, numbering of pages, frames and bytes | integer division, two numberings of one table | an access touches its own page only |
| Serialisation (`clientServ.c`, `utils*.c` of each program) | none across calls | `send`/`recv` of instructions, PCBs and requests, field by field | four copies of the code and no common header | what is read is what was written |
| Sockets and handshakes, scripts, configuration, start-up | none across calls | opening of sockets, file reading | none modelled | out of scope, see below |

Interactions: a console sends its instructions and waits; the kernel sends a PCB
on the dispatch socket and an INTERRUPCION on the interrupt socket, and reads the
PCBs the CPU gives back; kernel and CPU have a connection each to memory, served
by a thread each, in order. Inside the kernel threads share queues and
semaphores; inside the CPU a flag and a semaphore; inside memory, globals.

`PROJECT.json` lists under "hazards" each place where this can go wrong, with the
properties about it or the reason there is none yet.

## The modules

| Module | Models | Role |
|---|---|---|
| `CicloDeVida` | the seven-state diagram of a process | what the kernel promises |
| `Kernel` | `kernel.c` and the sending and receiving of `utils_kernel.c` | detailed model, properties, refinement to `CicloDeVida` |
| `MCKernel` | | small instances |
| `KernelProofs` | | inductive invariant and theorems |
| `KernelCuentasProofs` | | theorems that need counting (processes, answers, timers, places in memory) and the refinement to `CicloDeVida` |
| `ContratoCpu` | the kernel's expectation of the CPU | what the CPU promises |
| `Cpu` | both threads of `cpu.c` | detailed model, properties, refinement to `ContratoCpu` |
| `MCCpu` | | small instances, with their programs |
| `CpuProofs` | | inductive invariant, theorems, refinement |
| `Memoria` | both threads of `memoria.c`, the TLB and the three accesses of `cpu.c` | detailed model and properties |
| `MCMemoria` | | small instances |
| `MemoriaProofs` | | inductive invariant and theorems, with suspensions |
| `MemoriaFielProofs` | | inductive invariants and theorems about contents and frames |
| `Direcciones` | the arithmetic of addresses, tables, frames and bytes | operators of `Reemplazo` |
| `SegundaOportunidad` | the textbook's CLOCK | what the replacement promises |
| `Reemplazo` | `reemplazo_clock`, `reemplazo_clock_modificado` and the access that causes them | detailed model, properties, refinement to `SegundaOportunidad` |
| `MCReemplazo` | | small instances |
| `ReemplazoProofs` | | inductive invariants and theorems, and those of `Direcciones` they rest on |
| `Mensajes` | the codes and the layout of every message that carries data | operators of `Consolas` and `Reemplazo` |
| `MensajesProofs` | | what one program writes is what the other reads |
| `Consolas` | `consola.c`, the accept loop and `atender_consola`, the way of a PCB through the programs | detailed model and properties, composing the four programs through their messages |
| `MCConsolas` | | small instances, with their scripts |
| `ConsolasProofs` | | inductive invariant and theorems |

Definitions keep the names of the source where TLA+ allows it. Definitions whose
comment starts with "Variant:" are not part of the models: each is a plausible
mistake in the definition that follows, used to make sure that the properties
notice it.

### Kernel

One variable per queue, a record `sem` with the value of each semaphore, a
program counter `pc[t]` per thread and the process `en[t]` it holds. A step is
what a thread does between two points where another may see or disturb it: a
semaphore operation, a critical section, a message, an access to shared data
outside a mutex. `pasar_a_ready`, called by four threads, is a sequence of steps
(`Encolar`, `PedirTabla`, `RecibirTabla`, `Interrumpir`, `PostReady`) that any of
them may be in. Details that matter and are kept:

* The push to `ready` comes before the table number and the post after it
  (`kernel.c:503-520`); the number read is stored in the struct the thread holds,
  which may no longer be the live one (`viejo`).
* Answers of memory wait on the shared connection in the order of the requests,
  and whoever reads takes the first. Table number 0 and a confirmation are the
  same integer.
* `ejecutando` is set after the PCB is sent (`kernel.c:492-493`).
* `esta_en_lista_bloqueados` reads the length first and each element later;
  past the end it dereferences NULL, which is `caido`: the process has crashed and
  nothing happens after it.
* The blockings are numbered by `contador_bloqueo`, and each has its own
  `esperar_y_suspender` thread in `bloqueos[b]`. `primero` is history: the head of
  `blocked` when the timer fired. As the ids in the list are consecutive, it tells
  whether the blocking was still there (`Estaba`).

Abstracted: times (an I/O ends, and a timer fires, at any moment; with
`Expiran = FALSE` no blocking lasts as long as the timer), estimates (a new burst has
any of `Estimaciones`, shorter or longer than `EstimacionInicial`; an interruption leaves
what there was or less, below 0 too, as `kernel.c:288` has no floor), instructions, logs.
`Consolas` has the formula.
List and queue operations are atomic, also the two that the code leaves outside
its mutexes (`kernel.c:147`, `kernel.c:341`): a torn operation of the commons
library is undefined behaviour and not modelled. A console is one arrival:
`Consolas` has its steps.
The CPU gives back each PCB once; `Cpu` says when that is so.

### Cpu

`pcDisp` follows the dispatch thread through the `for` of
`recibir_operacion_dispatch`: `recibir`, `ejecutar` (decode, fetch_operands,
execute), `check` (check_interrupt), `decidir` (the `if` of line 147), `limpiar`
(149), `post` (150). `pcInt` follows the interrupt thread. The flag is a plain
bool: each reading and writing is a step. The kernel is its side of the
contract: it sends a PCB only with none outstanding, and may send an INTERRUPCION
at any moment after the first PCB, also when the CPU is idle, because `ejecutando`
may be stale. `ejecutadas` is a history variable: the number of instructions of
each process executed so far.

### Memoria

An access of the CPU is a sequence of steps in `pcCpu`: the TLB and the first
access (`IniciarAcceso`), the question of lines 734, 747 and 761 (`MirarSwap`) and
perhaps its `sem_wait` (`EsperarSwap`), the page found, given a frame or put in the
place of another (`BuscarPresente`, `AsignarMarco`, `ElegirVictima` and, after the
time the disk takes, `CargarPagina`), the question again, and the reading or
writing. `pcK` follows `atender_kernel`; a suspension is one step per page written
(line 190), then what is done with the table of the global (199), the frames (827),
the post (829) and the confirmation (833), with the CPU's thread between any two.

Contents are abstracted to currency: `vigente[p, x]` are the frames that hold the
last written content of page x of p, and `enSwap[p]` the pages whose copy in the
swap file is current. A write makes its frame the only current copy (or leaves none,
if the frame did not have the rest of the page); a load makes a frame as good as
the file, and spoils what it held. So "reads what was last written" is that the
frame is in `vigente`.

Abstracted: the two levels of tables are one, and offsets are left out
(`Reemplazo` has both); the victim is any page present, which includes the one the
algorithms of `Reemplazo` choose; the entry a full TLB gives up is any. A COPY is a
reading and a writing. A process is named by
its table number, and its id is the same number, as the code also assumes (the id
names the swap file when it is created and the table number when it is used). An
operation on the bitmap is atomic. The kernel is reduced to the life of a process
and the degree of multiprogramming; that the confirmation may come late is kept, as
`Kernel` shows that it happens.

### Direcciones, Reemplazo and SegundaOportunidad

`Direcciones` is the arithmetic: what the CPU makes of a logical address, the
numbers memory gives to the pages of its tables, the frames its bitmap has (with
`cantidad_paginas / 8` an integer division before `ceil`) and the bytes a read or a
write touches. `Reemplazo` follows one process: a logical address, the TLB or the two
accesses (with the messages of `Mensajes`), `page_fault`, and then CLOCK or CLOCK-M
one look at a frame per step, with the loops' own variables (`paginas`,
`indice_puntero`, `i`), the list sorted anew by `tiempo_carga`, the pointer kept as a
frame and looked up in that list, and the bits as the loops set and clear them. Times
are in seconds as `time(NULL)` gives them; what is loaded within a second is
ordered in any way, as `list_sort` leaves it.

`SegundaOportunidad` is the textbook: a circle of pages and a hand. With two frames
CLOCK implements it (`ImplementaReloj`). With three it does not: a replacement does
not renew the time of loading, so the page that comes takes the place in the list of
its earlier stay, and not the place behind the hand. What holds with any number of
frames is said of one search (`VictimaExacta`: the victim is the first, from the
pointer on, of the best class of bits as the search found them), of the page loaded last
(`RecienCargadaQueda`) and of the pointer (`PunteroPropio`). With one frame per process
the page loaded last is the only candidate.

Two boundaries show here. The division before `ceil` loses up to seven frames and
never gives one that memory has not; a `ceil` of the true quotient would
(the mutant of `AccesoEnSuPagina`). And the check of an offset looks at the
first of four bytes (`memoria.c:639`): `AccesoEnSuPagina` is about aligned addresses;
an access to the last bytes of a page reaches into the next frame.

### Mensajes and Consolas

`Mensajes` gives the enumerations of the four programs and, for each message that
carries data, what its sender writes and what its receiver reads, cell by cell, each
translated from its own copy of the code. `Consolas` uses them: a console connects,
sends its program and waits; `main` accepts into the one global
`conexion_consola`; a thread `atender_consola` reads that global three times, reads the
message field by field, numbers the process and queues it; the process goes through
admission, memory's tables and files, SRT's estimates, the CPU, I/O and EXIT; the
kernel answers on the socket it has kept. The console sends its message with one
`send()` (`utils.c:56-61` of consola), so it is there whole or not at all. A console may be killed after it has
connected. What follows is what the code does: `recv` on a closed socket gives -1 and
leaves a variable as it was, an uninitialised `proceso` (`kernel.c:166`), a
buffer that was never received or a destroyed log is a crash or not, the answer to a
console that has gone is lost, and one more `send` to it ends the kernel with SIGPIPE
(`caido`). Programs are the lists a script gives; one without EXIT is dropped by the CPU
at its end.

Three threads call `pasar_a_ready` here: the long-term scheduler, the I/O device and the
listener (`PasanAReady`). Each takes its process off one queue and pushes it on `ready`
in one step (`PasarAReady`), then asks for a table if it has none (`PedirTabla`) and reads
the first number on the shared connection (`RecibirTabla`), whoever asked for it; only
then come the posts. In between the scheduler, woken by another post, may send the
process without its number (`apurado`); what is then read goes into a struct that is no
longer queued (`lugar` is 0), and the process asks again when it comes back. The CPU
sees an interruption after any instruction, in `check_interrupt` (`CpuInterrumpe`) or only
in the `if` after it (`CpuPierde`: nothing is sent, `perdido`). Where the interruptions
come from, and suspensions, are left out: `Kernel` and `Cpu` have them.

A NO_OP without an operand makes the kernel read beyond its text
(`utils_kernel.c:121`); what `atoi` makes of what is there is any of `Repeticiones`.

## The runs

| Run | Instance | Shows |
|---|---|---|
| `kernel_srt` | SRT, 2 processes, degree 2, 1 blocking, timers | types, one token, conservation of processes, legal arcs |
| `kernel_suspension` | FIFO, 3 processes, degree 1, 2 blockings, timers | semaphores equal queues, an answer for each reader of memory, a timer that fires late suspends nothing and one that fires in time misses its blocking only if the list shifts under it, the kernel implements `CicloDeVida`, whose degree is exceeded only by late suspensions |
| `kernel_termina` | FIFO, 2 processes, degree 1, 2 blockings, timers, fairness | every process ends unless the kernel crashes |
| `kernel_tabla` | FIFO, 3 processes, degree 2, no timers | counterexample: a process gets the table of another |
| `cpu_interrupciones` | 3 programs, 0 to 4 interruptions, fairness | one copy of each PCB, instructions in order, the interrupt thread is released, safety of the contract, and every PCB comes back but for the one race of `cpu_pierde` |
| `cpu_pierde` | the same, 1 interruption | counterexample: a PCB is lost between the two readings of the flag |
| `memoria` | CLOCK, 3 processes, degree 2, 2 pages and 1 frame each, a TLB of 1 entry, no suspensions | each access reaches its page, nothing written is lost, frames are neither shared nor leaked, there are always enough |
| `memoria_solo` | CLOCK-M, 1 process, 3 pages and 2 frames, 2 suspensions | the same through replacement, suspension and return; nobody waits on `swap`; and types in whatever follows an early return |
| `memoria_suspension` | CLOCK-M, 2 processes, 2 pages and 2 frames each, 1 suspension | counterexample: a suspended process keeps pages present |
| `reemplazo` | CLOCK and CLOCK-M, 2 and 3 frames, 2 by 2 pages of 8 bytes in 76 bytes of memory, 4 addresses | the victim is the textbook's, searches end, the pointer stays with the frames, an access never leaves its page, CLOCK on two frames implements the textbook's |
| `consolas` | 2 consoles with their programs, 1 interruption, 1 console killed, fairness | PCBs survive the sockets, answers go to their console, ids name one swap file each, also when a table number comes after its process was dispatched, every console is answered unless a connection is accepted too early or the CPU loses a PCB |
| `consolas_cruzadas` | the same | counterexample: a console is told of the end of another's program |

Bounds. `MaxBloqueos` bounds the I/O instructions executed in all and
`MaxInterrupciones` the interruptions. Two blockings are enough for one process
to block twice (the case `id_block` is for) and for two processes to queue at the
device; degree 1 makes every suspension admit another process; three processes
put one in each of `new`, `ready` and `blocked` or `susp_ready`. Two processes are
enough for SRT to have a choice and a process to interrupt. Four interruptions
outnumber the returns of a program, so some arrive when the CPU is idle.
Where the safety properties allow it, processes are symmetric.

For memory, two frames and three pages are the least with which a page is replaced
while another stays; two processes in memory and a third that takes the frames of
the first to end show whether frames travel well; the second suspension finds
what the first has left behind (frame numbers, bits, posts of `swap`). The frames are
as many as degree and frames per process need, so that one leaked is missed.
Processes and pages are symmetric.

For the replacement, four pages in two tables make both levels of the numbering
matter; four pages over two or three frames replace each and bring it back, which is
where the order by time of loading and that of the textbook part. Memory of 76
bytes has nine pages and a bitmap of one byte: eight frames, the ninth lost; the
other processes have the frames below, so that this one gets the last that the
bitmap has. The
addresses are the first bytes of two pages and bytes in the middle of two.
`MaxSegundos` and `MaxSuspensiones` bound the seconds that pass and the suspensions: one of
each with two frames. With three no second passes, and `list_sort` may then leave the
pages in any order, which includes those that seconds would impose.

For the consoles, two are the least that can cross. Their programs have an I/O
between two bursts, a NO_OP with and without an operand and an EXIT. Bursts last 6
(`Duraciones`) with an initial estimate of 4: an interrupted one leaves less than
nothing, and the estimate of the next is longer than the first. Without an operand a
NO_OP is made into one or two (`Repeticiones`). The instance has 185 375 states; in it a
process is dispatched without its number, the I/O thread and the listener ask for one
again, and two numbers wait on the connection.

The kernel with SRT starts with an estimate of 0 and takes new ones below and above it
(`MenosOMas`): an estimate that is less than nothing wins over a new process, and one
above loses. The other runs of the kernel are FIFO, which looks at no estimate.

Deadlock is checked for the kernel: the only states without another step are
those where everything has ended or the kernel has crashed (`Reposo`). It is not
checked for the CPU, whose servers wait for ever when the kernel has no more
to send, nor in the runs of memory with suspensions, where the system does stop
(a wait on `swap` that nobody ends, below), nor for the consoles, which end; in
`memoria` and `reemplazo` it is.

### Fairness

`Kernel!Equidad`: weak fairness for every thread, as the operating system's
scheduler gives. Strong fairness for the two `sem_wait` on `multiprogramacion`:
the long-term scheduler takes and gives back that semaphore in a loop while a
process is in `susp_ready` (`kernel.c:546-560`), so the desuspendidor sees it
available again and again and not continuously. POSIX does not promise it the
semaphore, a futex that wakes its waiters gives it in practice: liveness here
rests on that assumption. Strong fairness for a process that is dispatched again
and again to reach its next I/O or EXIT: each dispatch executes an instruction
before looking at the flag, and programs are finite. `Cpu!SpecJusta`: weak
fairness for both threads and for the kernel's listener, nothing for the kernel's
scheduler. `Consolas!Equidad` is one condition, weak fairness of the union of the kernel,
the CPU and the consoles that wait: something is done while there is something to do. It
is implied by weak fairness of each thread, and is enough because no thread can run for
ever. Nothing makes a console connect or send.

`TodosTerminan` is checked with FIFO only: with SRT the CPU may lose a PCB
(`cpu_pierde`), and then nothing is promised. `TodasRespondidas` is with SRT and says
just that: a console is answered, unless a PCB has been lost in that way (`perdido`) or
a connection was accepted too early.

## What the counterexamples say

* **`kernel_tabla`.** p1 is pushed to `ready` and its thread is about to ask for
  its table when the scheduler, woken by a post that belongs to another process,
  dispatches p1 with `tablas_paginas = -1`. When p1 blocks and comes back the
  number is asked for again, by another thread, and the two answers cross.
  `kernel.h:76` says the number is the one "asociado al proceso".
* **`cpu_pierde`.** `check_interrupt` reads false, the interrupt thread sets the
  flag, the `if` of line 147 reads true: the loop is left and the PCB is not
  sent. The kernel never gets its token back.
* **`memoria_suspension`.** p2 is the last the CPU translated for when memory
  suspends p1. p1's modified pages go out; then `encontrar_paginas_en_memoria` gives
  the pages of p2 (`memoria.c:199`), and those become absent, with what p2 wrote in
  them unsaved. p1 is confirmed with its other pages present in frames that are free.
  With the same instance `CopiaVigente` and `MarcosExactos` fail too.
* **`consolas_cruzadas`.** The thread of console 2 has read its operation and its
  process from `conexion_consola` when console 1 is accepted; it reads the global once
  more, for the socket to answer to, and stores that of console 1. When the program of
  console 2 ends, console 1 is told RESPUESTA_EXITO. `kernel.h:69` says the answer goes
  to the console "que lo haya solicitado". In the same way two threads that are between
  taking an id and incrementing it number two processes alike, which then share a
  swap file: `SwapPropio` holds while that does not happen. It says that a process with
  a table number has an id and a swap file of its own. That the number is the id too,
  as memory assumes, it says only of executions in which no process was dispatched
  before its number had come: without `apurado` it fails, in the way of `kernel_tabla`.

Not kept as runs. `SinEsperas` says that the CPU's thread never waits on `swap` while no
process comes back before memory has confirmed its suspension. When one does, it may
wait for ever: the I/O of a process ends while memory suspends it, and it runs; the
CPU's thread waits at the second access, the post lets it go on, and at the third it
finds `id_a_suspender` not cleared yet and waits again; there is no other post. The
window is the three lines from 830 to 833. In other interleavings of such a process
memory writes through a frame that has just been taken away (`EscribirSinPagina`), or asks
for a frame when none is left (`AsignarSinMarco`), also because a post is left over from
an earlier suspension and the wait is no wait; `memoria_solo` reaches both.

Easily seen by changing a constant. With `EntradasTlb = 2`
(`cpu/configs/integral.config:1` has 2, others 4), `AccesoPropio` fails in
`memoria_solo` without suspensions: x and y are in the TLB, z replaces y, and the
next access to y hits the TLB and reads z. With two processes and
degree 1, `MarcosExactos` fails: a page keeps the number of the frame it had before
its process was suspended, another process gets the frame, and the end of the first
frees it under the second.

The degree of multiprogramming is not always respected either: the timer finds the
process in `blocked`, its I/O ends and it goes to `ready`, and the confirmation that
arrives then frees a place (`kernel.c:388`). `GradoExacto` says that this is the only way:
the excess is exactly the number of such late suspensions.

## What is proved

TLAPS checks all of this for any set of processes, any degree, either algorithm,
with or without timers and for any number of blockings, programs and
interruptions, from the named assumptions `ConstantesOK` of each module.

`KernelProofs`. The inductive invariant is
`IInv == TypeOK /\ Punteros /\ SemaforosExactos /\ ExclusionCpu`. No conjunct is
inductive alone: that a pop leaves a sequence of the right type needs an element
to pop (`SemaforosExactos`), the semaphores need the types and the threads' places,
the threads' hands (`Punteros`) need both, and `ExclusionCpu` counts the token of
`sem_planificacion` through scheduler, CPU and listener. One lemma per action, each
in the same order: what happens to program counters, semaphores, queues and counts
of threads, then the four conjuncts. Theorems: `TipoCorrecto`, `PunterosValidos`,
`TestigoUnico`, `CpuParaUno`, `SemaforosCuentan`, `NuncaPopVacio`.

`KernelCuentasProofs` counts. How many elements of a queue are a given process changes
by one with a push, a pop or a removal in the middle (`CuantosAgregar`,
`CuantosQuitar`, `CuantosCola`), and the set of threads at a place changes by one with a step
of one of them (`CambiaUno`). `Conservacion` is then inductive with `IInv` and `Servido`,
which says that the I/O device serves the head of `blocked`: without it the pop after the
usleep could take another blocking off the list. That a process ends once is a
consequence: it was in one place, with the listener. `RespuestasExactas` is inductive
with `IInv`. `BusquedaExacta` follows from `Miradas`: the ids in `blocked` grow (the
listener appends the next one, the device takes off the first), so that one below the head
is over and never listed again, and while the head is the one there was when the timer
fired a scan that has come to i has seen every blocking before it.
Theorems: `UnSoloLugar`, `RespuestasJustas`, `TemporizadorExacto`.

`TablaPropia`, which `kernel_tabla` refutes, is proved there from one hypothesis about
behaviours, `UnaRespuesta`: never two answers on the socket of memory. What a request
is worth is known from the time it is sent (its answer is the only one there can be), and a number that
was stored stays its owner's (`TablaPropiaDeAUna`). So requests that overlap are the whole
cause. The other three runs that expect a violation have their cause isolated in the
same way: `SoloLaCarreraPierde`, `SuspendidosFuera` and the premise of
`ConsolasRespuestaPropia`.

The same module proves that the kernel implements `CicloDeVida`. The state of a process
is read off the queues and the hands of the threads (`Estado`); because of `Conservacion`
a process is in exactly one of eight classes (`ClaseUnica`), so that a step that moves it
from one class to another leaves no doubt about the state. `EInv` adds `Pendientes` to the
invariants above: what each blocking says of itself (`salida`, `suspendido`) agrees with
the device and the list. Then `EfectoPaso` says of every action that it moves at most one
process, along one arc, and what it does to the free places and to the late suspensions
(`Efecto`). From it follow the invariant `Cuadra`, free places and processes in memory
make up the degree plus the late suspensions, and the steps of the refinement. Theorems:
`GradoCuadra`, `SigueLosArcos` (the diagram, for ever) and `CumpleElCiclo` (with the degree,
until the first late suspension).

`CpuProofs`. The inductive invariant is
`IInv == TypeOK /\ EnCurso /\ UnaSolaCopia /\ EnOrden`. `UnaSolaCopia` carries the
argument: in `decidir` the PCB is in the hands of the loop exactly if the flag is
clear and the instruction was neither I/O nor EXIT, so that a PCB that was sent is
never executed again; that also makes visible how one may be lost (the flag set
just then makes the count 0, never 2). `Pendiente` adds what a PCB off the CPU waits
for: `Quedan`, an instruction is left or its EXIT is on its way. With it
`SoloLaCarreraPierde` says of `cpu_pierde` that nothing else loses a PCB: `SinPerdidos` holds of every
behaviour that never reaches `Carrera` (the flag set between the loop's two readings
of it, with the PCB not sent). Theorems: `TipoCorrectoCpu`, `CopiaUnica`,
`InstruccionesEnOrden`, `QuedanInstrucciones`, `SoloLaCarreraPierde`, and `CumpleContrato`: every step is a step of
`ContratoCpu` or a stutter.

`ReemplazoProofs`, for any number of pages, frames and addresses, either algorithm,
any seconds and suspensions (`ConfiguracionOK`). The first invariant is
`IInv == TypeOK /\ Repartidos /\ EnCurso /\ EnBusqueda /\ PunteroPropio`: the process has
no more frames than are its due and each page its own, CPU and memory agree on the
page of the access, and a search works on an order of the pages present. From it
`TipoCorrectoReemplazo`, `PunteroEnSuMarco`, and, if a page holds whole words,
`AccesosEnSuPagina`, which rests on the arithmetic of `Direcciones` for any sizes of page,
table and memory (`TamaniosOK`): a logical address has a page of the process and an
offset inside it, the two entries the CPU sends lead memory back to that page
(`IdaYVuelta`), every frame of the bitmap is inside user memory (`MarcoEnMemoria`) and
four aligned bytes stay in one frame. The second, `Rondas`, says for each loop which bits it has
cleared so far, counted in looks from the pointer on: pages seen in CLOCK were all
used; in CLOCK-M a first round that goes by means that no page is unused and
unmodified, and so on. From it `BuclesTerminan`, as the last round finds all bits
clear, and `VictimaDelTexto`. `Reciente` adds that the page CLOCK loaded last is used and
not at the pointer, from which `NoSaleLaRecienCargada`, if each process has more than one frame.

`CumpleElReloj` is the refinement, for CLOCK on two frames. The circle of
`SegundaOportunidad` is read off the state as the page at the pointer and the
other one. While a search goes on the used bits are those from before it, so that the
looks are stutters and the choice is one step. What that step needs, which
pages were seen used, is what `Rondas` keeps.

`MemoriaProofs`, for any processes, pages, frames and TLB and any number of
suspensions. The invariant is `IInv == TypeOK /\ EnCurso /\ Orden /\ SinEsperas`:
one process executes, and the access under way is its; at most one request to suspend
or to start is pending for each process, and it agrees with where the kernel has it.
`NadieEspera` follows: while the process that is being suspended has not come back,
it does not execute, so the access under way is of another, whose table the global
names. Theorems: `TipoCorrectoMemoria`, `NadieEspera`.

`SuspendidoFuera` is the property that `memoria_suspension` refutes, and the module says
what exactly is missing. `SuspendidosFuera` proves it from the one hypothesis
`DescartaElSuyo`: each time the pages of a process are discarded the global
`numero_de_tabla_primer_nivel` names that process. The invariant `Fuera` carries it: from
the discarding until it is back in `ready` a process has no page present, and nothing in
between gives it one. The hypothesis is about behaviours, not constants; with one
process, as in `memoria_solo`, it is itself proved (`SuspendidoSolo`), and in
`memoria_suspension` it is what fails.

`MemoriaFielProofs` adds `Fiel`: no two pages in use share a frame, the frames of the
bitmap are those of the pages present of the processes not yet released and those a
suspension has still to free, each page is current in its frame or else in the swap
file, marked if only in its frame, and what the CPU holds agrees with the tables.
While a process is being suspended, what is left to write are its marked pages, and
when its frames are freed it has no page present (`EnSuspension`). As the properties do,
it holds up to a return before the confirmation (`Promesa`).

`Fiel` is not inductive for every value of the constants, since the properties are then
false; the proof says why. Each step keeps it unless the step is one of three, whose
absence is `NadieEstorba`:

* `DescartaElSuyo` fails: a suspension discards the pages of the process that the global
  names (`memoria.c:566`).
* `LiberaLoSuyo` fails: `liberar_marcos_proceso` gives back the frame of every page,
  absent ones too (`memoria.c:622-636`), and one of those numbers is by now the frame of
  a page of another process.
* `TlbPresente` fails: a page is replaced while the TLB has it (`cpu.c:366`).

`FielSiNadieEstorba` proves the four properties of the contents and the frames, for any
processes, suspensions and TLB, from that hypothesis about behaviours; in the
counterexamples above it is what fails. For `EntradasTlb = 1` and `Aislado` (no suspensions, or one process,
suspended any number of times) the hypothesis is itself proved, since a page that has
left keeps then the number of a frame its own process has (`MarcoPresente`), or there
is no other process; that gives `LecturaFiel`, `NadaSePierde`, `BitSuficiente` and
`MarcosSinFugas` with no hypothesis on the behaviour.

The quota comes in two parts. `CuotaSiempre` has no hypothesis: no process ever has more
pages present than its due. Between the choice of a victim and the load a suspension may
discard the pages of that process, so its invariant, `Sitio`, says that there is room for
the page whether or not its victim is still there. `CuotaSiNadieEstorba` proves
`CuotaRespetada`, that is, also that a page that needs a frame finds one. Its
invariant `Holgura` counts the processes that would hold frames once memory had
answered the first k requests that wait, for every k (`Turnos`): never more than the
degree, because a process that has ended counts until its FINALIZACION_PROCESO is
answered and its successor only after its own INICIO_PROCESO, which is behind it on the
socket. The frames that are taken and belong to no page any more (`Deuda`) are those that
a suspension has still to free, and with the pages its process has left they are within
its due (`Saldo`). So the pairs of process and frame are
numbered with fewer numbers than there are frames, and `SinFugas` says that the
bitmap has no frame but theirs. TLC refuted the first form of the theorem: a
suspended process is admitted again without a message to memory (`kernel.c:424`), in the
place of one that has just ended and whose FINALIZACION_PROCESO, sent before
(`kernel.c:297`) and never answered, memory has still to read; it asks for a frame and
none is free. `ReadmiteSinDeudas`, the second hypothesis, excludes that race, and
the theorem shows that no other is left. `SiempreHayMarcos` has no hypothesis on the
behaviour: for a TLB of one entry and `Aislado` both are proved.

`MensajesProofs`, for any PCB and any instructions, of any lengths. The four copies of
the serialisation agree: `InstruccionesDelStream` (what `cargar_buffer` packs is what
`recibir_instrucciones` unpacks), `PcbLlegaALaCpu`, `PcbVuelveAlKernel` and
`BloqueadoVuelveAlKernel` (the reader gets the record that was written and takes exactly
its cells, so the next message begins where it ends). The reader's loops are recursive
functions over the cells. The prover has no induction with an operator as a parameter, so
what they compute is proved by a least counterexample: the first instruction (or cell)
where the reader would go wrong exists because the naturals are well founded
(`Subiendo`), and the one before it leads to a contradiction.

`ConsolasProofs`, for any number of consoles, any programs, estimates and durations. `Inv`
is `Bien /\ CuentaBien /\ ConexionesBien /\ PropioBien /\ IdsBien`, because each property
needs the ones before it. `Bien` gives every variable its type and each PCB of a queue what
it must satisfy: it has not passed an EXIT and what is left of its burst is exact. In it
`PasaBien` says of a thread inside `pasar_a_ready` which struct of `ready` it is about to
write in, through the pops before it, and `TestigoBien` that of the scheduler's semaphore,
the dispatch socket, the CPU and the listener only one has the PCB, and that the cells on
the socket are exactly its message, so that `MensajesProofs` tells what is read.
`CuentaBien` relates `new` to its semaphore. `ConexionesBien` says that a connection is
accepted once, after its console has connected. `PropioBien` holds until a connection is
accepted too early (`cruzada`): a thread that has read part of a message has the rest
before it, and each PCB has the instructions of the console on its socket. `IdsBien` holds
while also no two threads take their ids at once (`solapada`), and is said of a number n,
the processes admitted so far. `NumeroBien(n)` numbers those in `new` and in the threads
from n on. `SwapBien(n)`: nobody in `ready`, `blocked`, on the sockets or in the CPU shares an
id, all are below n, and one that has its number, or whose thread has asked for it, has
its file. `OrdenBien(n)`, until the first process is dispatched without its number: only
the long-term scheduler asks, one at a time, so the numbers come in the order of the ids.
Those conditions are the premises of the properties; `consolas_cruzadas` shows that the
first is needed.
Theorems: `Invariante`, `ConsolasTypeOK`, `ConsolasLlegaEntero`,
`ConsolasRestanteExacto`, `ConsolasRespuestaPropia`, `ConsolasSwapPropio`.

Only model-checked: liveness (`TodosTerminan`, `InterruptDespierta`, `DevuelveOPierde`,
`TodasRespondidas`), which is beyond the prover. Every other property of a passing run,
the three refinements included, is stated by a theorem. Of `Memoria` with several
processes and suspensions, the types, `SinEsperas` and `CuotaSiempre` are proved
without a hypothesis on the behaviour, and most of the rest is false without one.

## Not modelled

* Torn operations of the commons lists and queues (see Kernel) and of the bitmap.
* Sends and receives of part of a message: a message arrives whole and in order (a console
  killed before it sends leaves a socket that ends, which `Consolas` has). A
  connection breaks only between a console and the kernel; no part of the code
  recovers from the loss of another.
* Opening of sockets, the handshake of CPU and memory and start-up: the programs are
  started by hand, one after the other (`consola.c:2-6`). Both threads of memory accept
  on one socket, and its main joins `hilo_kernel` before `atender_cpu` has
  created it (`memoria.c:696`): what order that needs is not modelled.
* Which entry a full TLB gives up, FIFO or LRU by the second: any, in `Memoria`.
* Reading of scripts and configuration, logging, shutdown (not reached).

## Plan

In this order, with what each adds:

1. `CicloDeVida`, `Kernel`: done. 2. `ContratoCpu`, `Cpu`: done. 3. `Memoria`, with the TLB:
   done.
4. `Direcciones`, `SegundaOportunidad`, `Reemplazo`: done, with their proofs.
5. `Mensajes`, `Consolas`: done.
6. Not planned any more: an abstract specification of memory. The contents are already
   abstracted to which copy is the last one written, so that `AccesoPropio` and
   `CopiaVigente` are what it would say.
7. Theorems: those of the kernel, the CPU, memory, the consoles and the messages, done.
