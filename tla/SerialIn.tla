----------------------------- MODULE SerialIn ------------------------------
(***************************************************************************)
(* Input from the serial line: the receive half of imx8mp_uart.c, the      *)
(* stdin half of vfs_serial.c, the buffers of a term (io/term/buffers.c),  *)
(* the descriptor tables (vfs/vfs.c) and read().                           *)
(*                                                                         *)
(* The line fills the receive FIFO of the UART.  Its interrupt, on         *)
(* SiIrqCpu, moves every character to the term of stdin, a chain of        *)
(* buffers that only read() empties.  A critical section of the term lock  *)
(* is one step.  A character is a number, the count of those before it.    *)
(***************************************************************************)
EXTENDS Integers, SequencesExt, FiniteSetsExt

CONSTANTS SiCpus, SiIrqCpu,
          SiTasks,        \* tasks that may be created, each with a table
          SiFifo,         \* RX_FIFO_SZ
          SiPage,         \* PAGE_SIZE
          SiHeader,       \* sizeof(term_buffer)
          SiFds,          \* descriptors given to read()
          SiCounts,       \* lengths given to read()
          SiChars         \* bound on the characters the line delivers

VARIABLES
    si_boot,     \* "reset", "io" after io_init, "vfs" after vfs_serial_init
    si_uart,     \* receive FIFO, irq_cache/RRDYEN bit and notify handler
    si_term,     \* in_data.term.buf_
    si_files,    \* task -> descriptor table
    si_cpu,      \* CPU -> what it is doing
    si_arrived,  \* number of characters the line has delivered
    si_kept,     \* those the FIFO had room for since io_init
    si_taken     \* those read() has removed from the term

siVars == <<si_boot, si_uart, si_term, si_files, si_cpu, si_arrived, si_kept, si_taken>>

---------------------------------------------------------------------------
(* The buffers of a term.  A handle is the chain of buffers from head_buf  *)
(* to tail_buf, with the two counters the code keeps beside it.            *)

NoTerm == [chain |-> <<>>, size |-> 0, allocated |-> 0]

alloc_tail(h, size) ==
    [h EXCEPT !.chain = Append(@, [buf_size |-> size - SiHeader, head |-> 0, tail |-> 0, buf |-> <<>>]),
              !.allocated = @ + size]

free_head(h) ==
    [h EXCEPT !.allocated = @ - (Head(h.chain).buf_size + SiHeader), !.chain = Tail(@)]

TailIsFull(h) == h.chain = <<>> \/ Last(h.chain).tail >= Last(h.chain).buf_size

term_buffer_push(h, c) ==
    LET g == IF TailIsFull(h) THEN alloc_tail(h, Max({SiPage, h.allocated})) ELSE h
        n == Len(g.chain)
    IN  [g EXCEPT !.chain[n].buf = Append(@, c), !.chain[n].tail = @ + 1, !.size = @ + 1]

(* A bug: the copy starts at the first character of the buffer. *)
PopFromHeadFromStart(r, n) ==
    LET head == Head(r.term.chain)
        take == Min({head.tail - head.head, n - Len(r.out)})
        cut  == [r.term EXCEPT !.chain[1].head = @ + take, !.size = @ - take]
    IN  [term |-> IF head.head + take = head.tail THEN free_head(cut) ELSE cut,
         out  |-> r.out \o SubSeq(head.buf, 1, take)]

(* One turn of the loop of term_buffer_pop_n, which takes at most n        *)
(* characters of the head buffer.                                          *)
PopFromHead(r, n) ==
    LET head == Head(r.term.chain)
        take == Min({head.tail - head.head, n - Len(r.out)})
        cut  == [r.term EXCEPT !.chain[1].head = @ + take, !.size = @ - take]
    IN  [term |-> IF head.head + take = head.tail THEN free_head(cut) ELSE cut,
         out  |-> r.out \o SubSeq(head.buf, head.head + 1, head.head + take)]

RECURSIVE PopLoop(_, _)
PopLoop(r, n) == IF Len(r.out) < n /\ r.term.size > 0 THEN PopLoop(PopFromHead(r, n), n) ELSE r

term_buffer_pop_n(h, n) == PopLoop([term |-> h, out |-> <<>>], n)

(* What the chain holds, first character first. *)
TermContents(h) ==
    FlattenSeq([i \in DOMAIN h.chain |-> SubSeq(h.chain[i].buf, h.chain[i].head + 1, h.chain[i].tail)])

---------------------------------------------------------------------------
(* Descriptor tables: descriptor -> the operations its file has. *)

VFS_OK == 0
VFS_ERR_BADF == -1
VFS_ERR_NOSUP == -3
VFS_ERR_INVAL == -4

vfs_bind(table, fd, ops) ==
    CASE fd < 0             -> [res |-> VFS_ERR_INVAL, table |-> table]
      [] fd \in DOMAIN table -> [res |-> VFS_ERR_BADF, table |-> table]
      [] OTHER -> [res |-> VFS_OK, table |-> [f \in DOMAIN table \cup {fd} |-> IF f = fd THEN ops ELSE table[f]]]

validate_descriptor_op(table, fd, op) ==
    CASE fd < 0                 -> VFS_ERR_INVAL
      [] fd \notin DOMAIN table -> VFS_ERR_BADF
      [] op \notin table[fd]    -> VFS_ERR_NOSUP
      [] OTHER                  -> VFS_OK

(* What syscall64_read and vfs_read return before the file is read. *)
ReadCheck(table, fd, count) ==
    CASE fd < 0     -> VFS_ERR_BADF
      [] count = 0  -> VFS_ERR_INVAL
      [] OTHER      -> validate_descriptor_op(table, fd, "read")

StdioTable ==
    LET in == vfs_bind(<<>>, 0, {"read"})
        out == vfs_bind(in.table, 1, {"write"})
    IN  vfs_bind(out.table, 2, {"write"}).table

---------------------------------------------------------------------------
(* The UART *)

RXTL == 1

(* A character arrives.  The FIFO drops what it has no room for. *)
SiArrive ==
    /\ si_arrived < SiChars
    /\ si_arrived' = si_arrived + 1
    /\ IF Len(si_uart.fifo) < SiFifo
       THEN /\ si_uart' = [si_uart EXCEPT !.fifo = Append(@, si_arrived)]
            /\ si_kept' = Append(si_kept, si_arrived)
       ELSE UNCHANGED <<si_uart, si_kept>>
    /\ UNCHANGED <<si_boot, si_term, si_files, si_cpu, si_taken>>

(* io_init: the UART is reset, its FIFO flushed, and its interrupts get a  *)
(* state in which no source is enabled.                                    *)
io_init ==
    /\ si_boot = "reset"
    /\ si_boot' = "io"
    /\ si_uart' = [fifo |-> <<>>, rrdy |-> FALSE, handler |-> FALSE]
    /\ si_kept' = <<>>
    /\ UNCHANGED <<si_term, si_files, si_cpu, si_arrived, si_taken>>

vfs_serial_init ==
    /\ si_boot = "io"
    /\ si_boot' = "vfs"
    /\ si_term' = NoTerm
    /\ UNCHANGED <<si_uart, si_files, si_cpu, si_arrived, si_kept, si_taken>>

(* A bug: the handler is stored, the interrupt stays disabled. *)
irq_notify_rxNotCached(u) == [u EXCEPT !.handler = TRUE]

irq_notify_rx(u) == [u EXCEPT !.handler = TRUE, !.rrdy = TRUE]

(* task_new on CPU c: vfs_serial_bind_stdio with interrupts masked. *)
vfs_serial_bind_stdio(c, t) ==
    /\ si_boot = "vfs" /\ si_cpu[c].at = "idle"
    /\ t \notin DOMAIN si_files
    /\ si_files' = [s \in DOMAIN si_files \cup {t} |-> IF s = t THEN StdioTable ELSE si_files[s]]
    /\ si_uart' = irq_notify_rx(si_uart)
    /\ UNCHANGED <<si_boot, si_term, si_cpu, si_arrived, si_kept, si_taken>>

---------------------------------------------------------------------------
(* The receive interrupt *)

At(c, l) == si_cpu' = [si_cpu EXCEPT ![c].at = l]

Rrdy == Len(si_uart.fifo) >= RXTL

(* RRDYEN is set with the bit of irq_cache, under one lock. *)
SiIrqTake ==
    /\ si_boot = "vfs" /\ si_cpu[SiIrqCpu].at = "idle"
    /\ Rrdy /\ si_uart.rrdy
    /\ At(SiIrqCpu, "rx")
    /\ UNCHANGED <<si_boot, si_uart, si_term, si_files, si_arrived, si_kept, si_taken>>

(* handle_RRDY and the loop of on_rx_ready: getc, until the FIFO is empty. *)
handle_RRDY ==
    /\ si_cpu[SiIrqCpu].at = "rx"
    /\ IF ~si_uart.handler \/ si_uart.fifo = <<>>
       THEN si_cpu' = [si_cpu EXCEPT ![SiIrqCpu].at = "idle"] /\ UNCHANGED si_uart
       ELSE /\ si_cpu' = [si_cpu EXCEPT ![SiIrqCpu] = [at |-> "print", c |-> <<Head(si_uart.fifo)>>]]
            /\ si_uart' = [si_uart EXCEPT !.fifo = Tail(@)]
    /\ UNCHANGED <<si_boot, si_term, si_files, si_arrived, si_kept, si_taken>>

(* term_printc on the term of stdin, whose output function takes nothing. *)
term_printc ==
    /\ si_cpu[SiIrqCpu].at = "print"
    /\ si_term' = term_buffer_push(si_term, Head(si_cpu[SiIrqCpu].c))
    /\ si_cpu' = [si_cpu EXCEPT ![SiIrqCpu] = [at |-> "rx", c |-> <<>>]]
    /\ UNCHANGED <<si_boot, si_uart, si_files, si_arrived, si_kept, si_taken>>

---------------------------------------------------------------------------
(* read() of a thread of t on CPU c, up to the copy to user memory. *)
syscall64_read(c, t, fd, count) ==
    /\ si_cpu[c].at = "idle" /\ t \in DOMAIN si_files
    /\ LET popped == term_buffer_pop_n(si_term, count)
       IN  IF ReadCheck(si_files[t], fd, count) = VFS_OK
           THEN /\ si_term' = popped.term
                /\ si_taken' = si_taken \o popped.out
           ELSE UNCHANGED <<si_term, si_taken>>
    /\ UNCHANGED <<si_boot, si_uart, si_files, si_cpu, si_arrived, si_kept>>

---------------------------------------------------------------------------
SiInit ==
    /\ si_boot = "reset"
    /\ si_uart = [fifo |-> <<>>, rrdy |-> FALSE, handler |-> FALSE]
    /\ si_term = NoTerm
    /\ si_files = <<>>
    /\ si_cpu = [c \in SiCpus |-> [at |-> "idle", c |-> <<>>]]
    /\ si_arrived = 0 /\ si_kept = <<>> /\ si_taken = <<>>

SiInterrupt == SiIrqTake \/ handle_RRDY \/ term_printc

SiNext == \/ SiArrive \/ io_init \/ vfs_serial_init \/ SiInterrupt
          \/ \E c \in SiCpus, t \in SiTasks :
                \/ vfs_serial_bind_stdio(c, t)
                \/ \E fd \in SiFds, n \in SiCounts : syscall64_read(c, t, fd, n)

(* A raised interrupt is taken when its CPU has it unmasked, and its       *)
(* handler runs to its end.                                                *)
SiFairness == WF_siVars(SiInterrupt)

---------------------------------------------------------------------------
(* Properties *)

(* What read() hands out, what the term holds, the character the interrupt *)
(* carries and the FIFO are, in this order, exactly what the line          *)
(* delivered: nothing is lost, doubled or reordered between on_rx_ready    *)
(* and concurrent readers (vfs_serial.c:72-75).                            *)
SiInOrder == si_kept = si_taken \o TermContents(si_term) \o si_cpu[SiIrqCpu].c \o si_uart.fifo

(* Once a task has bound stdin, a received character leaves the FIFO:     *)
(* the level-sensitive receive interrupt is never left disabled            *)
(* (imx8mp_uart.c:353-397).                                                *)
SiInputIsMoved == si_files # <<>> /\ si_uart.fifo # <<>> ~> si_uart.fifo = <<>>
=============================================================================
