----------------------------- MODULE SerialOut -----------------------------
(***************************************************************************)
(* Output of threads to the serial line: vfs_serial.c (stdout, stderr),    *)
(* io/term/term.c and the transmit half of drivers/serial/imx8mp_uart.     *)
(* write() hands characters to the UART until its FIFO is full and buffers *)
(* the rest in the term; a "transmitter ready" interrupt on IrqCpu sends   *)
(* what is buffered.  term_print_slice and term_notify_ready run under the *)
(* lock of the term; whether an interrupt is still needed is applied later *)
(* by handle_term_notify under another lock.  printf of the kernel polls   *)
(* the UART under a lock of its own (io_lock).                             *)
(*                                                                         *)
(* A character is a number; all characters written are different, so that  *)
(* order and loss can be seen.  System calls run with interrupts masked,   *)
(* so IrqCpu takes the interrupt only between them.                        *)
(***************************************************************************)
EXTENDS Integers, Sequences

CONSTANTS CPUS, NoCpu,
          IrqCpu,       \* the CPU the UART interrupt is routed to
          Uses,         \* which CPUs may print what, see use
          FifoSize,     \* TX_FIFO_SZ
          MaxLen,       \* bound on the length of one write
          MaxChars,     \* bound on the characters written altogether
          MaxKernel     \* bound on the characters the kernel prints

ASSUME SerialOutAssumption ==
    /\ IrqCpu \in CPUS /\ NoCpu \notin CPUS
    /\ Uses \subseteq [writers : SUBSET CPUS, printers : SUBSET CPUS]
    /\ FifoSize \in Nat \ {0}
    /\ MaxLen \in Nat \ {0} /\ MaxChars \in Nat /\ MaxKernel \in Nat

VARIABLES
    use,       \* the CPUs whose threads write and those whose kernel prints; never changes
    buf,       \* out_data.term.buf_
    tlock,     \* the CPU that holds out_data.term.lock_
    notify,    \* out_data.notify_enabled
    trdyen,    \* TRDYEN is set, irq_cache has TRDY and the handler is on_tx_ready
    fifo,      \* the characters of threads in the transmit FIFO
    kfifo,     \* how many characters of the kernel are in the FIFO with them
    iolock,    \* the CPU that holds io_lock
    pc,        \* pc[c]
    todo,      \* todo[c]: what write() has not handed on yet
    finished,  \* finished[c]: what handle_term_notify is called with
    wire,      \* history: the characters of threads the UART has sent
    accepted,  \* history: the characters term_print_slice took, in lock order
    printed,   \* history: how many characters the kernel has printed
    dropped    \* history: a character was written to a full FIFO

vars == <<buf, tlock, notify, trdyen, fifo, kfifo, iolock, pc, todo, finished,
          wire, accepted, printed, dropped, use>>

PCs == {"idle", "w_try", "w_put", "notify", "irq", "trdy", "n_lock", "n_try", "n_put", "k_try", "k_put"}

(* vfs_serial_init, irq_enable *)
Init ==
    /\ use \in Uses
    /\ buf = <<>>
    /\ tlock = NoCpu
    /\ notify = FALSE
    /\ trdyen = FALSE
    /\ fifo = <<>>
    /\ kfifo = 0
    /\ iolock = NoCpu
    /\ pc = [c \in CPUS |-> "idle"]
    /\ todo = [c \in CPUS |-> <<>>]
    /\ finished = [c \in CPUS |-> FALSE]
    /\ wire = <<>>
    /\ accepted = <<>>
    /\ printed = 0
    /\ dropped = FALSE

Goto(c, l) == pc' = [pc EXCEPT ![c] = l]

(* imx8mp_uart_tx_full *)
TxFull == Len(fifo) + kfifo >= FifoSize

---------------------------------------------------------------------------
(* stdoutput_write, term_print_slice *)

(* The lock is released and the result goes to handle_term_notify. *)
Finish(c, fin) == /\ tlock' = NoCpu
                  /\ finished' = [finished EXCEPT ![c] = fin]
                  /\ Goto(c, "notify")

(* The rest of the write is buffered. *)
Push(c, s) == /\ buf' = buf \o s
              /\ accepted' = accepted \o s
              /\ todo' = [todo EXCEPT ![c] = <<>>]
              /\ Finish(c, FALSE)

Message(n) == [i \in 1 .. n |-> Len(accepted) + i]

(* Variant of WriteLock: does not look for buffered characters. *)
WriteLockDirect(c, n) ==
    /\ c \in use.writers /\ pc[c] = "idle" /\ tlock = NoCpu
    /\ Len(accepted) + n <= MaxChars
    /\ tlock' = c
    /\ todo' = [todo EXCEPT ![c] = Message(n)]
    /\ Goto(c, "w_try")
    /\ UNCHANGED <<buf, accepted, finished, notify, trdyen, fifo, kfifo, iolock, wire, printed, dropped, use>>

(* write() of n characters takes the lock; behind buffered characters all  *)
(* of them are buffered.                                                   *)
WriteLock(c, n) ==
    /\ c \in use.writers /\ pc[c] = "idle" /\ tlock = NoCpu
    /\ Len(accepted) + n <= MaxChars
    /\ IF buf = <<>>
       THEN /\ tlock' = c
            /\ todo' = [todo EXCEPT ![c] = Message(n)]
            /\ Goto(c, "w_try")
            /\ UNCHANGED <<buf, accepted, finished>>
       ELSE Push(c, Message(n))
    /\ UNCHANGED <<notify, trdyen, fifo, kfifo, iolock, wire, printed, dropped, use>>

(* imx8mp_uart_putc looks whether the FIFO is full ... *)
WriteTry(c) ==
    /\ pc[c] = "w_try"
    /\ IF TxFull
       THEN Push(c, todo[c])
       ELSE Goto(c, "w_put") /\ UNCHANGED <<buf, accepted, todo, finished, tlock>>
    /\ UNCHANGED <<notify, trdyen, fifo, kfifo, iolock, wire, printed, dropped, use>>

(* ... and writes the character; a FIFO that is full by now loses it. *)
Put(ch) == /\ fifo' = IF TxFull THEN fifo ELSE Append(fifo, ch)
           /\ dropped' = (dropped \/ TxFull)

WritePut(c) ==
    /\ pc[c] = "w_put"
    /\ Put(Head(todo[c]))
    /\ accepted' = Append(accepted, Head(todo[c]))
    /\ todo' = [todo EXCEPT ![c] = Tail(@)]
    /\ IF Len(todo[c]) = 1
       THEN Finish(c, TRUE)
       ELSE Goto(c, "w_try") /\ UNCHANGED <<tlock, finished>>
    /\ UNCHANGED <<buf, notify, trdyen, kfifo, iolock, wire, printed, use>>

(* Variant of Notify: records that the interrupt is enabled and does not    *)
(* enable it.                                                              *)
NotifyFlagOnly(c) ==
    /\ pc[c] = "notify"
    /\ notify' = ~finished[c]
    /\ trdyen' = (trdyen /\ ~finished[c])
    /\ Goto(c, "idle")
    /\ UNCHANGED <<buf, tlock, fifo, kfifo, iolock, todo, finished, wire, accepted, printed, dropped, use>>

(* handle_term_notify and imx8mp_uart_irq_notify_tx, under device_data->lock: *)
(* the interrupt is wanted exactly when the output was not finished.          *)
Notify(c) ==
    /\ pc[c] = "notify"
    /\ notify' = ~finished[c]
    /\ trdyen' = IF finished[c] = ~notify THEN trdyen ELSE ~finished[c]
    /\ Goto(c, "idle")
    /\ UNCHANGED <<buf, tlock, fifo, kfifo, iolock, todo, finished, wire, accepted, printed, dropped, use>>

---------------------------------------------------------------------------
(* The transmitter ready interrupt *)

(* TXTL, the threshold handle_term_notify asks for: TRDY is raised while   *)
(* the FIFO holds fewer characters.                                        *)
TXTL == 1
Trdy == Len(fifo) + kfifo < TXTL

IrqTake(c) ==
    /\ c = IrqCpu /\ pc[c] = "idle"
    /\ trdyen /\ Trdy
    /\ Goto(c, "irq")
    /\ UNCHANGED <<buf, tlock, notify, trdyen, fifo, kfifo, iolock, todo, finished, wire, accepted,
                   printed, dropped, use>>

(* imx8mp_uart_irq_handle: the source must still be raised and enabled ...  *)
IrqHandle(c) ==
    /\ pc[c] = "irq"
    /\ Goto(c, IF trdyen /\ Trdy THEN "trdy" ELSE "idle")
    /\ UNCHANGED <<buf, tlock, notify, trdyen, fifo, kfifo, iolock, todo, finished, wire, accepted,
                   printed, dropped, use>>

(* ... and handle_TRDY, under the lock of the driver, must find a handler. *)
HandleTrdy(c) ==
    /\ pc[c] = "trdy"
    /\ Goto(c, IF trdyen THEN "n_lock" ELSE "idle")
    /\ UNCHANGED <<buf, tlock, notify, trdyen, fifo, kfifo, iolock, todo, finished, wire, accepted,
                   printed, dropped, use>>

(* on_tx_ready, term_notify_ready *)
NotifyLock(c) ==
    /\ pc[c] = "n_lock" /\ tlock = NoCpu
    /\ IF buf = <<>>
       THEN Finish(c, TRUE)
       ELSE tlock' = c /\ Goto(c, "n_try") /\ UNCHANGED finished
    /\ UNCHANGED <<buf, notify, trdyen, fifo, kfifo, iolock, todo, wire, accepted, printed, dropped, use>>

(* One character: putc looks whether the FIFO is full ... *)
NotifyTry(c) ==
    /\ pc[c] = "n_try"
    /\ IF TxFull THEN Finish(c, FALSE) ELSE Goto(c, "n_put") /\ UNCHANGED <<tlock, finished>>
    /\ UNCHANGED <<buf, notify, trdyen, fifo, kfifo, iolock, todo, wire, accepted, printed, dropped, use>>

(* ... and takes it out of the buffer once it is written. *)
NotifyPut(c) ==
    /\ pc[c] = "n_put"
    /\ Put(Head(buf))
    /\ buf' = Tail(buf)
    /\ IF Len(buf) = 1 THEN Finish(c, TRUE) ELSE Goto(c, "n_try") /\ UNCHANGED <<tlock, finished>>
    /\ UNCHANGED <<notify, trdyen, kfifo, iolock, todo, wire, accepted, printed, use>>

---------------------------------------------------------------------------
(* print() of the kernel, and the UART *)

KernelLock(c) ==
    /\ c \in use.printers /\ printed < MaxKernel
    /\ pc[c] = "idle" /\ iolock = NoCpu
    /\ iolock' = c
    /\ Goto(c, "k_try")
    /\ UNCHANGED <<buf, tlock, notify, trdyen, fifo, kfifo, todo, finished, wire, accepted, printed, dropped, use>>

KernelTry(c) ==
    /\ pc[c] = "k_try" /\ ~TxFull
    /\ Goto(c, "k_put")
    /\ UNCHANGED <<buf, tlock, notify, trdyen, fifo, kfifo, iolock, todo, finished, wire, accepted,
                   printed, dropped, use>>

(* The string ends, or goes on with the next character. *)
KernelPut(c) ==
    /\ pc[c] = "k_put"
    /\ kfifo' = IF TxFull THEN kfifo ELSE kfifo + 1
    /\ dropped' = (dropped \/ TxFull)
    /\ printed' = printed + 1
    /\ \/ iolock' = NoCpu /\ Goto(c, "idle")
       \/ printed + 1 < MaxKernel /\ Goto(c, "k_try") /\ UNCHANGED iolock
    /\ UNCHANGED <<buf, tlock, notify, trdyen, fifo, todo, finished, wire, accepted, use>>

(* The UART sends a character. *)
Transmit ==
    /\ \/ /\ fifo # <<>>
          /\ fifo' = Tail(fifo) /\ wire' = Append(wire, Head(fifo))
          /\ UNCHANGED kfifo
       \/ /\ kfifo > 0
          /\ kfifo' = kfifo - 1
          /\ UNCHANGED <<fifo, wire>>
    /\ UNCHANGED <<buf, tlock, notify, trdyen, iolock, pc, todo, finished, accepted, printed, dropped, use>>

Writing(c) == WriteTry(c) \/ WritePut(c) \/ Notify(c)
Interrupt(c) == \/ IrqTake(c) \/ IrqHandle(c) \/ HandleTrdy(c)
                \/ NotifyLock(c) \/ NotifyTry(c) \/ NotifyPut(c)
KernelPrinting(c) == KernelLock(c) \/ KernelTry(c) \/ KernelPut(c)

Next == \/ \E c \in CPUS : \/ \E n \in 1 .. MaxLen : WriteLock(c, n)
                           \/ Writing(c) \/ Interrupt(c) \/ KernelPrinting(c)
        \/ Transmit

Spec == Init /\ [][Next]_vars

(* The UART keeps sending, a CPU inside an operation goes on, and a raised *)
(* interrupt is taken as soon as IrqCpu has it unmasked.  The term lock is *)
(* a spinlock without queue, hence strong fairness for its waiter.         *)
Fairness == /\ WF_vars(Transmit)
            /\ \A c \in CPUS : /\ WF_vars(Writing(c))
                               /\ SF_vars(Interrupt(c))
                               /\ WF_vars(KernelTry(c) \/ KernelPut(c))

FairSpec == Spec /\ Fairness

---------------------------------------------------------------------------
(* Properties *)

TypeOK ==
    /\ use \in Uses
    /\ buf \in Seq(Nat) /\ fifo \in Seq(Nat) /\ wire \in Seq(Nat) /\ accepted \in Seq(Nat)
    /\ kfifo \in Nat /\ Len(fifo) + kfifo <= FifoSize
    /\ tlock \in CPUS \cup {NoCpu} /\ iolock \in CPUS \cup {NoCpu}
    /\ notify \in BOOLEAN /\ trdyen \in BOOLEAN /\ dropped \in BOOLEAN
    /\ pc \in [CPUS -> PCs]
    /\ todo \in [CPUS -> Seq(Nat)]
    /\ finished \in [CPUS -> BOOLEAN]
    /\ printed \in Nat

(* All output comes from IrqCpu; no other CPU is between the look at the    *)
(* FIFO and the write to it under the kernel's lock, which does not exclude *)
(* the lock of the term.                                                   *)
Alone == use.writers \cup use.printers \subseteq {IrqCpu}
OneLock == use.printers = {} \/ Alone

(* What the term accepted is sent in that order, each character once: the  *)
(* part on the wire, the part in the FIFO and the part in the buffer.      *)
InOrder == accepted = wire \o fifo \o buf
OutputInOrder == OneLock => InOrder

(* "< 0: not taken, else taken" (term.h): a character whose putc returned  *)
(* 0 is in the FIFO.                                                       *)
TakenIsKept == OneLock => ~dropped

(* Why these two hold: characters go to the FIFO directly only past an      *)
(* empty buffer, threads and the interrupt use it only under the lock of    *)
(* the term, and the kernel prints only where no other CPU does, so that    *)
(* room seen in the FIFO stays there until it is used.                     *)
IInv ==
    OneLock =>
      /\ TypeOK
      /\ \A c \in CPUS :
           /\ pc[c] # "idle" => c \in use.writers \cup use.printers \cup {IrqCpu}
           /\ pc[c] \in {"k_try", "k_put"} => c \in use.printers
           /\ pc[c] \in {"w_try", "w_put", "n_try", "n_put"} => tlock = c
           /\ pc[c] \in {"w_try", "w_put"} => buf = <<>> /\ todo[c] # <<>>
           /\ pc[c] \in {"n_try", "n_put"} => buf # <<>>
           /\ pc[c] \in {"w_put", "n_put", "k_put"} => Len(fifo) + kfifo < FifoSize
      /\ ~dropped
      /\ InOrder

(* When no operation is under way, buffered output has its interrupt       *)
(* armed: "the caller must notify when the provided output is ready to     *)
(* receive more data" (term.h).                                            *)
BufferedIsNotified == (\A c \in CPUS : pc[c] = "idle") /\ buf # <<>> => trdyen

(* Everything accepted is sent, while all output comes from that CPU. *)
OutputDrains == Alone /\ buf # <<>> ~> buf = <<>>
=============================================================================
