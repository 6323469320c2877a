---------------------------- MODULE MCSerialOut ----------------------------
(* SerialOut for two CPUs, a small FIFO and short writes.                  *)
EXTENDS SerialOut

Use(writers, printers) == [writers |-> writers, printers |-> printers]
Threads == Use(CPUS, {})
OneCpu == Use({IrqCpu}, {IrqCpu})
ThreadsOrOneCpu == {Threads, OneCpu}
ThreadsOnly == {Threads}
=============================================================================
