----------------------------- MODULE MCDrivers -----------------------------
(* The drivers and what they stand on: serial output, serial input for two *)
(* CPUs and two tasks, the timer, the start of two CPUs with the           *)
(* interrupts they register, and the thermal sensor.  The two directions   *)
(* of the serial port have a term, a lock and a FIFO each.  part says      *)
(* which component takes steps; the others stay as they are initially.     *)
EXTENDS MCSerialOut, SerialIn, MCTimer, Irq, Tmu

MCFds == {-1, 0, 1, 3}

(* The two shared interrupts have drivers of one class, with ranks that    *)
(* make device_register insert in front of and behind another device.      *)
MCShared == (40 :> [class |-> "serial", name |-> <<"uart", 0>>, rank |-> 100, prio |-> 150])
         @@ (41 :> [class |-> "serial", name |-> <<"tmu", 0>>, rank |-> 255, prio |-> 0])
MCCalls == {[cpu |-> c, id |-> 40] : c \in {0, 1}}
MCCallers == {{0}, {0, 1}}

VARIABLE part

DriversInit ==
    /\ part \in {"out", "in", "timer", "irq", "tmu"}
    /\ Init /\ (part # "out" => use = Threads)
    /\ SiInit /\ TimerInit /\ IrqInit
    /\ TmuInit /\ (part # "tmu" => tmu_callers = {0})

DriversNext ==
    /\ UNCHANGED part
    /\ IF part = "out" THEN Next ELSE UNCHANGED vars
    /\ IF part = "in" THEN SiNext ELSE UNCHANGED siVars
    /\ IF part = "timer" THEN TimerNext ELSE UNCHANGED tvars
    /\ IF part = "irq" THEN IrqNext ELSE UNCHANGED irqVars
    /\ IF part = "tmu" THEN TmuNext ELSE UNCHANGED tmuVars

(* The fairness of each component, in its part.  Initially none of the     *)
(* actions that Fairness and SiFairness name is enabled, so they ask       *)
(* nothing of a part that stays.                                           *)
DriversSpec ==
    /\ DriversInit /\ [][DriversNext]_<<part, vars, siVars, tvars, irqVars, tmuVars>>
    /\ Fairness /\ SiFairness
    /\ WF_tvars(part = "timer" /\ Tick)
    /\ WF_tvars(part = "timer" /\ MainStep)
    /\ SF_tvars(part = "timer" /\ IrqStep)
    /\ \A c \in IrqCpus : WF_<<irq_cpu, irq_panic>>(part = "irq" /\ IrqCpuStep(c))
=============================================================================
