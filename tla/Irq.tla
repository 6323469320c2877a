-------------------------------- MODULE Irq --------------------------------
(***************************************************************************)
(* Interrupts and start-up: the interrupt table (exception/irq.c), the     *)
(* GICv3 driver (drivers/irq_ctrl/gicv3), the driver registration          *)
(* (devices/init_drivers.c), kernel_init and smp.c.                        *)
(*                                                                         *)
(* What a CPU does outside interrupts is a straight program: a sequence of *)
(* steps, each one access to the table, the GIC or the device registry.    *)
(* A dispatch interrupts it between two steps, once the CPU has enabled    *)
(* its exceptions.  irq_unregister has no caller in the kernel yet; it is  *)
(* called here on the CPUs IrqCalls names.                                 *)
(***************************************************************************)
EXTENDS Devices, FiniteSets

CONSTANTS IrqCpus,      \* 0 .. NUM_CPUS - 1
          IrqTimer,     \* the PPI of the generic timer, < 32
          IrqShared,    \* the interrupts KERNEL_INITCALLs register: SPI -> class, name, priority
          IrqCalls,     \* calls of irq_unregister: [cpu, id]
          IrqPsci,      \* the results PSCI may give
          IrqRaises     \* bound on the interrupts raised

VARIABLES
    irq_tab,     \* local_irq_table and shared_irq_table
    irq_ctxs,    \* allocated driver_ctx_t
    gic,         \* registers of the GIC
    irq_line,    \* interrupts whose device asserts its line
    irq_cpu,     \* CPU -> program left, exceptions enabled, an interrupt taken since
                 \* wfi, register value read, dispatch
    irq_ready,   \* initialized_cpus
    irq_panic,   \* the assertion or PANIC that stopped the kernel
    irq_ghost    \* lines raised; whether a dispatch used freed memory; whether
                 \* a CPU unregistered an interrupt of another

irqVars == <<irq_tab, irq_ctxs, gic, irq_line, irq_cpu, irq_ready, irq_panic, irq_ghost, devVars>>

---------------------------------------------------------------------------
(* The table *)

get_entry(id, c) == IF id < 32 THEN <<id, c>> ELSE <<id, 0>>

IrqKeys == {get_entry(IrqTimer, c) : c \in IrqCpus} \cup {get_entry(id, 0) : id \in DOMAIN IrqShared}

NoEntry == [status |-> "unregistered", handler |-> FALSE, ctx |-> <<>>]

(* The steps of irq_register_driver and irq_ctrl_config. *)
RegisterSteps == <<"ctx", "claim", "fill", "publish">>

(* A bug: the word the priority is put into is read from another register. *)
ConfigStepsWrongRead ==
    <<"group_read", "prio_write", "trigger_read", "trigger_write", "target", "group_read", "group_write", "enable">>

ConfigSteps ==
    <<"prio_read", "prio_write", "trigger_read", "trigger_write", "target", "group_read", "group_write", "enable">>

Steps(ops, r) == [i \in DOMAIN ops |-> [op |-> ops[i], arg |-> r]]

irq_register_driver(id, k, name, target, prio) ==
    Steps(RegisterSteps \o ConfigSteps,
          [id |-> id, class |-> k, name |-> name, target |-> target, prio |-> prio])

(* A bug: the context is freed before the entry is claimed. *)
irq_unregisterFrees(id, target) ==
    Steps(<<"free", "retract", "disable", "clear", "release">>, [id |-> id, target |-> target])

irq_unregister(id, target) ==
    Steps(<<"retract", "disable", "free", "clear", "release">>, [id |-> id, target |-> target])

---------------------------------------------------------------------------
(* What the CPUs run from reset *)

Register(k, name, rank) == Steps(<<"device">>, [class |-> k, name |-> name, rank |-> rank])

TimerName(c) == <<"timer", c>>

agt_register(c) ==
    Register("clocksource", <<"clock", c>>, 255) \o Register("timer", TimerName(c), 255)
    \o irq_register_driver(IrqTimer, "timer", TimerName(c), c, 90)

kernel_cpu_local_init(c) ==
    agt_register(c) \o Steps(<<"init_cpu">>, [class |-> "irq_ctrl"]) \o Steps(<<"time_init">>, <<>>)

(* uart_driver_register and tmu_driver_register, run by CPU 0. *)
InitCalls ==
    FlattenSeq([i \in 1 .. Cardinality(DOMAIN IrqShared) |->
        LET id == SetToSeq(DOMAIN IrqShared)[i]
            d  == IrqShared[id]
        IN  Register(d.class, d.name, d.rank) \o irq_register_driver(id, d.class, d.name, 0, d.prio)])

kernel_init ==
    Register("irq_ctrl", <<"gic", 0>>, 255) \o Steps(<<"gic_init">>, [class |-> "irq_ctrl"])
    \o InitCalls \o kernel_cpu_local_init(0) \o Steps(<<"unmask">>, <<>>)

(* A bug: CPU 0 waits for its own flag too, which it never sets. *)
smp_initNotReady ==
    LET others == SetToSeq(IrqCpus \ {0})
    IN  [i \in DOMAIN others |-> [op |-> "cpu_on", arg |-> others[i]]] \o Steps(<<"sleep", "wait">>, <<>>)

smp_init ==
    LET others == SetToSeq(IrqCpus \ {0})
    IN  [i \in DOMAIN others |-> [op |-> "cpu_on", arg |-> others[i]]] \o Steps(<<"sleep", "ready", "wait">>, <<>>)

setup_secondary_core_el1(c) == kernel_cpu_local_init(c) \o Steps(<<"unmask", "ready">>, <<>>)

---------------------------------------------------------------------------
(* One step of the program of CPU c *)

SetCpu(c, r) == irq_cpu' = [irq_cpu EXCEPT ![c] = r]
Advance(c) == SetCpu(c, [irq_cpu[c] EXCEPT !.prog = Tail(@)])
Panic(why) == irq_panic' = why
SetEntry(k, e) == irq_tab' = [irq_tab EXCEPT ![k] = e]

(* The registers that share a word with those of interrupt k. *)
WordOf(k) == {j \in IrqKeys : (j[1] < 32) = (k[1] < 32) /\ j[2] = k[2]}

TableStep(c, op, a, k) ==
    /\ \/ /\ op = "ctx"
          /\ irq_ctxs' = irq_ctxs \cup {<<k, a.class, a.name>>} /\ Advance(c)
          /\ UNCHANGED <<irq_tab, irq_panic>>
       \/ /\ op = "claim"
          /\ IF irq_tab[k].status = "unregistered"
             THEN SetEntry(k, [irq_tab[k] EXCEPT !.status = "registering"]) /\ Advance(c) /\ UNCHANGED irq_panic
             ELSE Panic("double register") /\ UNCHANGED <<irq_tab, irq_cpu>>
          /\ UNCHANGED irq_ctxs
       \/ /\ op = "fill"
          /\ SetEntry(k, [irq_tab[k] EXCEPT !.handler = TRUE, !.ctx = <<k, a.class, a.name>>])
          /\ Advance(c) /\ UNCHANGED <<irq_ctxs, irq_panic>>
       \/ /\ op = "publish"
          /\ SetEntry(k, [irq_tab[k] EXCEPT !.status = "registered"])
          /\ Advance(c) /\ UNCHANGED <<irq_ctxs, irq_panic>>
       \/ /\ op = "retract"
          /\ IF irq_tab[k].status = "registered"
             THEN SetEntry(k, [irq_tab[k] EXCEPT !.status = "registering"]) /\ Advance(c) /\ UNCHANGED irq_panic
             ELSE Panic("not registered") /\ UNCHANGED <<irq_tab, irq_cpu>>
          /\ UNCHANGED irq_ctxs
       \/ /\ op = "free"
          /\ irq_ctxs' = irq_ctxs \ {irq_tab[k].ctx}
          /\ Advance(c) /\ UNCHANGED <<irq_tab, irq_panic>>
       \/ /\ op = "clear"
          /\ SetEntry(k, [irq_tab[k] EXCEPT !.handler = FALSE, !.ctx = <<>>])
          /\ Advance(c) /\ UNCHANGED <<irq_ctxs, irq_panic>>
       \/ /\ op = "release"
          /\ SetEntry(k, [irq_tab[k] EXCEPT !.status = "unregistered"])
          /\ Advance(c) /\ UNCHANGED <<irq_ctxs, irq_panic>>
    /\ UNCHANGED <<gic, irq_ready, devVars>>

(* Priorities, triggers and groups are fields of shared registers, read,   *)
(* changed and written back without a lock.  All drivers ask for a level   *)
(* sensitive interrupt.                                                    *)
GicStep(c, op, a, k) ==
    /\ \/ \E f \in {"prio", "trigger", "group"} :
            /\ op = f \o "_read"
            /\ SetCpu(c, [irq_cpu[c] EXCEPT !.prog = Tail(@), !.reg = [j \in WordOf(k) |-> gic[f][j]]])
            /\ UNCHANGED gic
       \/ \E f \in {"prio", "trigger", "group"} :
            /\ op = f \o "_write"
            /\ LET v == [prio |-> a.prio, trigger |-> "level", group |-> 1][f]
               IN  gic' = [gic EXCEPT ![f] = [irq_cpu[c].reg EXCEPT ![k] = v] @@ @]
            /\ Advance(c)
       \/ /\ op = "target"
          /\ gic' = IF k[1] < 32 THEN gic ELSE [gic EXCEPT !.target[k] = a.target]
          /\ Advance(c)
       \/ /\ op = "enable"
          /\ gic' = [gic EXCEPT !.enabled = @ \cup {k}] /\ Advance(c)
       \/ /\ op = "disable"
          /\ gic' = [gic EXCEPT !.enabled = @ \ {k}] /\ Advance(c)
    /\ UNCHANGED <<irq_tab, irq_ctxs, irq_ready, irq_panic, devVars>>

(* ksleep returns, or its interrupt comes between the test of its flag and *)
(* wfi (module Timer has the detail): then it returns after the next       *)
(* interrupt this CPU takes.                                               *)
SleepStep(c) ==
    \/ Advance(c)
    \/ SetCpu(c, [irq_cpu[c] EXCEPT !.prog = Steps(<<"wfi">>, <<>>) \o Tail(@), !.woken = FALSE])

StartStep(c, op, a) ==
    /\ \/ /\ op = "device"
          /\ device_register(a.name, a.rank, a.class)
          /\ Advance(c) /\ UNCHANGED <<gic, irq_ready, irq_panic>>
       \/ /\ op \in {"gic_init", "init_cpu"}
          /\ IF device_get_primary("irq_ctrl") = 0
             THEN Panic("no irq_ctrl") /\ UNCHANGED <<gic, irq_cpu>>
             ELSE /\ gic' = IF op = "gic_init" THEN [gic EXCEPT !.on = TRUE] ELSE [gic EXCEPT !.awake = @ \cup {c}]
                  /\ Advance(c) /\ UNCHANGED irq_panic
          /\ UNCHANGED <<irq_ready, devVars>>
       \/ /\ op = "unmask"
          /\ SetCpu(c, [irq_cpu[c] EXCEPT !.prog = Tail(@), !.unmasked = TRUE])
          /\ UNCHANGED <<gic, irq_ready, irq_panic, devVars>>
       \/ /\ op = "time_init"
          /\ IF device_get_by_name("clocksource", <<"clock", c>>) = 0 \/ device_get_by_name("timer", TimerName(c)) = 0
             THEN Panic("no clock") /\ UNCHANGED irq_cpu
             ELSE Advance(c) /\ UNCHANGED irq_panic
          /\ UNCHANGED <<gic, irq_ready, devVars>>
       \/ /\ op = "sleep"
          /\ SleepStep(c) /\ UNCHANGED <<gic, irq_ready, irq_panic, devVars>>
       \/ /\ op = "wfi" /\ irq_cpu[c].woken
          /\ Advance(c) /\ UNCHANGED <<gic, irq_ready, irq_panic, devVars>>
       \/ /\ op = "cpu_on"
          /\ \E res \in IrqPsci :
                IF res = "success"
                THEN /\ irq_cpu' = [irq_cpu EXCEPT ![c].prog = Tail(@), ![a].prog = setup_secondary_core_el1(a)]
                     /\ UNCHANGED irq_panic
                ELSE Panic("psci") /\ UNCHANGED irq_cpu
          /\ UNCHANGED <<gic, irq_ready, devVars>>
       \/ /\ op = "ready"
          /\ irq_ready' = irq_ready \cup {c}
          /\ Advance(c) /\ UNCHANGED <<gic, irq_panic, devVars>>
       \/ /\ op = "wait" /\ irq_ready = IrqCpus
          /\ Advance(c) /\ UNCHANGED <<gic, irq_ready, irq_panic, devVars>>
    /\ UNCHANGED <<irq_tab, irq_ctxs>>

IrqProgram(c) ==
    /\ irq_panic = "no" /\ irq_cpu[c].at = "none" /\ irq_cpu[c].prog # <<>>
    /\ LET s == Head(irq_cpu[c].prog)
       IN  \/ StartStep(c, s.op, s.arg)
           \/ /\ s.op \in ToSet(RegisterSteps) \cup {"retract", "free", "clear", "release"}
              /\ TableStep(c, s.op, s.arg, get_entry(s.arg.id, s.arg.target))
           \/ /\ s.op \in ToSet(ConfigSteps) \cup {"disable"}
              /\ GicStep(c, s.op, s.arg, get_entry(s.arg.id, c))
    /\ UNCHANGED <<irq_line, irq_ghost>>

(* A thread calls irq_unregister once the system is up. *)
IrqUnregister(c, id) ==
    /\ irq_panic = "no" /\ irq_ready = IrqCpus
    /\ irq_cpu[c].at = "none" /\ irq_cpu[c].prog = <<>> /\ ~irq_ghost.called
    /\ SetCpu(c, [irq_cpu[c] EXCEPT !.prog = irq_unregister(id, c)])
    /\ irq_ghost' = [irq_ghost EXCEPT !.called = TRUE, !.foreign = gic.target[get_entry(id, c)] # c]
    /\ UNCHANGED <<irq_tab, irq_ctxs, gic, irq_line, irq_ready, irq_panic, devVars>>

---------------------------------------------------------------------------
(* Interrupts *)

(* A device asserts its line until its driver has handled the interrupt. *)
IrqRaise(k) ==
    /\ irq_panic = "no" /\ irq_ghost.raised < IrqRaises
    /\ k \notin irq_line
    /\ irq_line' = irq_line \cup {k}
    /\ irq_ghost' = [irq_ghost EXCEPT !.raised = @ + 1]
    /\ UNCHANGED <<irq_tab, irq_ctxs, gic, irq_cpu, irq_ready, irq_panic, devVars>>

(* What the GIC signals to CPU c. *)
Signalled(c) ==
    IF ~gic.on \/ c \notin gic.awake THEN {}
    ELSE {k \in irq_line \cap gic.enabled :
            gic.group[k] = 1 /\ gic.target[k] = c /\ \A d \in IrqCpus : <<k, d>> \notin gic.active}

IrqTakes(c) ==
    /\ irq_panic = "no" /\ irq_cpu[c].unmasked /\ irq_cpu[c].at = "none"
    /\ Signalled(c) # {}
    /\ SetCpu(c, [irq_cpu[c] EXCEPT !.at = "ack", !.woken = TRUE])
    /\ UNCHANGED <<irq_tab, irq_ctxs, gic, irq_line, irq_ready, irq_panic, irq_ghost, devVars>>

(* gicv3_irq_ack: the signalled interrupt of the highest priority becomes  *)
(* active; the answer is "spurious" when none is signalled any more.       *)
IrqAck(c) ==
    /\ irq_panic = "no" /\ irq_cpu[c].at = "ack"
    /\ \/ /\ Signalled(c) = {}
          /\ SetCpu(c, [irq_cpu[c] EXCEPT !.at = "none"]) /\ UNCHANGED gic
       \/ \E k \in Signalled(c) :
            /\ \A j \in Signalled(c) : gic.prio[k] <= gic.prio[j]
            /\ gic' = [gic EXCEPT !.active = @ \cup {<<k, c>>}]
            /\ SetCpu(c, [irq_cpu[c] EXCEPT !.at = "status", !.id = k])
    /\ UNCHANGED <<irq_tab, irq_ctxs, irq_line, irq_ready, irq_panic, irq_ghost, devVars>>

IrqStatus(c) ==
    /\ irq_panic = "no" /\ irq_cpu[c].at = "status"
    /\ LET e == irq_tab[get_entry(irq_cpu[c].id[1], c)]
       IN  SetCpu(c, [irq_cpu[c] EXCEPT !.at = IF e.status = "registered" THEN "type" ELSE "eoi"])
    /\ UNCHANGED <<irq_tab, irq_ctxs, gic, irq_line, irq_ready, irq_panic, irq_ghost, devVars>>

(* The context is read from the entry, to be used in the next step. *)
IrqType(c) ==
    /\ irq_panic = "no" /\ irq_cpu[c].at = "type"
    /\ SetCpu(c, [irq_cpu[c] EXCEPT !.at = "call", !.ctx = irq_tab[get_entry(irq_cpu[c].id[1], c)].ctx])
    /\ UNCHANGED <<irq_tab, irq_ctxs, gic, irq_line, irq_ready, irq_panic, irq_ghost, devVars>>

(* The driver of the context is looked up and its handler called, which    *)
(* makes the device release its line.  The use of a freed context or of a  *)
(* handler set to NULL is recorded.                                        *)
IrqCall(c) ==
    /\ irq_panic = "no" /\ irq_cpu[c].at = "call"
    /\ LET ctx == irq_cpu[c].ctx
           k   == irq_cpu[c].id
       IN  IF ctx \notin irq_ctxs \/ ~irq_tab[get_entry(k[1], c)].handler
           THEN /\ irq_ghost' = [irq_ghost EXCEPT !.freed = TRUE]
                /\ Panic("freed") /\ UNCHANGED <<irq_cpu, irq_line>>
           ELSE /\ IF device_get_by_name(ctx[2], ctx[3]) = 0
                   THEN Panic("driver not found") /\ UNCHANGED <<irq_cpu, irq_line>>
                   ELSE /\ irq_line' = irq_line \ {k}
                        /\ SetCpu(c, [irq_cpu[c] EXCEPT !.at = "eoi", !.ctx = <<>>])
                        /\ UNCHANGED irq_panic
                /\ UNCHANGED irq_ghost
    /\ UNCHANGED <<irq_tab, irq_ctxs, gic, irq_ready, devVars>>

(* A bug: the end of the interrupt is not written to the GIC. *)
IrqEoiSkipped(c) ==
    /\ irq_panic = "no" /\ irq_cpu[c].at = "eoi"
    /\ SetCpu(c, [irq_cpu[c] EXCEPT !.at = "none", !.id = <<>>])
    /\ UNCHANGED <<irq_tab, irq_ctxs, gic, irq_line, irq_ready, irq_panic, irq_ghost, devVars>>

IrqEoi(c) ==
    /\ irq_panic = "no" /\ irq_cpu[c].at = "eoi"
    /\ gic' = [gic EXCEPT !.active = @ \ {<<irq_cpu[c].id, c>>}]
    /\ SetCpu(c, [irq_cpu[c] EXCEPT !.at = "none", !.id = <<>>])
    /\ UNCHANGED <<irq_tab, irq_ctxs, irq_line, irq_ready, irq_panic, irq_ghost, devVars>>

irq_dispatch(c) == IrqAck(c) \/ IrqStatus(c) \/ IrqType(c) \/ IrqCall(c) \/ IrqEoi(c)

---------------------------------------------------------------------------
IrqInit ==
    /\ device_ctrl_init
    /\ irq_tab = [k \in IrqKeys |-> NoEntry]
    /\ irq_ctxs = {} /\ irq_line = {} /\ irq_ready = {} /\ irq_panic = "no"
    /\ gic = [on |-> FALSE, awake |-> {}, enabled |-> {}, active |-> {},
              prio |-> [k \in IrqKeys |-> 0], group |-> [k \in IrqKeys |-> 0],
              trigger |-> [k \in IrqKeys |-> "edge"],
              target |-> [k \in IrqKeys |-> k[2]]]
    /\ irq_cpu = [c \in IrqCpus |->
                    [prog |-> IF c = 0 THEN kernel_init \o smp_init ELSE <<>>,
                     unmasked |-> FALSE, woken |-> FALSE, reg |-> <<>>, at |-> "none", id |-> <<>>, ctx |-> <<>>]]
    /\ irq_ghost = [raised |-> 0, called |-> FALSE, foreign |-> FALSE, freed |-> FALSE]

IrqCpuStep(c) == IrqProgram(c) \/ IrqTakes(c) \/ irq_dispatch(c)

IrqNext ==
    \/ \E c \in IrqCpus : IrqCpuStep(c)
    \/ \E k \in IrqKeys : IrqRaise(k)
    \/ \E x \in IrqCalls : IrqUnregister(x.cpu, x.id)

(* A CPU goes on with its program and with an interrupt it has taken, and  *)
(* takes an interrupt that stays signalled.                                *)
IrqFairSpec == /\ IrqInit /\ [][IrqNext]_irqVars
               /\ \A c \in IrqCpus : WF_<<irq_cpu, irq_panic>>(IrqCpuStep(c))

---------------------------------------------------------------------------
(* Properties *)

(* irq_dispatch never follows a freed driver context or calls a NULL       *)
(* handler, as long as irq_unregister runs on the CPU the interrupt is     *)
(* routed to (irq.c:228-236 against irq.c:284-295); a call on another CPU  *)
(* may free the context under a dispatch.                                  *)
IrqContextIsLive == irq_ghost.freed => irq_ghost.foreign

(* Once all CPUs are up, every registered interrupt has the group,         *)
(* priority, trigger and enable bit its driver asked for: configuring one  *)
(* leaves the fields of those it shares a register with (gicv3.c:101-103,  *)
(* 166-168, 204-217).                                                      *)
IrqConfigKept ==
    irq_ready = IrqCpus => \A k \in IrqKeys :
        irq_tab[k].status = "registered" =>
            /\ gic.group[k] = 1 /\ gic.trigger[k] = "level" /\ k \in gic.enabled
            /\ gic.prio[k] = IF k[1] < 32 THEN 90 ELSE IrqShared[k[1]].prio

(* The kernel stops when PSCI refuses to start a CPU; the model also ends  *)
(* at the use of a freed context.  No other stop excuses what follows: not *)
(* an interrupt registered twice, nor a driver or a clock not found.       *)
IrqStops == {"psci", "freed"}

(* CPU 0 is in the ksleep of smp_init and its interrupt came too early.    *)
SleepMissed == irq_cpu[0].prog # <<>> /\ Head(irq_cpu[0].prog).op = "wfi"

(* Once CPU 0 registers its devices, every other CPU gets ready, whether   *)
(* or not CPU 0 wakes up again, and the only thing that keeps CPU 0 from   *)
(* leaving smp_init is its ksleep, which it leaves at the next interrupt   *)
(* (smp.c:56-69).                                                          *)
IrqAllStart ==
    dev_uid > 1 ~>
        \/ IrqCpus \ {0} \subseteq irq_ready /\ (0 \in irq_ready \/ SleepMissed)
        \/ irq_panic \in IrqStops

(* A device that asserts the line of a registered interrupt is served.     *)
IrqIsServed ==
    \A k \in IrqKeys :
        k \in irq_line /\ irq_tab[k].status = "registered" ~>
            k \notin irq_line \/ irq_tab[k].status # "registered" \/ irq_panic \in IrqStops
=============================================================================
