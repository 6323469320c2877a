-------------------------------- MODULE Tmu --------------------------------
(***************************************************************************)
(* The thermal monitoring unit driver                                      *)
(* (drivers/thermal_sensor/imx8mp_tmu/imx8mp_tmu.c).  Calls of the driver  *)
(* hold its spinlock with interrupts masked; imx8mp_tmu_irq_handle takes   *)
(* no lock and runs on the CPU the interrupt is routed to.  One step is    *)
(* one access to a register or to the driver's state.  The two probes are  *)
(* always set up alike and are one here; "warn" and "crit" are the two     *)
(* thresholds.  The kernel registers the driver and has no caller of these *)
(* operations yet: tmu_callers says which CPUs call them.                  *)
(***************************************************************************)
EXTENDS Sequences, Integers

CONSTANTS TmuCpus,      \* CPUs
          TmuIrqCpu,    \* the CPU that gets the interrupt
          TmuCallers,   \* sets of CPUs that may call the driver
          TmuTemps,     \* thresholds asked for
          TmuCalls,     \* bound on the calls
          TmuEvents     \* bound on the crossings of a threshold

VARIABLES tmu,          \* registers of the TMU and tmu_state_t
          tmu_cpu,      \* CPU -> steps left of its call and of the handler, values read
          tmu_callers,  \* the CPUs that call the driver; it never changes
          tmu_used      \* calls made and thresholds crossed so far

tmuVars == <<tmu, tmu_cpu, tmu_callers, tmu_used>>

Levels == {"warn", "crit"}
Both(v) == [l \in Levels |-> v]
NoOwner == -1

---------------------------------------------------------------------------
(* The operations, as sequences of steps *)

Do(op, l, v) == [op |-> op, level |-> l, value |-> v]

imx8mp_tmu_irq_enable ==
    <<Do("lock", "", 0), Do("tier_read", "", 0), Do("mark", "warn", 0), Do("mark", "crit", 0),
      Do("tier_write", "", 0), Do("unlock", "", 0)>>

imx8mp_tmu_irq_disable ==
    <<Do("lock", "", 0), Do("tier_read", "", 0), Do("tier_clear", "warn", 0), Do("tier_clear", "crit", 0),
      Do("tier_write", "", 0), Do("unmark", "warn", 0), Do("unmark", "crit", 0), Do("unlock", "", 0)>>

(* imx8mp_tmu_irq_notify_warn_over and imx8mp_tmu_irq_notify_critical_over. *)
irq_notify_over(l, temp) ==
    <<Do("lock", "", 0), Do("handler", l, 0),
      Do("tier_read", "", 0), Do("tier_clear", l, 0), Do("tier_write", "", 0),
      Do("ter", "", FALSE), Do("thr_off", l, 0), Do("thr_temp", l, temp), Do("ter", "", TRUE),
      Do("thr_on", l, 0), Do("rearm", l, 0), Do("rearm_write", l, 0), Do("unlock", "", 0)>>

(* What the handler does for a level it saw in TIDR. *)
HandleLevel(l) ==
    <<Do("tier_read", "", 0), Do("tier_clear", l, 0), Do("tier_write", "", 0),
      Do("unmark", l, 0), Do("call", l, 0)>>

---------------------------------------------------------------------------
(* Steps *)

Handling(c) == tmu_cpu[c].irq # <<>>

(* The step s on the registers and the driver's state, and on p, the value *)
(* of TIER the running code holds.                                         *)
TmuEffect(s, p) ==
    CASE s.op = "tier_read"  -> [t |-> tmu, p |-> tmu.tier]
      [] s.op = "tier_clear" -> [t |-> tmu, p |-> [p EXCEPT ![s.level] = FALSE]]
      [] s.op = "tier_write" -> [t |-> [tmu EXCEPT !.tier = p], p |-> p]
      [] s.op = "mark" /\ tmu.handler[s.level] ->
            [t |-> [tmu EXCEPT !.enabled[s.level] = TRUE], p |-> [p EXCEPT ![s.level] = TRUE]]
      [] s.op = "unmark"   -> [t |-> [tmu EXCEPT !.enabled[s.level] = FALSE], p |-> p]
      [] s.op = "handler"  -> [t |-> [tmu EXCEPT !.handler[s.level] = TRUE], p |-> p]
      [] s.op = "ter"      -> [t |-> [tmu EXCEPT !.on = s.value], p |-> p]
      [] s.op = "thr_off"  -> [t |-> [tmu EXCEPT !.thr[s.level].on = FALSE], p |-> p]
      [] s.op = "thr_temp" -> [t |-> [tmu EXCEPT !.thr[s.level].temp = s.value], p |-> p]
      [] s.op = "thr_on"   -> [t |-> [tmu EXCEPT !.thr[s.level].on = TRUE], p |-> p]
      [] s.op = "rearm" /\ tmu.enabled[s.level] -> [t |-> tmu, p |-> [p EXCEPT ![s.level] = TRUE]]
      [] s.op = "rearm_write" /\ p[s.level] -> [t |-> [tmu EXCEPT !.tier = p], p |-> p]
      [] OTHER -> [t |-> tmu, p |-> p]

(* A bug: the lock does not mask the interrupts of the CPU. *)
TmuMaskedNever(c) == FALSE

(* spinlocked_irqsave masks interrupts from before the lock is taken until *)
(* after it is released.                                                   *)
TmuMasked(c) == tmu_cpu[c].call # <<>> /\ tmu_cpu[c].call[1].op # "lock"

TmuLock(c) == tmu.lock = NoOwner

TmuCallStep(c) ==
    /\ ~Handling(c) /\ tmu_cpu[c].call # <<>>
    /\ LET s == tmu_cpu[c].call[1]
           e == TmuEffect(s, tmu_cpu[c].tier)
       IN  /\ s.op = "lock" => TmuLock(c)
           /\ tmu' = CASE s.op = "lock" -> [tmu EXCEPT !.lock = c]
                       [] s.op = "unlock" -> [tmu EXCEPT !.lock = NoOwner]
                       [] OTHER -> e.t
           /\ tmu_cpu' = [tmu_cpu EXCEPT ![c].call = Tail(@), ![c].tier = IF s.op = "unlock" THEN Both(FALSE) ELSE e.p]
    /\ UNCHANGED <<tmu_callers, tmu_used>>

(* The interrupt is asserted while TIDR and TIER have a bit in common. *)
TmuIrq == \E l \in Levels : tmu.tidr[l] /\ tmu.tier[l]

TmuTake ==
    /\ TmuIrq /\ ~TmuMasked(TmuIrqCpu) /\ ~Handling(TmuIrqCpu)
    /\ tmu_cpu' = [tmu_cpu EXCEPT ![TmuIrqCpu].irq = <<Do("tidr_read", "", 0)>>]
    /\ UNCHANGED <<tmu, tmu_callers, tmu_used>>

TmuSeen == tmu.tidr

(* TIDR is read and what was seen is acknowledged, also a level whose      *)
(* interrupt is disabled; then both levels are handled in turn.            *)
TmuHandlerStep ==
    /\ Handling(TmuIrqCpu)
    /\ LET c == TmuIrqCpu
           s == tmu_cpu[c].irq[1]
           e == TmuEffect(s, tmu_cpu[c].irqtier)
       IN  \/ /\ s.op = "tidr_read"
              /\ tmu_cpu' = [tmu_cpu EXCEPT ![c].irq = <<Do("ack", "", TmuSeen)>>]
              /\ UNCHANGED tmu
           \/ /\ s.op = "ack"
              /\ tmu' = [tmu EXCEPT !.tidr = [l \in Levels |-> @[l] /\ ~s.value[l]]]
              /\ tmu_cpu' = [tmu_cpu EXCEPT ![c].irq =
                               (IF s.value["warn"] THEN HandleLevel("warn") ELSE <<>>)
                               \o (IF s.value["crit"] THEN HandleLevel("crit") ELSE <<>>)]
           \/ /\ s.op \notin {"tidr_read", "ack"}
              /\ tmu' = e.t
              /\ tmu_cpu' = [tmu_cpu EXCEPT ![c].irq = Tail(@),
                                            ![c].irqtier = IF Len(tmu_cpu[c].irq) = 1 THEN Both(FALSE) ELSE e.p]
    /\ UNCHANGED <<tmu_callers, tmu_used>>

TmuCall(c, ops) ==
    /\ c \in tmu_callers /\ tmu_cpu[c].call = <<>> /\ ~Handling(c)
    /\ tmu_used.calls < TmuCalls
    /\ tmu_cpu' = [tmu_cpu EXCEPT ![c].call = ops]
    /\ tmu_used' = [tmu_used EXCEPT !.calls = @ + 1]
    /\ UNCHANGED <<tmu, tmu_callers>>

(* The temperature crosses an enabled threshold: the bit of TIDR is sticky. *)
TmuOver(l) ==
    /\ tmu.on /\ tmu.thr[l].on /\ ~tmu.tidr[l]
    /\ tmu_used.events < TmuEvents
    /\ tmu' = [tmu EXCEPT !.tidr[l] = TRUE]
    /\ tmu_used' = [tmu_used EXCEPT !.events = @ + 1]
    /\ UNCHANGED <<tmu_cpu, tmu_callers>>

imx8mp_tmu_init ==
    tmu = [lock |-> NoOwner, handler |-> Both(FALSE), enabled |-> Both(FALSE),
           tier |-> Both(FALSE), tidr |-> Both(FALSE), on |-> TRUE,
           thr |-> Both([on |-> FALSE, temp |-> 0])]

TmuInit ==
    /\ imx8mp_tmu_init
    /\ tmu_cpu = [c \in TmuCpus |-> [call |-> <<>>, irq |-> <<>>, tier |-> Both(FALSE), irqtier |-> Both(FALSE)]]
    /\ tmu_callers \in TmuCallers
    /\ tmu_used = [calls |-> 0, events |-> 0]

TmuNext ==
    \/ TmuTake \/ TmuHandlerStep
    \/ \E c \in TmuCpus :
         \/ TmuCallStep(c)
         \/ TmuCall(c, imx8mp_tmu_irq_enable) \/ TmuCall(c, imx8mp_tmu_irq_disable)
         \/ \E l \in Levels, t \in TmuTemps : TmuCall(c, irq_notify_over(l, t))
    \/ \E l \in Levels : TmuOver(l)

TmuSpec == TmuInit /\ [][TmuNext]_tmuVars

---------------------------------------------------------------------------
(* Properties *)

(* Outside the calls and the handler, the interrupt of a level is armed in *)
(* TIER exactly when the driver's state says it is enabled ("Disable warn  *)
(* IRQ until re-enabled", imx8mp_tmu.c:338, "Re-arm IRQ only if globally   *)
(* enabled", imx8mp_tmu.c:255), when the driver is called on the CPU that  *)
(* gets the interrupt.  With a caller on another CPU it does not hold: the *)
(* handler changes TIER and the state without the lock.                    *)
TmuArmedIsEnabled ==
    (tmu_callers = {TmuIrqCpu} /\ tmu.lock = NoOwner /\ ~Handling(TmuIrqCpu)) => tmu.tier = tmu.enabled
=============================================================================
