------------------------------- MODULE Timer -------------------------------
(***************************************************************************)
(* The events of the timer of one CPU: kernel/time/timer.c and ksleep of   *)
(* time.c over drivers/timer/arm_generic_timer.c, with the two users the   *)
(* kernel has, the preemptive event of the scheduler and ksleep.           *)
(*                                                                         *)
(* HRTIMER() is a clock per CPU, so the only concurrency is between the    *)
(* code that runs and the timer interrupt.  The scheduler creates and      *)
(* cancels its event with interrupts masked; ksleep runs with interrupts   *)
(* enabled (wait_until_ready), so the interrupt may come between any two   *)
(* of its steps.  Sections of timer_lock and of irqsave are single steps.  *)
(* A use of a NULL event stops the system with the reason in crash.        *)
(***************************************************************************)
EXTENDS Integers, Sequences

CONSTANTS Mult, Shift,        \* clock->mult and shift: a tick is Mult / 2^Shift ns
          InvMult, InvShift,  \* clock->inv_mult and inv_shift
          Delays,             \* the delays events are created with, in ns
          MaxTick,            \* bound on the counter
          MaxNodes            \* bound on the events created

ASSUME TimerAssumption ==
    /\ Mult \in Nat \ {0} /\ Shift \in Nat /\ InvMult \in Nat /\ InvShift \in Nat
    /\ InvMult * Mult <= 2 ^ (Shift + InvShift)    \* compute_mult_shift rounds down
    /\ 2 ^ Shift \in Nat \ {0} /\ 2 ^ InvShift \in Nat \ {0}
    /\ MaxTick \in Nat /\ MaxNodes \in Nat
    /\ Delays \subseteq Nat

VARIABLES
    tick,       \* CNTVCT_EL0
    events,     \* clock->event_list
    cval,       \* CNTV_CVAL_EL0
    ctl,        \* CNTV_CTL_EL0: "off", "on" or "masked"
    at,         \* where the code outside the interrupt handler is
    node,       \* the event timer_create_event is inserting, or inserted last
    armtick,    \* the tick setup_head_timer computed
    uid,        \* timer_event_uid_counter
    prehandle,  \* the event runqueue.preemptive_event names, or 0
    flag,       \* the flag of ksleep
    irqat,      \* where the interrupt handler is
    expired,    \* the events handle_events took off the list and has not called
    fired,      \* history: the ids of the events called back
    crash       \* why the kernel stopped, or NoCrash

tvars == <<tick, events, cval, ctl, at, node, armtick, uid, prehandle, flag, irqat, expired, fired, crash>>

NoCrash == "none"
Kinds == {"preempt", "sleep"}
NoNode == [id |-> 0, kind |-> "preempt", expires |-> 0]

TickToNs(t) == (t * Mult) \div (2 ^ Shift)

(* clock_now; the offset of HRTIMER() is 0. *)
ClockNow == TickToNs(tick)

(* ns_to_tick; the tick it computes may be earlier than the time. *)
NsToTick(ns) == (ns * InvMult) \div (2 ^ InvShift)

(* time_ctrl_init_cpu, timer_init *)
TimerInit ==
    /\ tick = 0
    /\ events = <<>>
    /\ cval = 0 /\ ctl = "off"
    /\ at = "idle" /\ node = NoNode /\ armtick = 0
    /\ uid = 1
    /\ prehandle = 0
    /\ flag = FALSE
    /\ irqat = "none" /\ expired = <<>> /\ fired = {}
    /\ crash = NoCrash

(* timer_irq_notify_tick *)
NotifyTick(t) == cval' = t /\ ctl' = "on"

(* The code outside the handler runs, and goes to l. *)
Main(from, to) == /\ at = from /\ irqat = "none" /\ crash = NoCrash
                  /\ at' = to

---------------------------------------------------------------------------
(* timer_create_event_delta *)

(* The expiry is computed, the node allocated and filled. *)
Create(kind, d) ==
    /\ Main("idle", "insert")
    /\ uid <= MaxNodes /\ ClockNow + d <= TickToNs(MaxTick)
    /\ node' = [id |-> uid, kind |-> kind, expires |-> ClockNow + d]
    /\ uid' = uid + 1
    /\ flag' = IF kind = "sleep" THEN FALSE ELSE flag
    /\ UNCHANGED <<tick, events, cval, ctl, armtick, prehandle, irqat, expired, fired, crash>>

(* The walk along the list passes i events: those up to the first that     *)
(* expires later than e.                                                   *)
Passes(e, i) == /\ \A j \in 1 .. i : events[j].expires <= e.expires
                /\ i < Len(events) => events[i + 1].expires > e.expires

(* Variant of Insert: the new event goes to the end. *)
InsertLast ==
    /\ Main("insert", "check")
    /\ events' = Append(events, node)
    /\ UNCHANGED <<tick, cval, ctl, node, armtick, uid, prehandle, flag, irqat, expired, fired,
                   crash>>

Insert ==
    /\ Main("insert", "check")
    /\ \E i \in 0 .. Len(events) :
         /\ Passes(node, i)
         /\ events' = SubSeq(events, 1, i) \o <<node>> \o SubSeq(events, i + 1, Len(events))
    /\ UNCHANGED <<tick, cval, ctl, node, armtick, uid, prehandle, flag, irqat, expired, fired,
                   crash>>

(* Where a creation ends: the scheduler keeps the event in                  *)
(* preemptive_event, ksleep begins to wait.                                *)
Created == /\ at' = IF node.kind = "sleep" THEN "test" ELSE "idle"
           /\ prehandle' = IF node.kind = "preempt" THEN node.id ELSE prehandle

(* After the lock is released: "is head". *)
CheckHead ==
    /\ at = "check" /\ irqat = "none" /\ crash = NoCrash
    /\ IF events # <<>> /\ Head(events) = node
       THEN at' = "arm" /\ UNCHANGED prehandle
       ELSE Created
    /\ UNCHANGED <<tick, events, cval, ctl, node, armtick, uid, flag, irqat, expired, fired, crash>>

(* setup_head_timer reads the head, which an interrupt may have taken ... *)
Arm ==
    /\ Main("arm", "notify")
    /\ IF events = <<>>
       THEN crash' = "no_head" /\ UNCHANGED armtick
       ELSE armtick' = NsToTick(Head(events).expires) /\ UNCHANGED crash
    /\ UNCHANGED <<tick, events, cval, ctl, node, uid, prehandle, flag, irqat, expired, fired>>

(* ... and sets the timer. *)
ArmNotify ==
    /\ at = "notify" /\ irqat = "none" /\ crash = NoCrash
    /\ NotifyTick(armtick)
    /\ Created
    /\ UNCHANGED <<tick, events, node, armtick, uid, flag, irqat, expired, fired, crash>>

---------------------------------------------------------------------------
(* schedule() and timer_cancel_event *)

IdsOf(s) == {s[i].id : i \in DOMAIN s}

(* The event at place i leaves the list; the timer is set for a new head. *)
Unlink(i) ==
    /\ events' = SubSeq(events, 1, i - 1) \o SubSeq(events, i + 1, Len(events))
    /\ IF i = 1 /\ Len(events) > 1
       THEN NotifyTick(NsToTick(events[2].expires))
       ELSE UNCHANGED <<cval, ctl>>

Cancel ==
    /\ Main("idle", "idle")
    /\ prehandle # 0
    /\ prehandle' = 0
    /\ IF prehandle \notin IdsOf(events)
       THEN crash' = "no_event" /\ UNCHANGED <<events, cval, ctl>>
       ELSE /\ \E i \in DOMAIN events :
                 /\ events[i].id = prehandle
                 /\ \A j \in 1 .. (i - 1) : events[j].id # prehandle
                 /\ Unlink(i)
            /\ UNCHANGED crash
    /\ UNCHANGED <<tick, node, armtick, uid, flag, irqat, expired, fired>>

---------------------------------------------------------------------------
(* The loop of ksleep *)

Test ==
    /\ Main("test", IF flag THEN "idle" ELSE "wfi")
    /\ UNCHANGED <<tick, events, cval, ctl, node, armtick, uid, prehandle, flag, irqat,
                   expired, fired, crash>>

(* The interrupt is pending or in progress. *)
Pending == ctl = "on" /\ tick >= cval

(* wfi waits unless an interrupt is pending. *)
Wfi ==
    /\ ~Pending
    /\ Main("wfi", "waiting")
    /\ UNCHANGED <<tick, events, cval, ctl, node, armtick, uid, prehandle, flag, irqat,
                   expired, fired, crash>>

(* The interrupt of another device ends the wait. *)
OtherInterrupt ==
    /\ Main("waiting", "test")
    /\ UNCHANGED <<tick, events, cval, ctl, node, armtick, uid, prehandle, flag, irqat,
                   expired, fired, crash>>

---------------------------------------------------------------------------
(* timer_irq_handle and handle_events *)

(* Between Create and Created the scheduler has interrupts masked. *)
Unmasked == at = "idle" \/ node.kind = "sleep"

(* Variant of IrqEnter: the scheduler leaves interrupts enabled. *)
IrqEnterAnytime ==
    /\ irqat = "none" /\ crash = NoCrash
    /\ Pending
    /\ ctl' = "masked"
    /\ irqat' = "pop"
    /\ UNCHANGED <<tick, events, cval, at, node, armtick, uid, prehandle, flag, expired, fired,
                   crash>>

IrqEnter ==
    /\ irqat = "none" /\ crash = NoCrash /\ Unmasked
    /\ Pending
    /\ ctl' = "masked"
    /\ irqat' = "pop"
    /\ UNCHANGED <<tick, events, cval, at, node, armtick, uid, prehandle, flag, expired, fired,
                   crash>>

Due == events # <<>> /\ Head(events).expires <= ClockNow

PopExpired ==
    /\ irqat = "pop" /\ Due
    /\ expired' = Append(expired, Head(events))
    /\ events' = Tail(events)
    /\ UNCHANGED <<tick, cval, ctl, at, node, armtick, uid, prehandle, flag, irqat, fired, crash>>

(* Variant of PopDone: does not set the timer for the events that remain. *)
PopDoneUnarmed ==
    /\ irqat = "pop" /\ ~Due
    /\ irqat' = "call"
    /\ UNCHANGED <<tick, events, cval, ctl, at, node, armtick, uid, prehandle, flag, expired,
                   fired, crash>>

PopDone ==
    /\ irqat = "pop" /\ ~Due
    /\ IF events # <<>> THEN NotifyTick(NsToTick(Head(events).expires)) ELSE UNCHANGED <<cval, ctl>>
    /\ irqat' = "call"
    /\ UNCHANGED <<tick, events, at, node, armtick, uid, prehandle, flag, expired, fired, crash>>

(* event_preemptive_scheduling or ksleep_event. *)
Callback ==
    /\ irqat = "call" /\ expired # <<>>
    /\ IF Head(expired).kind = "sleep"
       THEN flag' = TRUE /\ UNCHANGED prehandle
       ELSE prehandle' = 0 /\ UNCHANGED flag
    /\ expired' = Tail(expired)
    /\ fired' = fired \cup {Head(expired).id}
    /\ UNCHANGED <<tick, events, cval, ctl, at, node, armtick, uid, irqat, crash>>

(* A timer that was not set again is switched off; a wait has ended. *)
IrqExit ==
    /\ irqat = "call" /\ expired = <<>>
    /\ ctl' = IF ctl = "masked" THEN "off" ELSE ctl
    /\ irqat' = "none"
    /\ at' = IF at = "waiting" THEN "test" ELSE at
    /\ UNCHANGED <<tick, events, cval, node, armtick, uid, prehandle, flag, expired, fired, crash>>

---------------------------------------------------------------------------
Tick == /\ tick < MaxTick
        /\ tick' = tick + 1
        /\ UNCHANGED <<events, cval, ctl, at, node, armtick, uid, prehandle, flag, irqat,
                       expired, fired, crash>>

MainStep == Insert \/ CheckHead \/ Arm \/ ArmNotify \/ Test \/ Wfi
IrqStep == IrqEnter \/ PopExpired \/ PopDone \/ Callback \/ IrqExit

TimerNext == \/ \E k \in Kinds, d \in Delays : Create(k, d)
             \/ MainStep \/ Cancel \/ OtherInterrupt \/ IrqStep \/ Tick

TimerSpec == TimerInit /\ [][TimerNext]_tvars

(* Time goes on, code goes on, and a pending interrupt is taken once it is *)
(* unmasked: it stays raised until the handler masks it.                   *)
TimerFairSpec == TimerSpec /\ WF_tvars(Tick) /\ WF_tvars(MainStep) /\ SF_tvars(IrqStep)

---------------------------------------------------------------------------
(* Properties *)

(* setup_head_timer has a head to set the timer for when the scheduler      *)
(* creates an event: with interrupts masked nothing empties the list.       *)
MaskedCreateIsSafe == crash # NoCrash => node.kind = "sleep"

(* The events of the list, and those called next, are a queue whose events *)
(* are called back in the order they expire, not before, and once.         *)
Waiting(s) == {[id |-> s[i].id, expires |-> s[i].expires] : i \in DOMAIN s}
Queue == INSTANCE EventQueue
    WITH Events <- [id : 1 .. MaxNodes, expires : 0 .. TickToNs(MaxTick)],
         queue <- Waiting(events \o expired), called <- fired, now <- ClockNow
RefinesEventQueue == Queue!QSpec

(* Every event is called back or cancelled, unless the kernel stopped. *)
EventsFire == \A i \in 1 .. MaxNodes :
                 i \in IdsOf(events) ~> i \notin IdsOf(events \o expired) \/ crash # NoCrash

(* ksleep returns: wait_until_ready sleeps and looks again ("and retry").  *)
SleepEnds == at = "test" ~> at = "idle" \/ crash # NoCrash
=============================================================================
