----------------------------- MODULE Scheduler -----------------------------
(***************************************************************************)
(* The SMP scheduler: src/kernel/scheduler/scheduler.c and task.c, the     *)
(* system calls that create and end threads, and the exception entry and   *)
(* exit that call them.  Every CPU has a runqueue (a circular list)        *)
(* protected by a recursive cpulock; a CPU takes the lock of its own       *)
(* runqueue when it enters the kernel from a thread and gives it back when *)
(* it returns to one.  Threads move between runqueues when a thread is     *)
(* reaped (try_balance_task).                                              *)
(*                                                                         *)
(* One step is one critical section or one access to shared memory.  The   *)
(* sections of threads_lock and runqueue_thread_counts_lock are single     *)
(* steps, so those two spinlocks are never seen held; the runqueue locks   *)
(* are kept in lock[c].  A PANIC or failed ASSERT, and a use of memory     *)
(* after it was freed, stop the system with the reason in halt.            *)
(***************************************************************************)
EXTENDS Integers, Sequences, FiniteSets

CONSTANTS NumCpus,     \* NUM_RUNQUEUES = NUM_CPUS
          MaxEvents,   \* bound on the pending preemptive events of a CPU
          Workloads    \* what the system may be given to do, see load

ASSUME SchedulerAssumption ==
    /\ NumCpus \in Nat \ {0}
    /\ MaxEvents \in Nat \ {0}
    /\ \A w \in Workloads : /\ w.threads \in Nat /\ Len(w.tasks) \in 1 .. w.threads
                            /\ w.tasks \in Seq({w.tasks[i] : i \in DOMAIN w.tasks})
                            /\ w.ops \subseteq {"yield", "spawn", "kill", "exit", "fault"}

CPUS == 0 .. (NumCpus - 1)
Tasks == UNION {{w.tasks[i] : i \in DOMAIN w.tasks} : w \in Workloads}
Threads == UNION {1 .. w.threads : w \in Workloads}    \* th_uid

NoCpu == -1
NoThread == 0
NoTask == "unmapped"    \* MM_MMU_UNMAPPED_LO
NoHalt == "none"

VARIABLES
    load,        \* the workload: the tasks kernel_entry starts, in order, a bound on the
                 \* threads ever created, and what threads do; it never changes
    state,       \* state[t]: thread_state, "none" before creation, "freed" after kfree
    owner,       \* owner[t]
    sched_cpu,   \* sched_cpu[t]
    tstate,      \* tstate[k]: task_state_e
    refs,        \* refs[k]: task->threads, newest first
    per_cpu,     \* per_cpu[k][c]: task->threads_per_cpu
    list,        \* list[c]: the circular list of runqueue c, from its head
    counts,      \* runqueue_thread_counts
    current,     \* current[c]: runqueue[c].current_thread
    required,    \* required[c]: schedule_required
    lock,        \* lock[c]: the CPU that holds runqueue[c].lock
    total,       \* total_threads
    next_uid,    \* thread_uid_counter
    ready,       \* the CPUs whose enter_ready_cores is set
    pend,        \* pend[c]: preemptive events pending in the timer of c
    handle,      \* handle[c]: preemptive_event.clock # NULL
    pc,          \* pc[c]: where CPU c is
    sel,         \* sel[c]: the node a runqueue loop of c looks at
    start,       \* start[c]: where the loop of runqueue_pick_ready began
    spawn,       \* spawn[c]: the thread schedule_thread is inserting, and where
    tofree,      \* tofree[c]: unqueued threads c frees when its loop ends
    entered,     \* entered[c]: c has left scheduler_loop_cpu_enter for a thread
    mapping,     \* mapping[c]: the task whose tables TTBR0_EL1 of c names
    halt         \* why the kernel stopped, or NoHalt

thread_vars == <<state, owner, sched_cpu, next_uid>>
task_vars == <<tstate, refs, per_cpu>>
queue_vars == <<list, counts>>
timer_vars == <<required, pend, handle>>
local_vars == <<sel, start, spawn, tofree, entered, mapping>>
vars == <<thread_vars, task_vars, queue_vars, timer_vars, local_vars,
          current, lock, total, ready, pc, halt, load>>

NoSpawn == [th |-> NoThread, rq |-> NoCpu, boot |-> FALSE]

(* scheduler_init and task_new; CPU 0 is about to start the boot tasks, the *)
(* others are about to call scheduler_loop_cpu_enter.                       *)
Init ==
    /\ load \in Workloads
    /\ state = [t \in Threads |-> "none"]
    /\ owner = [t \in Threads |-> load.tasks[1]]
    /\ sched_cpu = [t \in Threads |-> NoCpu]
    /\ next_uid = 1
    /\ tstate = [k \in Tasks |-> "NEW"]
    /\ refs = [k \in Tasks |-> <<>>]
    /\ per_cpu = [k \in Tasks |-> [c \in CPUS |-> 0]]
    /\ list = [c \in CPUS |-> <<>>]
    /\ counts = [c \in CPUS |-> 0]
    /\ current = [c \in CPUS |-> NoThread]
    /\ required = [c \in CPUS |-> FALSE]
    /\ pend = [c \in CPUS |-> 0]
    /\ handle = [c \in CPUS |-> FALSE]
    /\ lock = [c \in CPUS |-> NoCpu]
    /\ total = 0
    /\ ready = {}
    /\ pc = [c \in CPUS |-> IF c = 0 THEN "boot" ELSE "start"]
    /\ sel = [c \in CPUS |-> NoThread]
    /\ start = [c \in CPUS |-> NoThread]
    /\ spawn = [c \in CPUS |-> NoSpawn]
    /\ tofree = [c \in CPUS |-> {}]
    /\ entered = [c \in CPUS |-> FALSE]
    /\ mapping = [c \in CPUS |-> NoTask]
    /\ halt = NoHalt

---------------------------------------------------------------------------
(* Helpers *)

Goto(c, l) == pc' = [pc EXCEPT ![c] = l]

In(t, s) == \E i \in DOMAIN s : s[i] = t

Position(s, t) == CHOOSE i \in DOMAIN s : s[i] = t

(* The list once the node of t is unlinked. *)
Without(s, t) ==
    LET i == Position(s, t)
    IN  IF In(t, s) THEN SubSeq(s, 1, i - 1) \o SubSeq(s, i + 1, Len(s)) ELSE s

(* node->next in a circular list. *)
NextNode(s, t) == s[(Position(s, t) % Len(s)) + 1]

(* Lexicographic order on (threads of the task, threads of the runqueue). *)
Less(n, g, i, j) == n[i] < n[j] \/ (n[i] = n[j] /\ g[i] < g[j])

(* schedule_thread chooses runqueue i: the least loaded, the first of them. *)
BestRunqueue(k, i) ==
    \A j \in CPUS : /\ ~Less(per_cpu[k], counts, j, i)
                    /\ j < i => Less(per_cpu[k], counts, i, j)

(* try_balance_task chooses victim i: the most loaded, the first of them. *)
VictimRunqueue(n, g, i) ==
    \A j \in CPUS : /\ ~Less(n, g, i, j)
                    /\ j < i => Less(n, g, j, i)

(* task_get_any_thread_with_sched_cpu returns t: the first such thread of the *)
(* list, or NoThread, which stands for NULL.                                *)
AnyThreadWith(rs, cpu, t) ==
    \/ t = NoThread /\ \A i \in DOMAIN rs : sched_cpu[rs[i]] # cpu
    \/ \E i \in DOMAIN rs : /\ rs[i] = t /\ sched_cpu[t] = cpu
                            /\ \A j \in 1 .. (i - 1) : sched_cpu[rs[j]] # cpu

FreeAll(st, ts) == [t \in Threads |-> IF t \in ts THEN "freed" ELSE st[t]]

---------------------------------------------------------------------------
(* schedule_thread *)

(* Under threads_lock and the counts lock: choose a runqueue, initialise   *)
(* the thread as NEW and add the reference to its task.                    *)
SpawnChoose(c, k, boot) ==
    LET t == next_uid
    IN  /\ t <= load.threads
        /\ next_uid' = t + 1
        /\ state' = [state EXCEPT ![t] = "NEW"]
        /\ owner' = [owner EXCEPT ![t] = k]
        /\ refs' = [refs EXCEPT ![k] = <<t>> \o @]
        /\ \E i \in CPUS :
             /\ BestRunqueue(k, i)
             /\ sched_cpu' = [sched_cpu EXCEPT ![t] = i]
             /\ per_cpu' = [per_cpu EXCEPT ![k][i] = @ + 1]
             /\ spawn' = [spawn EXCEPT ![c] = [th |-> t, rq |-> i, boot |-> boot]]
        /\ Goto(c, "sp_try")
        /\ UNCHANGED <<tstate, queue_vars, timer_vars, sel, start, tofree, entered, mapping,
                       current, lock, total, ready, halt>>

(* cpulock_trylock of the chosen runqueue. *)
SpawnTry(c) ==
    LET i == spawn[c].rq
    IN  /\ pc[c] = "sp_try"
        /\ IF lock[i] \in {NoCpu, c}
           THEN lock' = [lock EXCEPT ![i] = c] /\ Goto(c, "sp_insert")
           ELSE lock' = lock /\ Goto(c, IF i # c THEN "sp_move" ELSE "sp_acquire")
        /\ UNCHANGED <<thread_vars, task_vars, queue_vars, timer_vars, local_vars,
                       current, total, ready, halt>>

(* Variant of SpawnMove: the count of the busy runqueue is not given back. *)
SpawnMoveKeepsCount(c) ==
    LET k == owner[spawn[c].th]
    IN  /\ pc[c] = "sp_move"
        /\ per_cpu' = [per_cpu EXCEPT ![k][c] = @ + 1]
        /\ spawn' = [spawn EXCEPT ![c].rq = c]
        /\ Goto(c, "sp_acquire")
        /\ UNCHANGED <<thread_vars, tstate, refs, queue_vars, timer_vars, sel, start, tofree,
                       entered, mapping, current, lock, total, ready, halt>>

(* The chosen runqueue is busy: use the own one. *)
SpawnMove(c) ==
    LET k == owner[spawn[c].th]
    IN  /\ pc[c] = "sp_move"
        /\ per_cpu' = [per_cpu EXCEPT ![k][spawn[c].rq] = @ - 1, ![k][c] = @ + 1]
        /\ spawn' = [spawn EXCEPT ![c].rq = c]
        /\ Goto(c, "sp_acquire")
        /\ UNCHANGED <<thread_vars, tstate, refs, queue_vars, timer_vars, sel, start, tofree,
                       entered, mapping, current, lock, total, ready, halt>>

SpawnAcquire(c) ==
    /\ pc[c] = "sp_acquire"
    /\ lock[c] \in {NoCpu, c}
    /\ lock' = [lock EXCEPT ![c] = c]
    /\ Goto(c, "sp_insert")
    /\ UNCHANGED <<thread_vars, task_vars, queue_vars, timer_vars, local_vars,
                   current, total, ready, halt>>

(* Variant of SpawnInsert: sched_cpu keeps the runqueue chosen first. *)
SpawnInsertOldCpu(c) ==
    LET t == spawn[c].th
        i == spawn[c].rq
    IN  /\ pc[c] = "sp_insert"
        /\ list' = [list EXCEPT ![i] = Append(@, t)]
        /\ counts' = [counts EXCEPT ![i] = @ + 1]
        /\ lock' = [lock EXCEPT ![i] = IF i = c /\ ~spawn[c].boot THEN c ELSE NoCpu]
        /\ Goto(c, "sp_count")
        /\ UNCHANGED <<thread_vars, task_vars, timer_vars, local_vars,
                       current, total, ready, halt>>

(* runqueue_insert_node and the release: a CPU that came from a thread     *)
(* still holds the lock of its own runqueue.                               *)
SpawnInsert(c) ==
    LET t == spawn[c].th
        i == spawn[c].rq
    IN  /\ pc[c] = "sp_insert"
        /\ sched_cpu' = [sched_cpu EXCEPT ![t] = i]
        /\ list' = [list EXCEPT ![i] = Append(@, t)]
        /\ counts' = [counts EXCEPT ![i] = @ + 1]
        /\ lock' = [lock EXCEPT ![i] = IF i = c /\ ~spawn[c].boot THEN c ELSE NoCpu]
        /\ Goto(c, "sp_count")
        /\ UNCHANGED <<state, owner, next_uid, task_vars, timer_vars, local_vars,
                       current, total, ready, halt>>

SpawnCount(c) ==
    /\ pc[c] = "sp_count"
    /\ total' = total + 1
    /\ Goto(c, "sp_ready")
    /\ UNCHANGED <<thread_vars, task_vars, queue_vars, timer_vars, local_vars,
                   current, lock, ready, halt>>

(* Variant of SpawnReady: a store in place of the compare-and-exchange. *)
SpawnReadyStore(c) ==
    /\ pc[c] = "sp_ready"
    /\ state' = [state EXCEPT ![spawn[c].th] = "READY"]
    /\ spawn' = [spawn EXCEPT ![c] = NoSpawn]
    /\ Goto(c, IF spawn[c].boot THEN "boot" ELSE "load")
    /\ UNCHANGED <<owner, sched_cpu, next_uid, task_vars, queue_vars, timer_vars, sel, start,
                   tofree, entered, mapping, current, lock, total, ready, halt>>

(* start_ready at boot; syscall64_spawn writes the registers of the new    *)
(* thread and calls thread_promote_to_ready, which asserts that it is NEW. *)
SpawnReady(c) ==
    LET t == spawn[c].th
    IN  /\ pc[c] = "sp_ready"
        /\ state' = [state EXCEPT ![t] = IF @ = "NEW" THEN "READY" ELSE @]
        /\ halt' = CASE state[t] = "NEW" -> NoHalt
                     [] state[t] = "freed" -> "used_after_free"
                     [] OTHER -> IF spawn[c].boot THEN NoHalt ELSE "promoted_not_new"
        /\ spawn' = [spawn EXCEPT ![c] = NoSpawn]
        /\ Goto(c, IF spawn[c].boot THEN "boot" ELSE "load")
        /\ UNCHANGED <<owner, sched_cpu, next_uid, task_vars, queue_vars, timer_vars, sel, start,
                       tofree, entered, mapping, current, lock, total, ready>>

---------------------------------------------------------------------------
(* unqueue_thread *)

(* Variant of Stealable: whatever runs on the victim CPU. *)
StealableAny(v, w, st) == TRUE

(* try_balance_task leaves a thread alone that its CPU runs or is about to. *)
Stealable(v, w, st) == st[w] # "RUNNING" /\ current[v] # w

(* Variant of VictimFree: the result of the trylock is ignored. *)
VictimFreeAny(v) == TRUE

(* The trylock of the victim's runqueue. *)
VictimFree(v) == lock[v] = NoCpu

(* CPU c, holding the lock of its runqueue, takes thread t out of it, drops *)
(* the reference of its task (a task without threads is DEAD) and, still    *)
(* under threads_lock and the counts lock, tries to take over a thread of   *)
(* the same task from the runqueue that has most of them.  st is the state  *)
(* of the threads after the caller's own write.  total_threads follows in   *)
(* the next step.  A thread found by its reference may not be linked yet;   *)
(* its links are then whatever kmalloc left in them, and the model ends.    *)
Unqueue(c, t, st) ==
    LET k == owner[t]
        rs == Without(refs[k], t)
        ls == [list EXCEPT ![c] = Without(@, t)]
        g == [counts EXCEPT ![c] = @ - 1]
        n == [per_cpu[k] EXCEPT ![sched_cpu[t]] = @ - 1]
    IN  /\ state' = st
        /\ tofree' = [tofree EXCEPT ![c] = @ \cup {t}]
        /\ current' = [current EXCEPT ![c] = IF @ = t THEN NoThread ELSE @]
        /\ refs' = [refs EXCEPT ![k] = rs]
        /\ tstate' = [tstate EXCEPT ![k] = IF rs = <<>> THEN "DEAD" ELSE @]
        /\ \E v \in CPUS, w \in Threads \cup {NoThread} :
             LET tries == n[v] - n[c] > 1 /\ VictimFree(v)
                 takes == tries /\ w # NoThread /\ Stealable(v, w, st)
                 steals == takes /\ In(w, list[v])
             IN  /\ VictimRunqueue(n, g, v)
                 /\ AnyThreadWith(rs, v, w)
                 /\ halt' = CASE rs = <<>> /\ tstate[k] = "DEAD" -> "died_twice"
                              [] tries /\ w = NoThread -> "nothing_to_balance"
                              [] takes /\ ~steals -> "unlinked_removed"
                              [] OTHER -> NoHalt
                 /\ IF steals
                    THEN /\ list' = [ls EXCEPT ![v] = Without(@, w), ![c] = Append(@, w)]
                         /\ counts' = [g EXCEPT ![v] = @ - 1, ![c] = @ + 1]
                         /\ per_cpu' = [per_cpu EXCEPT ![k] = [n EXCEPT ![v] = @ - 1, ![c] = @ + 1]]
                         /\ sched_cpu' = [sched_cpu EXCEPT ![w] = c]
                    ELSE /\ list' = ls
                         /\ counts' = g
                         /\ per_cpu' = [per_cpu EXCEPT ![k] = n]
                         /\ UNCHANGED sched_cpu

---------------------------------------------------------------------------
(* Boot, scheduler_loop_cpu_enter and wait_until_ready *)

(* kernel_entry starts the boot tasks on CPU 0, then enters the scheduler. *)
BootNext(c) ==
    /\ pc[c] = "boot"
    /\ IF next_uid <= Len(load.tasks)
       THEN SpawnChoose(c, load.tasks[next_uid], TRUE)
       ELSE /\ Goto(c, "start")
            /\ UNCHANGED <<thread_vars, task_vars, queue_vars, timer_vars, local_vars,
                           current, lock, total, ready, halt>>

EnterMark(c) ==
    /\ pc[c] = "start"
    /\ ready' = ready \cup {c}
    /\ Goto(c, "enter")
    /\ UNCHANGED <<thread_vars, task_vars, queue_vars, timer_vars, local_vars,
                   current, lock, total, halt>>

(* Past the barrier; the CPU takes the lock of its runqueue, at the start   *)
(* or each time ksleep returns.                                            *)
WaitAcquire(c) ==
    /\ (pc[c] = "enter" /\ ready = CPUS) \/ pc[c] = "sleep"
    /\ lock[c] = NoCpu
    /\ lock' = [lock EXCEPT ![c] = c]
    /\ Goto(c, "wait")
    /\ UNCHANGED <<thread_vars, task_vars, queue_vars, timer_vars, local_vars,
                   current, total, ready, halt>>

(* One round of wait_until_ready.  When no thread is left the CPU leaves   *)
(* the scheduler: through the cleanup of cpulocked() if it never ran a     *)
(* thread, else from scheduler_ectx_load, which keeps the lock.            *)
WaitCheck(c) ==
    /\ pc[c] = "wait"
    /\ \/ /\ total = 0
          /\ Goto(c, "exited")
          /\ lock' = [lock EXCEPT ![c] = IF entered[c] THEN c ELSE NoCpu]
          /\ UNCHANGED <<sel, start>>
       \/ /\ total # 0 /\ list[c] = <<>>
          /\ Goto(c, "sleep")
          /\ lock' = [lock EXCEPT ![c] = NoCpu]
          /\ UNCHANGED <<sel, start>>
       \/ /\ total # 0 /\ list[c] # <<>>
          /\ sel' = [sel EXCEPT ![c] = Head(list[c])]
          /\ start' = [start EXCEPT ![c] = Head(list[c])]
          /\ Goto(c, "pick")
          /\ UNCHANGED lock
    /\ UNCHANGED <<thread_vars, task_vars, queue_vars, timer_vars, spawn, tofree, entered, mapping,
                   current, total, ready, halt>>

(* timer_create_event_delta for the preemptive event. *)
CreateEvent(c) == /\ pend' = [pend EXCEPT ![c] = @ + 1]
                  /\ handle' = [handle EXCEPT ![c] = TRUE]
                  /\ UNCHANGED required

(* Variant of set_thread_mapping: only the first thread of a CPU. *)
set_thread_mappingOnce(c, t) ==
    mapping' = [mapping EXCEPT ![c] = IF @ = NoTask THEN owner[t] ELSE @]

set_thread_mapping(c, t) == mapping' = [mapping EXCEPT ![c] = owner[t]]

(* The loop of a runqueue ends with thread t: it becomes the current       *)
(* thread, the unqueued threads are freed and the lock is released.        *)
RunThread(c, t) ==
    /\ state' = FreeAll([state EXCEPT ![t] = "RUNNING"], tofree[c])
    /\ tofree' = [tofree EXCEPT ![c] = {}]
    /\ current' = [current EXCEPT ![c] = t]
    /\ set_thread_mapping(c, t)
    /\ entered' = [entered EXCEPT ![c] = TRUE]
    /\ lock' = [lock EXCEPT ![c] = NoCpu]
    /\ sel' = [sel EXCEPT ![c] = NoThread]
    /\ start' = [start EXCEPT ![c] = NoThread]
    /\ Goto(c, "user")

(* runqueue_pick_ready returns NULL: wait_until_ready releases and sleeps. *)
PickNone(c) ==
    /\ state' = FreeAll(state, tofree[c])
    /\ tofree' = [tofree EXCEPT ![c] = {}]
    /\ lock' = [lock EXCEPT ![c] = NoCpu]
    /\ sel' = [sel EXCEPT ![c] = NoThread]
    /\ start' = [start EXCEPT ![c] = NoThread]
    /\ Goto(c, "sleep")

(* One node of the loop of runqueue_pick_ready.  Only the first thread a   *)
(* CPU runs gets a preemptive event here (scheduler_loop_cpu_enter).       *)
PickReady(c) ==
    /\ pc[c] = "pick" /\ state[sel[c]] = "READY"
    /\ RunThread(c, sel[c])
    /\ IF entered[c] THEN UNCHANGED timer_vars ELSE CreateEvent(c)
    /\ UNCHANGED <<owner, sched_cpu, next_uid, task_vars, queue_vars, spawn,
                   total, ready, halt>>

PickDead(c) ==
    LET t == sel[c]
        next == NextNode(list[c], t)
    IN  /\ pc[c] = "pick" /\ state[t] = "DEAD"
        /\ Unqueue(c, t, state)
        /\ sel' = [sel EXCEPT ![c] = IF next = t THEN NoThread ELSE next]
        /\ Goto(c, "pick_uncount")
        /\ UNCHANGED <<owner, next_uid, timer_vars, start, spawn, entered, mapping, lock, total, ready>>

PickUncount(c) ==
    /\ pc[c] = "pick_uncount"
    /\ total' = total - 1
    /\ IF sel[c] \in {NoThread, start[c]}
       THEN PickNone(c)
       ELSE Goto(c, "pick") /\ UNCHANGED <<state, tofree, lock, sel, start>>
    /\ UNCHANGED <<owner, sched_cpu, next_uid, task_vars, queue_vars, timer_vars, spawn, entered, mapping,
                   current, ready, halt>>

PickSkip(c) ==
    LET next == NextNode(list[c], sel[c])
    IN  /\ pc[c] = "pick" /\ state[sel[c]] \notin {"READY", "DEAD"}
        /\ IF next = start[c]
           THEN PickNone(c)
           ELSE /\ sel' = [sel EXCEPT ![c] = next]
                /\ UNCHANGED <<state, tofree, lock, start, pc>>
        /\ UNCHANGED <<owner, sched_cpu, next_uid, task_vars, queue_vars, timer_vars, spawn,
                       entered, mapping, current, total, ready, halt>>

---------------------------------------------------------------------------
(* Entering the kernel from a thread: scheduler_ectx_store takes the lock  *)
(* of the own runqueue. *)

(* A system call, a fault or an interrupt other than the preemptive event. *)
Trap(c) ==
    /\ pc[c] = "user" /\ lock[c] = NoCpu /\ pend[c] < MaxEvents
    /\ lock' = [lock EXCEPT ![c] = c]
    /\ Goto(c, "kernel")
    /\ UNCHANGED <<thread_vars, task_vars, queue_vars, timer_vars, local_vars,
                   current, total, ready, halt>>

(* Variant of EventFires: preemptive_event.clock is not reset. *)
EventFiresKeepsHandle(c) == /\ pend[c] > 0
                            /\ pend' = [pend EXCEPT ![c] = @ - 1]
                            /\ required' = [required EXCEPT ![c] = TRUE]
                            /\ UNCHANGED handle

(* event_preemptive_scheduling, for the oldest pending event. *)
EventFires(c) == /\ pend[c] > 0
                 /\ pend' = [pend EXCEPT ![c] = @ - 1]
                 /\ handle' = [handle EXCEPT ![c] = FALSE]
                 /\ required' = [required EXCEPT ![c] = TRUE]

(* The timer interrupts the thread ... *)
TimerTrap(c) ==
    /\ pc[c] = "user" /\ lock[c] = NoCpu
    /\ EventFires(c)
    /\ lock' = [lock EXCEPT ![c] = c]
    /\ Goto(c, "load")
    /\ UNCHANGED <<thread_vars, task_vars, queue_vars, local_vars, current, total, ready, halt>>

(* ... or the kernel while it has interrupts enabled. *)
TimerNested(c) ==
    /\ pc[c] \in {"kernel", "sleep"}
    /\ EventFires(c)
    /\ UNCHANGED <<thread_vars, task_vars, queue_vars, local_vars, current, lock, total, ready,
                   pc, halt>>

(* schedule(): cancel the preemptive event the handle names, if any. *)
Schedule(c) == /\ required' = [required EXCEPT ![c] = TRUE]
               /\ handle' = [handle EXCEPT ![c] = FALSE]
               /\ pend' = [pend EXCEPT ![c] = IF handle[c] THEN @ - 1 ELSE @]

CurrentTask(c) == owner[current[c]]

(* A system call or interrupt that does not concern the scheduler. *)
Other(c) ==
    /\ pc[c] = "kernel"
    /\ Goto(c, "load")
    /\ UNCHANGED <<thread_vars, task_vars, queue_vars, timer_vars, local_vars,
                   current, lock, total, ready, halt>>

Yield(c) ==
    /\ pc[c] = "kernel" /\ "yield" \in load.ops
    /\ Schedule(c)
    /\ Goto(c, "load")
    /\ UNCHANGED <<thread_vars, task_vars, queue_vars, local_vars, current, lock, total, ready, halt>>

(* terminate_task, from the exit system call ... *)
Exit(c) ==
    /\ pc[c] = "kernel" /\ "exit" \in load.ops
    /\ tstate' = [tstate EXCEPT ![CurrentTask(c)] = "DYING"]
    /\ Schedule(c)
    /\ Goto(c, "load")
    /\ UNCHANGED <<thread_vars, refs, per_cpu, queue_vars, local_vars, current, lock, total,
                   ready, halt>>

(* ... and from the fault handlers, which do not call schedule(). *)
Fault(c) ==
    /\ pc[c] = "kernel" /\ "fault" \in load.ops
    /\ tstate' = [tstate EXCEPT ![CurrentTask(c)] = "DYING"]
    /\ Goto(c, "load")
    /\ UNCHANGED <<thread_vars, refs, per_cpu, queue_vars, timer_vars, local_vars, current, lock,
                   total, ready, halt>>

(* syscall64_kill of any thread id. *)
Kill(c, t) ==
    /\ pc[c] = "kernel" /\ "kill" \in load.ops
    /\ state' = [state EXCEPT ![t] = IF In(t, refs[CurrentTask(c)]) THEN "DEAD" ELSE @]
    /\ Goto(c, "load")
    /\ UNCHANGED <<owner, sched_cpu, next_uid, task_vars, queue_vars, timer_vars, local_vars,
                   current, lock, total, ready, halt>>

SyscallSpawn(c) ==
    /\ pc[c] = "kernel" /\ "spawn" \in load.ops
    /\ SpawnChoose(c, CurrentTask(c), FALSE)

---------------------------------------------------------------------------
(* scheduler_ectx_load and runqueue_schedule *)

ScheduleIsRequired(c) == required[c] \/ state[current[c]] = "DEAD"

LoadResume(c) ==
    /\ pc[c] = "load" /\ ~ScheduleIsRequired(c)
    /\ set_thread_mapping(c, current[c])
    /\ lock' = [lock EXCEPT ![c] = NoCpu]
    /\ Goto(c, "user")
    /\ UNCHANGED <<thread_vars, task_vars, queue_vars, timer_vars, sel, start, spawn, tofree,
                   entered, current, total, ready, halt>>

(* Variants of LoadPreempt: no case for a DEAD thread; the loop starts at   *)
(* the head of the list.                                                   *)
LoadPreemptDead(c) ==
    LET t == current[c]
    IN  /\ pc[c] = "load" /\ ScheduleIsRequired(c)
        /\ halt' = IF state[t] = "RUNNING" THEN NoHalt ELSE "current_not_running"
        /\ state' = [state EXCEPT ![t] = "READY"]
        /\ sel' = [sel EXCEPT ![c] = NextNode(list[c], t)]
        /\ Goto(c, "loop")
        /\ UNCHANGED <<owner, sched_cpu, next_uid, task_vars, queue_vars, timer_vars, start, spawn,
                       tofree, entered, mapping, current, lock, total, ready>>
LoadPreemptFromHead(c) ==
    /\ pc[c] = "load" /\ ScheduleIsRequired(c) /\ state[current[c]] # "DEAD"
    /\ state' = [state EXCEPT ![current[c]] = "READY"]
    /\ sel' = [sel EXCEPT ![c] = Head(list[c])]
    /\ Goto(c, "loop")
    /\ UNCHANGED <<owner, sched_cpu, next_uid, task_vars, queue_vars, timer_vars, start, spawn,
                   tofree, entered, mapping, current, lock, total, ready, halt>>

(* The current thread is put back to READY; the loop starts after it. *)
LoadPreempt(c) ==
    LET t == current[c]
    IN  /\ pc[c] = "load" /\ ScheduleIsRequired(c) /\ state[t] # "DEAD"
        /\ halt' = IF state[t] = "RUNNING" THEN NoHalt ELSE "current_not_running"
        /\ state' = [state EXCEPT ![t] = "READY"]
        /\ sel' = [sel EXCEPT ![c] = NextNode(list[c], t)]
        /\ Goto(c, "loop")
        /\ UNCHANGED <<owner, sched_cpu, next_uid, task_vars, queue_vars, timer_vars, start, spawn,
                       tofree, entered, mapping, current, lock, total, ready>>

(* A thread is unqueued inside runqueue_schedule: the loop goes on with    *)
(* the node after it, or with the list it left.                            *)
Reap(c, t, st) ==
    LET next == NextNode(list[c], t)
    IN  /\ Unqueue(c, t, st)
        /\ sel' = [sel EXCEPT ![c] = IF next # t THEN next
                                     ELSE IF list'[c] = <<>> THEN NoThread ELSE Head(list'[c])]
        /\ Goto(c, "uncount")
        /\ UNCHANGED <<owner, next_uid, timer_vars, start, spawn, entered, mapping, lock, total, ready>>

LoadDead(c) ==
    /\ pc[c] = "load" /\ ScheduleIsRequired(c) /\ state[current[c]] = "DEAD"
    /\ Reap(c, current[c], state)

(* Variant of Dying: the loop does not look at the task. *)
DyingIgnored(t) == FALSE

(* The owner of t has been terminated. *)
Dying(t) == tstate[owner[t]] = "DYING"

LoopReapDying(c) ==
    /\ pc[c] = "loop" /\ Dying(sel[c])
    /\ Reap(c, sel[c], [state EXCEPT ![sel[c]] = "DEAD"])

(* Variant of LoopReapDead: a DEAD thread is passed over. *)
LoopSkipDead(c) ==
    /\ pc[c] = "loop" /\ ~Dying(sel[c]) /\ state[sel[c]] = "DEAD"
    /\ sel' = [sel EXCEPT ![c] = NextNode(list[c], @)]
    /\ UNCHANGED <<thread_vars, task_vars, queue_vars, timer_vars, start, spawn, tofree, entered, mapping,
                   current, lock, total, ready, pc, halt>>

LoopReapDead(c) ==
    /\ pc[c] = "loop" /\ ~Dying(sel[c]) /\ state[sel[c]] = "DEAD"
    /\ Reap(c, sel[c], state)

(* NEW threads are passed over; a RUNNING one is a PANIC. *)
LoopSkip(c) ==
    /\ pc[c] = "loop" /\ ~Dying(sel[c]) /\ state[sel[c]] \in {"NEW", "RUNNING"}
    /\ sel' = [sel EXCEPT ![c] = NextNode(list[c], @)]
    /\ halt' = IF state[sel[c]] = "NEW" THEN NoHalt ELSE "scheduled_running"
    /\ UNCHANGED <<thread_vars, task_vars, queue_vars, timer_vars, start, spawn, tofree, entered, mapping,
                   current, lock, total, ready, pc>>

LoopSwitch(c) ==
    /\ pc[c] = "loop" /\ ~Dying(sel[c]) /\ state[sel[c]] = "READY"
    /\ RunThread(c, sel[c])
    /\ CreateEvent(c)
    /\ UNCHANGED <<owner, sched_cpu, next_uid, task_vars, queue_vars, spawn, total, ready, halt>>

(* Variant of Uncount: total_threads is not decremented. *)
UncountNever(c) ==
    /\ pc[c] = "uncount"
    /\ IF list[c] = <<>>
       THEN /\ current' = [current EXCEPT ![c] = NoThread]
            /\ state' = FreeAll(state, tofree[c])
            /\ tofree' = [tofree EXCEPT ![c] = {}]
            /\ Goto(c, "wait")
       ELSE Goto(c, "loop") /\ UNCHANGED <<current, state, tofree>>
    /\ UNCHANGED <<owner, sched_cpu, next_uid, task_vars, queue_vars, timer_vars, sel, start,
                   spawn, entered, mapping, lock, total, ready, halt>>

(* total_threads follows the removal; with an empty runqueue (null_return) *)
(* the CPU waits for threads.                                              *)
Uncount(c) ==
    /\ pc[c] = "uncount"
    /\ total' = total - 1
    /\ IF list[c] = <<>>
       THEN /\ current' = [current EXCEPT ![c] = NoThread]
            /\ state' = FreeAll(state, tofree[c])
            /\ tofree' = [tofree EXCEPT ![c] = {}]
            /\ Goto(c, "wait")
       ELSE Goto(c, "loop") /\ UNCHANGED <<current, state, tofree>>
    /\ UNCHANGED <<owner, sched_cpu, next_uid, task_vars, queue_vars, timer_vars, sel, start,
                   spawn, entered, mapping, lock, ready, halt>>

---------------------------------------------------------------------------
Spawning(c) == \/ SpawnTry(c) \/ SpawnMove(c) \/ SpawnAcquire(c) \/ SpawnInsert(c)
               \/ SpawnCount(c) \/ SpawnReady(c)
Waiting(c) == \/ BootNext(c) \/ EnterMark(c) \/ WaitAcquire(c) \/ WaitCheck(c)
              \/ PickReady(c) \/ PickDead(c) \/ PickUncount(c) \/ PickSkip(c)
Loading(c) == \/ LoadResume(c) \/ LoadPreempt(c) \/ LoadDead(c) \/ LoopReapDying(c)
              \/ LoopReapDead(c) \/ LoopSkip(c) \/ LoopSwitch(c) \/ Uncount(c)
Handling(c) == \/ Other(c) \/ Yield(c) \/ Exit(c) \/ Fault(c) \/ SyscallSpawn(c)
               \/ \E t \in Threads : Kill(c, t)

(* What a CPU does in the kernel. *)
Kernel(c) == (Spawning(c) \/ Waiting(c) \/ Loading(c) \/ Handling(c)) /\ UNCHANGED load

TimerInterrupt(c) == (TimerTrap(c) \/ TimerNested(c)) /\ UNCHANGED load

SystemCall(c) == Trap(c) /\ UNCHANGED load

Running == halt = NoHalt

(* All CPUs left the scheduler and wait for interrupts, or the kernel stopped. *)
Stopped == /\ halt # NoHalt \/ \A c \in CPUS : pc[c] = "exited"
           /\ UNCHANGED vars

Next == \/ Running /\ \E c \in CPUS : Kernel(c) \/ SystemCall(c) \/ TimerInterrupt(c)
        \/ Stopped

Spec == Init /\ [][Next]_vars

(* Fairness.  A CPU in the kernel goes on, and a timer event that stays     *)
(* pending is delivered: the interrupt is level-held by the timer, so no    *)
(* sequence of kernel entries that mask it for a while can lose it.         *)
KernelFairness == \A c \in CPUS : /\ WF_vars(Running /\ Kernel(c))
                                  /\ SF_vars(Running /\ TimerInterrupt(c))
FairSpec == Spec /\ KernelFairness

(* In addition every thread enters the kernel again by itself, as a thread *)
(* does that makes system calls.                                           *)
CooperativeSpec == FairSpec /\ \A c \in CPUS : WF_vars(Running /\ SystemCall(c))

---------------------------------------------------------------------------
(* Properties *)

(* schedule_thread has chosen a runqueue for t and not inserted it yet. *)
InFlight(t) == \E c \in CPUS : /\ spawn[c].th = t
                              /\ pc[c] \in {"sp_try", "sp_move", "sp_acquire", "sp_insert"}

Queued(t) == \E c \in CPUS : In(t, list[c])

(* The lists are consistent with each other: a thread is on at most one    *)
(* runqueue, once, the one its sched_cpu names; a task has a reference to  *)
(* exactly the threads that are on a runqueue or on the way to one; no     *)
(* list, reference or current_thread names a freed thread.                 *)
QueuesConsistent ==
    /\ \A c \in CPUS : \A i, j \in DOMAIN list[c] : list[c][i] = list[c][j] => i = j
    /\ \A t \in Threads, c \in CPUS : In(t, list[c]) => sched_cpu[t] = c
    /\ \A t \in Threads : In(t, refs[owner[t]]) <=> Queued(t) \/ InFlight(t)
    /\ \A t \in Threads : Queued(t) \/ InFlight(t) => state[t] \notin {"none", "freed"}
    /\ \A c \in CPUS : current[c] # NoThread => In(current[c], list[c])

(* The load figures that schedule_thread and try_balance_task read: the    *)
(* length of every runqueue, the threads of a task per runqueue, and       *)
(* total_threads up to the updates still to come.                          *)
Home(t) == IF InFlight(t) /\ \E c \in CPUS : spawn[c].th = t
           THEN (CHOOSE s \in {spawn[c] : c \in CPUS} : s.th = t).rq
           ELSE sched_cpu[t]
CpusAt(ls) == Cardinality({c \in CPUS : pc[c] \in ls})
CountsExact ==
    /\ \A c \in CPUS : counts[c] = Len(list[c])
    /\ \A k \in Tasks, c \in CPUS :
           per_cpu[k][c] = Cardinality({i \in DOMAIN refs[k] : Home(refs[k][i]) = c})
    /\ total = Cardinality({t \in Threads : Queued(t)})
                + CpusAt({"uncount", "pick_uncount"}) - CpusAt({"sp_count"})

(* No thread runs on two CPUs: a RUNNING thread is the current thread of   *)
(* exactly one CPU, and a CPU in user mode runs a thread of its runqueue   *)
(* that is RUNNING or was killed meanwhile.                                *)
RunsOnOneCpu ==
    /\ \A c, d \in CPUS : current[c] = current[d] /\ current[c] # NoThread => c = d
    /\ \A c \in CPUS : current[c] # NoThread => sched_cpu[current[c]] = c
    /\ \A t \in Threads : state[t] = "RUNNING" => \E c \in CPUS : current[c] = t
    /\ \A c \in CPUS : pc[c] = "user" =>
          current[c] # NoThread /\ state[current[c]] \in {"RUNNING", "DEAD"}

(* A CPU that runs a thread, or handles its system call or fault, has the  *)
(* tables of the thread's task in TTBR0_EL1, although they stay there when *)
(* the thread is gone and threads move between CPUs (scheduler.c:148).     *)
OwnAddressSpace == \A c \in CPUS : pc[c] \in {"user", "kernel"} => mapping[c] = owner[current[c]]

(* schedule() cancels the preemptive event only while it is pending:       *)
(* timer_cancel_event dereferences the event it looks for.                 *)
HandleNamesPendingEvent == \A c \in CPUS : handle[c] => pend[c] > 0

(* A killed thread never runs again, a freed one is never touched, and a   *)
(* dead task stays dead.                                                   *)
DeadStaysDead ==
    /\ \A t \in Threads : state[t] = "DEAD" => state'[t] \in {"DEAD", "freed"}
    /\ \A t \in Threads : state[t] = "freed" => state'[t] = "freed"
    /\ \A k \in Tasks : tstate[k] = "DEAD" => tstate'[k] = "DEAD"
DeathIsFinal == [][DeadStaysDead]_vars

(* The kernel never stops with a failed assertion. *)
NoPanic == halt = NoHalt

(* The assertions of the scheduler hold as long as no thread calls spawn:   *)
(* boot threads that yield, exit, fault and kill cannot stop the kernel.    *)
NoPanicWithoutSpawn == "spawn" \notin load.ops => NoPanic

(* try_balance_task finds a thread by the references of its task and takes  *)
(* it out of a runqueue: it is one that schedule_thread has linked there,   *)
(* although the task has the reference before (scheduler.c:119-121: "a new  *)
(* thread must be stolen from another runqueue", and the assertion at 615). *)
StolenIsQueued == halt \notin {"nothing_to_balance", "unlinked_removed"}

(* Once a task terminates all its threads are reaped ("defers the killing  *)
(* of threads", task.h), unless the kernel stopped.                        *)
DyingTaskDies == \A k \in Tasks : tstate[k] = "DYING" ~> (tstate[k] = "DEAD" \/ ~Running)

(* Round robin: a READY thread does not wait for ever, it runs, is killed   *)
(* or goes with its task.                                                  *)
RoundRobin == \A t \in Threads : state[t] = "READY" ~> (state[t] # "READY" \/ ~Running)

(* A killed thread is reaped, whatever CPU it is on.                        *)
KilledThreadStops == \A t \in Threads : state[t] = "DEAD" ~> (state[t] = "freed" \/ ~Running)

(* When no thread is left every CPU leaves the scheduler. *)
AllExit == (ready = CPUS /\ \A k \in Tasks : tstate[k] = "DEAD")
              ~> (\A c \in CPUS : pc[c] = "exited")
=============================================================================
