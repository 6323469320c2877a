------------------------- MODULE SchedulerHaltProofs -------------------------
(***************************************************************************)
(* Proofs about Scheduler, fourth part: which assertions can fail.  Those  *)
(* about the states of threads never do, on any number of CPUs.  Those of  *)
(* try_balance_task fail only while the system call of a third CPU spawns  *)
(* a thread that its task knows already and no runqueue holds yet.         *)
(***************************************************************************)
EXTENDS SchedulerCountProofs

(* Before CPU 0 is ready, threads were only created and made ready. *)
BootStates == 0 \notin ready => \A t \in Threads : state[t] \in {"none", "NEW", "READY"}

(* When no thread spawns, schedule_thread runs in boot only. *)
BootSpawnsOnly == "spawn" \notin load.ops => \A c \in CPUS : pc[c] \in SpawnLabels => spawn[c].boot

(* No step changes the workload. *)
LEMMA LoadKept ==
    ASSUME NEW c \in CPUS, Step(c)
    PROVE  load' = load
BY Zenon DEF Step, Kernel, SystemCall, TimerInterrupt

(* A step after boot that does not spawn. *)
LEMMA BootPassed ==
    ASSUME SInv, BootSpawnsOnly, NEW c \in CPUS, Step(c), 0 \in ready, ready' = ready,
           pc'[c] \notin SpawnLabels
    PROVE  BootStates' /\ BootSpawnsOnly'
<1>1. \A d \in CPUS \ {c} : pc'[d] = pc[d] /\ spawn'[d] = spawn[d]
  BY Zenon, OthersKept DEF Kept
<1>2. load' = load
  BY Zenon, LoadKept
<1> QED BY Zenon, <1>1, <1>2 DEF BootStates, BootSpawnsOnly

(* schedule_thread goes on, in boot or after. *)
LEMMA BootSpawning ==
    ASSUME SInv, BootStates, BootSpawnsOnly, NEW c \in CPUS, Step(c), ready' = ready,
           spawn'[c].boot = spawn[c].boot, pc[c] \in SpawnLabels,
           \A t \in Threads : state'[t] \in {state[t], "READY"}
    PROVE  BootStates' /\ BootSpawnsOnly'
<1>1. \A d \in CPUS \ {c} : pc'[d] = pc[d] /\ spawn'[d] = spawn[d]
  BY Zenon, OthersKept DEF Kept
<1>2. load' = load
  BY Zenon, LoadKept
<1>3. BootStates'
  BY Zenon DEF BootStates
<1> QED BY Zenon, <1>1, <1>2, <1>3 DEF BootSpawnsOnly

(* Every step keeps both: the first threads are made ready before any      *)
(* runs.                                                                   *)
LEMMA BootInv ==
    ASSUME SInv, BootStates, BootSpawnsOnly, NEW c \in CPUS, Step(c)
    PROVE  BootStates' /\ BootSpawnsOnly'
<1> USE DEF SInv, TypeOK
<1>1. CASE SpawnTry(c)
  <2>1. UNCHANGED <<ready, spawn, state>> /\ pc[c] \in SpawnLabels
    BY Zenon, <1>1 DEF SpawnTry, thread_vars, local_vars, SpawnLabels, InsertLabels
  <2> QED BY Zenon, <2>1, BootSpawning
<1>2. CASE SpawnMove(c)
  <2>1. spawn'[c].boot = spawn[c].boot
    BY SMTT(30), <1>2 DEF SpawnMove, SpawnTypes
  <2>2. UNCHANGED <<ready, state>> /\ pc[c] \in SpawnLabels
    BY Zenon, <1>2 DEF SpawnMove, thread_vars, SpawnLabels, InsertLabels
  <2> QED BY Zenon, <2>1, <2>2, BootSpawning
<1>3. CASE SpawnAcquire(c)
  <2>1. UNCHANGED <<ready, spawn, state>> /\ pc[c] \in SpawnLabels
    BY Zenon, <1>3 DEF SpawnAcquire, thread_vars, local_vars, SpawnLabels, InsertLabels
  <2> QED BY Zenon, <2>1, BootSpawning
<1>4. CASE SpawnInsert(c)
  <2>1. UNCHANGED <<ready, spawn, state>> /\ pc[c] \in SpawnLabels
    BY Zenon, <1>4 DEF SpawnInsert, local_vars, SpawnLabels, InsertLabels
  <2> QED BY Zenon, <2>1, BootSpawning
<1>5. CASE SpawnCount(c)
  <2>1. UNCHANGED <<ready, spawn, state>> /\ pc[c] \in SpawnLabels
    BY ZenonT(30), <1>5 DEF SpawnCount, thread_vars, local_vars, SpawnLabels, InsertLabels
  <2> QED BY Zenon, <2>1, BootSpawning
<1>6. CASE SpawnReady(c)
  <2>1. ready' = ready /\ pc[c] \in SpawnLabels /\ pc'[c] \notin SpawnLabels
    BY ZenonT(30), <1>6 DEF SpawnReady, Goto, CpuTypes, SpawnLabels, InsertLabels
  <2>2. \A t \in Threads : state'[t] \in {state[t], "READY"}
    BY Zenon, <1>6 DEF SpawnReady, ThreadTypes
  <2>3. \A d \in CPUS \ {c} : pc'[d] = pc[d] /\ spawn'[d] = spawn[d]
    BY Zenon, OthersKept DEF Kept
  <2>4. BootStates'
    BY Zenon, <2>1, <2>2 DEF BootStates
  <2>5. BootSpawnsOnly'
    BY Zenon, <2>1, <2>3, LoadKept DEF BootSpawnsOnly
  <2> QED BY <2>4, <2>5
<1>7. CASE BootNext(c)
  <2>1. \A d \in CPUS \ {c} : pc'[d] = pc[d] /\ spawn'[d] = spawn[d]
    BY Zenon, OthersKept DEF Kept
  <2>2. /\ ready' = ready /\ (pc'[c] \in SpawnLabels => spawn'[c].boot)
        /\ \A t \in Threads : state'[t] \in {state[t], "NEW"}
    <3>1. CASE next_uid <= Len(load.tasks)
      <4>1. spawn'[c].boot = TRUE /\ UNCHANGED <<ready, tstate>>
        BY Zenon, <1>7, <3>1, SpawnChooseCpu DEF BootNext
      <4>2. state' = [state EXCEPT ![next_uid] = "NEW"]
        BY Zenon, <1>7, <3>1 DEF BootNext, SpawnChoose
      <4> QED BY Zenon, <4>1, <4>2 DEF ThreadTypes
    <3>2. CASE ~(next_uid <= Len(load.tasks))
      BY Zenon, <1>7, <3>2 DEF BootNext, CpuTypes, Goto, thread_vars, SpawnLabels, InsertLabels
    <3> QED BY SMTT(30), <3>1, <3>2
  <2>3. BootStates'
    BY Zenon, <2>2 DEF BootStates
  <2>4. BootSpawnsOnly'
    BY Zenon, <2>1, <2>2, LoadKept DEF BootSpawnsOnly
  <2> QED BY <2>3, <2>4
<1>8. CASE EnterMark(c)
  <2>1. \A d \in CPUS \ {c} : pc'[d] = pc[d] /\ spawn'[d] = spawn[d]
    BY Zenon, OthersKept DEF Kept
  <2>2. ready \subseteq ready' /\ state' = state /\ pc'[c] \notin SpawnLabels
    BY Zenon, <1>8 DEF EnterMark, Goto, CpuTypes, thread_vars, SpawnLabels, InsertLabels
  <2>3. BootStates'
    BY Zenon, <2>2 DEF BootStates
  <2>4. BootSpawnsOnly'
    BY Zenon, <2>1, <2>2, LoadKept DEF BootSpawnsOnly
  <2> QED BY <2>3, <2>4
<1>9. CASE WaitAcquire(c)
  <2>1. 0 \in ready
    BY Zenon, <1>9, PastBoot, Constants DEF WaitAcquire
  <2>2. ready' = ready /\ pc'[c] \notin SpawnLabels
    BY Zenon, <1>9 DEF WaitAcquire, CpuTypes, Goto, SpawnLabels, InsertLabels
  <2> QED BY Zenon, <2>1, <2>2, BootPassed
<1>10. CASE WaitCheck(c)
  <2>1. 0 \in ready
    BY Zenon, <1>10, PastBoot DEF WaitCheck, LockLabels
  <2>2. ready' = ready /\ pc'[c] \notin SpawnLabels
    BY ZenonT(30), <1>10 DEF WaitCheck, CpuTypes, Goto, SpawnLabels, InsertLabels
  <2> QED BY Zenon, <2>1, <2>2, BootPassed
<1>11. CASE PickReady(c)
  <2>1. 0 \in ready
    BY Zenon, <1>11, PastBoot DEF PickReady, LockLabels
  <2>2. ready' = ready /\ pc'[c] \notin SpawnLabels
    BY Zenon, <1>11 DEF PickReady, CpuTypes, Goto, RunThread, SpawnLabels, InsertLabels
  <2> QED BY Zenon, <2>1, <2>2, BootPassed
<1>12. CASE PickDead(c)
  <2>1. 0 \in ready
    BY Zenon, <1>12, PastBoot DEF PickDead, LockLabels
  <2>2. ready' = ready /\ pc'[c] \notin SpawnLabels
    BY Zenon, <1>12 DEF PickDead, CpuTypes, Goto, SpawnLabels, InsertLabels
  <2> QED BY Zenon, <2>1, <2>2, BootPassed
<1>13. CASE PickUncount(c)
  <2>1. 0 \in ready
    BY Zenon, <1>13, PastBoot DEF PickUncount, LockLabels
  <2>2. ready' = ready /\ pc'[c] \notin SpawnLabels
    BY Zenon, <1>13 DEF PickUncount, CpuTypes, Goto, PickNone, SpawnLabels, InsertLabels
  <2> QED BY Zenon, <2>1, <2>2, BootPassed
<1>14. CASE PickSkip(c)
  <2>1. 0 \in ready
    BY Zenon, <1>14, PastBoot DEF PickSkip, LockLabels
  <2>2. ready' = ready /\ pc'[c] \notin SpawnLabels
    BY Zenon, <1>14 DEF PickSkip, CpuTypes, Goto, PickNone, SpawnLabels, InsertLabels
  <2> QED BY Zenon, <2>1, <2>2, BootPassed
<1>15. CASE LoadResume(c)
  <2>1. 0 \in ready
    BY Zenon, <1>15, PastBoot DEF LoadResume, LockLabels
  <2>2. ready' = ready /\ pc'[c] \notin SpawnLabels
    BY Zenon, <1>15 DEF LoadResume, CpuTypes, Goto, SpawnLabels, InsertLabels
  <2> QED BY Zenon, <2>1, <2>2, BootPassed
<1>16. CASE LoadPreempt(c)
  <2>1. 0 \in ready
    BY Zenon, <1>16, PastBoot DEF LoadPreempt, LockLabels
  <2>2. ready' = ready /\ pc'[c] \notin SpawnLabels
    BY Zenon, <1>16 DEF LoadPreempt, CpuTypes, Goto, SpawnLabels, InsertLabels
  <2> QED BY Zenon, <2>1, <2>2, BootPassed
<1>17. CASE LoadDead(c)
  <2>1. 0 \in ready
    BY Zenon, <1>17, PastBoot DEF LoadDead, LockLabels
  <2>2. ready' = ready /\ pc'[c] \notin SpawnLabels
    BY Zenon, <1>17 DEF LoadDead, CpuTypes, Goto, Reap, SpawnLabels, InsertLabels
  <2> QED BY Zenon, <2>1, <2>2, BootPassed
<1>18. CASE LoopReapDying(c)
  <2>1. 0 \in ready
    BY Zenon, <1>18, PastBoot DEF LoopReapDying, LockLabels
  <2>2. ready' = ready /\ pc'[c] \notin SpawnLabels
    BY Zenon, <1>18 DEF LoopReapDying, CpuTypes, Goto, Reap, SpawnLabels, InsertLabels
  <2> QED BY Zenon, <2>1, <2>2, BootPassed
<1>19. CASE LoopReapDead(c)
  <2>1. 0 \in ready
    BY Zenon, <1>19, PastBoot DEF LoopReapDead, LockLabels
  <2>2. ready' = ready /\ pc'[c] \notin SpawnLabels
    BY Zenon, <1>19 DEF LoopReapDead, CpuTypes, Goto, Reap, SpawnLabels, InsertLabels
  <2> QED BY Zenon, <2>1, <2>2, BootPassed
<1>20. CASE LoopSkip(c)
  <2>1. 0 \in ready
    BY Zenon, <1>20, PastBoot DEF LoopSkip, LockLabels
  <2>2. ready' = ready /\ pc'[c] \notin SpawnLabels
    BY Zenon, <1>20 DEF LoopSkip, CpuTypes, Goto, SpawnLabels, InsertLabels
  <2> QED BY Zenon, <2>1, <2>2, BootPassed
<1>21. CASE LoopSwitch(c)
  <2>1. 0 \in ready
    BY Zenon, <1>21, PastBoot DEF LoopSwitch, LockLabels
  <2>2. ready' = ready /\ pc'[c] \notin SpawnLabels
    BY Zenon, <1>21 DEF LoopSwitch, CpuTypes, Goto, RunThread, SpawnLabels, InsertLabels
  <2> QED BY Zenon, <2>1, <2>2, BootPassed
<1>22. CASE Uncount(c)
  <2>1. 0 \in ready
    BY Zenon, <1>22, PastBoot DEF Uncount, LockLabels
  <2>2. ready' = ready /\ pc'[c] \notin SpawnLabels
    BY Zenon, <1>22 DEF Uncount, CpuTypes, Goto, SpawnLabels, InsertLabels
  <2> QED BY Zenon, <2>1, <2>2, BootPassed
<1>23. CASE Other(c)
  <2>1. 0 \in ready
    BY Zenon, <1>23, PastBoot DEF Other, LockLabels
  <2>2. ready' = ready /\ pc'[c] \notin SpawnLabels
    BY Zenon, <1>23 DEF Other, CpuTypes, Goto, SpawnLabels, InsertLabels
  <2> QED BY Zenon, <2>1, <2>2, BootPassed
<1>24. CASE Yield(c)
  <2>1. 0 \in ready
    BY Zenon, <1>24, PastBoot DEF Yield, LockLabels
  <2>2. ready' = ready /\ pc'[c] \notin SpawnLabels
    BY Zenon, <1>24 DEF Yield, CpuTypes, Goto, SpawnLabels, InsertLabels
  <2> QED BY Zenon, <2>1, <2>2, BootPassed
<1>25. CASE Exit(c)
  <2>1. 0 \in ready
    BY Zenon, <1>25, PastBoot DEF Exit, LockLabels
  <2>2. ready' = ready /\ pc'[c] \notin SpawnLabels
    BY Zenon, <1>25 DEF Exit, CpuTypes, Goto, SpawnLabels, InsertLabels
  <2> QED BY Zenon, <2>1, <2>2, BootPassed
<1>26. CASE Fault(c)
  <2>1. 0 \in ready
    BY Zenon, <1>26, PastBoot DEF Fault, LockLabels
  <2>2. ready' = ready /\ pc'[c] \notin SpawnLabels
    BY Zenon, <1>26 DEF Fault, CpuTypes, Goto, SpawnLabels, InsertLabels
  <2> QED BY Zenon, <2>1, <2>2, BootPassed
<1>27. CASE SyscallSpawn(c)
  <2>1. 0 \in ready /\ ready' = ready
    BY Zenon, <1>27, PastBoot, SpawnChooseCpu DEF SyscallSpawn, LockLabels
  <2>2. "spawn" \in load.ops /\ load' = load
    BY Zenon, <1>27, LoadKept DEF SyscallSpawn
  <2> QED BY Zenon, <2>1, <2>2 DEF BootStates, BootSpawnsOnly
<1>28. ASSUME NEW t \in Threads, Kill(c, t) PROVE BootStates' /\ BootSpawnsOnly'
  <2>1. 0 \in ready
    BY Zenon, <1>28, PastBoot DEF Kill, LockLabels
  <2>2. ready' = ready /\ pc'[c] \notin SpawnLabels
    BY Zenon, <1>28 DEF Kill, CpuTypes, Goto, SpawnLabels, InsertLabels
  <2> QED BY Zenon, <2>1, <2>2, BootPassed
<1>29. CASE Trap(c)
  <2>1. 0 \in ready
    BY Zenon, <1>29, PastBoot DEF Trap, LockLabels
  <2>2. ready' = ready /\ pc'[c] \notin SpawnLabels
    BY Zenon, <1>29 DEF Trap, CpuTypes, Goto, SpawnLabels, InsertLabels
  <2> QED BY Zenon, <2>1, <2>2, BootPassed
<1>30. CASE TimerTrap(c)
  <2>1. 0 \in ready
    BY Zenon, <1>30, PastBoot DEF TimerTrap, LockLabels
  <2>2. ready' = ready /\ pc'[c] \notin SpawnLabels
    BY Zenon, <1>30 DEF TimerTrap, CpuTypes, Goto, SpawnLabels, InsertLabels
  <2> QED BY Zenon, <2>1, <2>2, BootPassed
<1>31. CASE TimerNested(c)
  <2>1. 0 \in ready
    BY Zenon, <1>31, PastBoot DEF TimerNested, LockLabels
  <2>2. ready' = ready /\ pc'[c] \notin SpawnLabels
    BY Zenon, <1>31 DEF TimerNested, CpuTypes, Goto, SpawnLabels, InsertLabels
  <2> QED BY Zenon, <2>1, <2>2, BootPassed
<1> QED BY ZenonT(30), <1>1, <1>2, <1>3, <1>4, <1>5, <1>6, <1>7, <1>8, <1>9, <1>10, <1>11, <1>12,
         <1>13, <1>14, <1>15, <1>16, <1>17, <1>18, <1>19, <1>20, <1>21, <1>22, <1>23,
         <1>24, <1>25, <1>26, <1>27, <1>28, <1>29, <1>30, <1>31
  DEF Step, Kernel, Spawning, Waiting, Loading, Handling, SystemCall, TimerInterrupt

---------------------------------------------------------------------------
(* The assertions *)

(* The assertions about states: a task dies once, the current thread is    *)
(* running when schedule() begins, and what it picks is not running.       *)
AssertionsHold == halt \notin {"died_twice", "current_not_running", "scheduled_running"}

(* Which reasons to halt there may be. *)
HaltInv == AssertionsHold /\ NoPanicWithoutSpawn

(* A step that makes try_balance_task take a thread no runqueue holds, or  *)
(* find none: a thread is being spawned, and not by the CPU that balances  *)
(* nor by the one it steals from.                                          *)
StealFailsInFlight ==
    halt = NoHalt /\ ~StolenIsQueued' =>
        NumCpus > 2 /\ "spawn" \in load.ops /\ \E t \in Threads : InFlight(t)

(* A step that does not halt the kernel. *)
LEMMA Unhalted ==
    ASSUME halt' = NoHalt
    PROVE  HaltInv' /\ StealFailsInFlight
BY Zenon DEF HaltInv, AssertionsHold, NoPanicWithoutSpawn, NoPanic, StealFailsInFlight, StolenIsQueued, NoHalt

(* While one CPU balances with a runqueue it could lock, no thread is in   *)
(* flight: a third CPU would have to spawn it, or a system call.           *)
LEMMA NoneInFlight ==
    ASSUME SInv, BootSpawnsOnly, NEW c \in CPUS, pc[c] \in {"pick", "load", "loop"},
           NEW v \in CPUS, v # c, VictimFree(v),
           "spawn" \notin load.ops \/ NumCpus <= 2
    PROVE  \A x \in Threads : ~InFlight(x)
<1>1. 0 \in ready
  BY Zenon, PastBoot DEF LockLabels
<1>2. \A d \in CPUS : ~spawn[d].boot
  BY Zenon, <1>1 DEF SInv, BootFirst
<1>3. CASE "spawn" \notin load.ops
  BY Zenon, <1>2, <1>3 DEF BootSpawnsOnly, InFlight, SpawnLabels, InsertLabels
<1>4. CASE NumCpus <= 2
  <2>1. CPUS = {c, v}
    BY <1>4, SchedulerAssumption DEF CPUS
  <2>2. pc[c] \notin InsertLabels
    BY Zenon DEF InsertLabels
  <2>3. lock[v] # v
    BY Zenon, Constants DEF VictimFree
  <2>4. pc[v] \notin InsertLabels
    BY Zenon, <1>2, <2>3 DEF SInv, LocksHeld, SpawnLabels
  <2> QED BY Zenon, <2>1, <2>2, <2>4 DEF InFlight, InsertLabels
<1> QED BY <1>3, <1>4

(* unqueue_thread halts the kernel only in try_balance_task, and only      *)
(* while a thread is in flight: the counts are exact, so the victim has a  *)
(* thread of the task, and unless it is in flight it is queued there.      *)
LEMMA UnqueueHalts ==
    ASSUME SInv, PerCpuExact, NEW c \in CPUS, NEW t \in Threads, In(t, list[c]), lock[c] = c,
           sched_cpu[t] = c, NEW st, Unqueue(c, t, st)
    PROVE  \/ halt' = NoHalt
           \/ /\ halt' \in {"nothing_to_balance", "unlinked_removed"}
              /\ \E v \in CPUS : v # c /\ VictimFree(v) /\ \E x \in Threads : InFlight(x)
<1> DEFINE k == owner[t]
           rs == Without(refs[k], t)
           n == [per_cpu[k] EXCEPT ![sched_cpu[t]] = @ - 1]
           tries(v) == n[v] - n[c] > 1 /\ VictimFree(v)
           takes(v, w) == tries(v) /\ w # NoThread /\ Stealable(v, w, st)
           steals(v, w) == takes(v, w) /\ In(w, list[v])
<1>1. PICK v \in CPUS, w \in Threads \cup {NoThread} :
         /\ AnyThreadWith(rs, v, w)
         /\ halt' = CASE rs = <<>> /\ tstate[k] = "DEAD" -> "died_twice"
                      [] tries(v) /\ w = NoThread -> "nothing_to_balance"
                      [] takes(v, w) /\ ~steals(v, w) -> "unlinked_removed"
                      [] OTHER -> NoHalt
  BY ZenonT(30) DEF Unqueue
<1>2. /\ k \in Tasks /\ per_cpu[k] \in [CPUS -> Int] /\ refs[k] \in Seq(Threads)
  BY Zenon DEF SInv, TypeOK, ThreadTypes, TaskTypes
<1>3. In(t, refs[k])
  BY Zenon, <1>2 DEF SInv, RefsLinked, Linked, Queued
<1>4. tstate[k] # "DEAD"
  <2>1. refs[k] # <<>>
    BY <1>3 DEF In
  <2> QED BY Zenon, <1>2, <2>1 DEF SInv, RefsLinked
<1>5. rs \in Seq(Threads) /\ \A x : In(x, rs) <=> In(x, refs[k]) /\ x # t
  BY SMTT(30), <1>2, WithoutProperties DEF SInv, RefsLinked
<1>6. tries(v) => v # c
  BY SMTT(30), <1>2
<1>7. ASSUME tries(v), \A x \in Threads : ~InFlight(x) PROVE w \in Threads /\ In(w, list[v])
  <2>1. \A x \in Threads : In(x, rs) => In(x, list[sched_cpu[x]])
    <3>1. \A x \in Threads : In(x, rs) => Queued(x)
      BY Zenon, <1>2, <1>5, <1>7 DEF SInv, RefsLinked, Linked
    <3> QED BY Zenon, <3>1 DEF Queued, SInv, ListsOnce
  <2>2. \E x \in Threads : In(x, rs) /\ sched_cpu[x] = v
    <3>1. /\ per_cpu[k][v] = Cardinality(AtHome(k, v)) /\ IsFiniteSet(AtHome(k, v))
          /\ per_cpu[k][c] = Cardinality(AtHome(k, c)) /\ IsFiniteSet(AtHome(k, c))
          /\ Cardinality(AtHome(k, v)) \in Nat /\ Cardinality(AtHome(k, c)) \in Nat
      BY Zenon, <1>2, AtHomeFinite DEF PerCpuExact
    <3>2. t \in AtHome(k, c)
      BY Zenon DEF AtHome, Placed
    <3>3. Cardinality(AtHome(k, c)) # 0
      BY Zenon, <3>1, <3>2, FS_EmptySet
    <3>4. n[v] = per_cpu[k][v] /\ n[c] = per_cpu[k][c] - 1
      BY <1>2, <1>6, <1>7
    <3>5. Cardinality(AtHome(k, v)) # 0
      <4>1. n[v] - n[c] > 1
        BY Zenon, <1>7
      <4> HIDE DEF n
      <4> QED BY <3>1, <3>3, <3>4, <4>1
    <3>6. AtHome(k, v) # {}
      BY Zenon, <3>1, <3>5, FS_EmptySet
    <3>7. PICK x \in Threads : owner[x] = k /\ Placed(x, v)
      BY Zenon, <3>6 DEF AtHome
    <3>8. In(x, list[v])
      BY Zenon, <1>7, <3>7 DEF Placed, InFlight, InsertLabels
    <3>9. x # t /\ sched_cpu[x] = v
      BY Zenon, <1>6, <1>7, <3>8 DEF SInv, ListsOnce
    <3>10. In(x, refs[k])
      BY Zenon, <1>2, <3>7, <3>8 DEF SInv, RefsLinked, Linked, Queued
    <3> QED BY Zenon, <1>5, <3>9, <3>10
  <2>3. \A i \in DOMAIN rs : rs[i] \in Threads
    BY <1>5
  <2> HIDE DEF rs
  <2>4. w \in Threads /\ In(w, rs) /\ sched_cpu[w] = v
    BY Zenon, <1>1, <2>2, <2>3, Constants DEF AnyThreadWith, In
  <2> QED BY Zenon, <2>1, <2>4
<1> HIDE DEF n, rs
<1>8. w \in Threads => w # NoThread
  BY Zenon, Constants
<1>9. CASE ~tries(v)
  BY Zenon, <1>1, <1>4, <1>9
<1>10. CASE tries(v) /\ \A x \in Threads : ~InFlight(x)
  BY Zenon, <1>1, <1>4, <1>7, <1>8, <1>10
<1>11. CASE tries(v) /\ \E x \in Threads : InFlight(x)
  <2>1. halt' \in {NoHalt, "nothing_to_balance", "unlinked_removed"}
    BY Zenon, <1>1, <1>4
  <2> QED BY Zenon, <1>6, <1>11, <2>1
<1> QED BY Zenon, <1>9, <1>10, <1>11

(* schedule() reaps without a failing assertion, but for a thread in       *)
(* flight.                                                                 *)
LEMMA RemovesHalts ==
    ASSUME SInv, PerCpuExact, BootSpawnsOnly, NEW c \in CPUS, Step(c), NEW t \in Threads, Removes(c, t)
    PROVE  HaltInv' /\ StealFailsInFlight
<1>1. \/ halt' = NoHalt
      \/ /\ halt' \in {"nothing_to_balance", "unlinked_removed"}
         /\ \E v \in CPUS : v # c /\ VictimFree(v) /\ \E x \in Threads : InFlight(x)
  BY Zenon, UnqueueHalts DEF Removes
<1>2. CASE halt' = NoHalt
  BY Zenon, <1>2, Unhalted
<1>3. CASE /\ halt' \in {"nothing_to_balance", "unlinked_removed"}
           /\ \E v \in CPUS : v # c /\ VictimFree(v) /\ \E x \in Threads : InFlight(x)
  <2>1. "spawn" \in load.ops /\ ~(NumCpus <= 2)
    BY Zenon, <1>3, NoneInFlight DEF Removes
  <2>2. load' = load
    BY Zenon, LoadKept
  <2>3. AssertionsHold'
    BY Zenon, <1>3 DEF AssertionsHold
  <2>4. NumCpus > 2
    BY <2>1, SchedulerAssumption
  <2> QED BY Zenon, <1>3, <2>1, <2>2, <2>3, <2>4 DEF HaltInv, NoPanicWithoutSpawn, StealFailsInFlight
<1> QED BY <1>1, <1>2, <1>3

(* No step makes an assertion fail that HaltInv excludes. *)
LEMMA HaltStep ==
    ASSUME SInv, PerCpuExact, BootStates, BootSpawnsOnly, halt = NoHalt, NEW c \in CPUS, Step(c)
    PROVE  HaltInv' /\ StealFailsInFlight
<1> USE DEF SInv, TypeOK
<1>1. CASE SpawnTry(c)
  <2>1. halt' = NoHalt
    BY Zenon, <1>1 DEF SpawnTry
  <2> QED BY Zenon, <2>1, Unhalted
<1>2. CASE SpawnMove(c)
  <2>1. halt' = NoHalt
    BY Zenon, <1>2 DEF SpawnMove
  <2> QED BY Zenon, <2>1, Unhalted
<1>3. CASE SpawnAcquire(c)
  <2>1. halt' = NoHalt
    BY Zenon, <1>3 DEF SpawnAcquire
  <2> QED BY Zenon, <2>1, Unhalted
<1>4. CASE SpawnInsert(c)
  <2>1. halt' = NoHalt
    BY Zenon, <1>4 DEF SpawnInsert
  <2> QED BY Zenon, <2>1, Unhalted
<1>5. CASE SpawnCount(c)
  <2>1. halt' = NoHalt
    BY Zenon, <1>5 DEF SpawnCount
  <2> QED BY Zenon, <2>1, Unhalted
<1>6. CASE SpawnReady(c)
  <2>1. halt' \in {NoHalt, "used_after_free", "promoted_not_new"}
    BY Zenon, <1>6 DEF SpawnReady
  <2>2. "spawn" \notin load.ops => halt' = NoHalt
    <3> SUFFICES ASSUME "spawn" \notin load.ops PROVE halt' = NoHalt
      OBVIOUS
    <3>1. spawn[c].boot /\ spawn[c].th \in Threads
      BY Zenon, <1>6 DEF SpawnReady, BootSpawnsOnly, SpawnsApart, SpawnLabels
    <3>2. state[spawn[c].th] \in {"none", "NEW", "READY"}
      BY Zenon, <3>1 DEF BootFirst, BootStates
    <3> QED BY Zenon, <1>6, <3>1, <3>2 DEF SpawnReady
  <2>3. load' = load
    BY Zenon, LoadKept
  <2>4. AssertionsHold' /\ StolenIsQueued'
    BY Zenon, <2>1 DEF AssertionsHold, StolenIsQueued, NoHalt
  <2> QED BY Zenon, <2>2, <2>3, <2>4 DEF HaltInv, NoPanicWithoutSpawn, NoPanic, StealFailsInFlight
<1>7. CASE BootNext(c)
  <2>1. halt' = NoHalt
    BY Zenon, <1>7 DEF BootNext, SpawnChoose
  <2> QED BY Zenon, <2>1, Unhalted
<1>8. CASE EnterMark(c)
  <2>1. halt' = NoHalt
    BY Zenon, <1>8 DEF EnterMark
  <2> QED BY Zenon, <2>1, Unhalted
<1>9. CASE WaitAcquire(c)
  <2>1. halt' = NoHalt
    BY Zenon, <1>9 DEF WaitAcquire
  <2> QED BY Zenon, <2>1, Unhalted
<1>10. CASE WaitCheck(c)
  <2>1. halt' = NoHalt
    BY Zenon, <1>10 DEF WaitCheck
  <2> QED BY Zenon, <2>1, Unhalted
<1>11. CASE PickReady(c)
  <2>1. halt' = NoHalt
    BY Zenon, <1>11 DEF PickReady
  <2> QED BY Zenon, <2>1, Unhalted
<1>12. CASE PickDead(c)
  <2>1. sel[c] \in Threads /\ In(sel[c], list[c]) /\ lock[c] = c /\ sched_cpu[sel[c]] = c
    BY Zenon, <1>12, ReapedIsListed DEF PickDead
  <2>2. Removes(c, sel[c])
    BY Zenon, <1>12, <2>1 DEF PickDead, Removes, Goto, Uncounting
  <2> QED BY Zenon, <2>1, <2>2, RemovesHalts
<1>13. CASE PickUncount(c)
  <2>1. halt' = NoHalt
    BY Zenon, <1>13 DEF PickUncount
  <2> QED BY Zenon, <2>1, Unhalted
<1>14. CASE PickSkip(c)
  <2>1. halt' = NoHalt
    BY Zenon, <1>14 DEF PickSkip
  <2> QED BY Zenon, <2>1, Unhalted
<1>15. CASE LoadResume(c)
  <2>1. halt' = NoHalt
    BY Zenon, <1>15 DEF LoadResume
  <2> QED BY Zenon, <2>1, Unhalted
<1>16. CASE LoadPreempt(c)
  <2>1. state[current[c]] = "RUNNING"
    BY ZenonT(30), <1>16 DEF LoadPreempt, CurrentRuns, CurrentAt, InThread
  <2>2. halt' = NoHalt
    BY Zenon, <1>16, <2>1 DEF LoadPreempt
  <2> QED BY Zenon, <2>2, Unhalted
<1>17. CASE LoadDead(c)
  <2>1. current[c] \in Threads /\ In(current[c], list[c]) /\ lock[c] = c /\ sched_cpu[current[c]] = c
    BY Zenon, <1>17, ReapedIsListed DEF LoadDead
  <2>2. Removes(c, current[c])
    BY Zenon, <1>17, <2>1 DEF LoadDead, Reap, Removes, Goto, Uncounting
  <2> QED BY Zenon, <2>1, <2>2, RemovesHalts
<1>18. CASE LoopReapDying(c)
  <2>1. sel[c] \in Threads /\ In(sel[c], list[c]) /\ lock[c] = c /\ sched_cpu[sel[c]] = c
    BY Zenon, <1>18, ReapedIsListed DEF LoopReapDying
  <2>2. Removes(c, sel[c])
    BY Zenon, <1>18, <2>1 DEF LoopReapDying, Reap, Removes, Goto, Uncounting
  <2> QED BY Zenon, <2>1, <2>2, RemovesHalts
<1>19. CASE LoopReapDead(c)
  <2>1. sel[c] \in Threads /\ In(sel[c], list[c]) /\ lock[c] = c /\ sched_cpu[sel[c]] = c
    BY Zenon, <1>19, ReapedIsListed DEF LoopReapDead
  <2>2. Removes(c, sel[c])
    BY Zenon, <1>19, <2>1 DEF LoopReapDead, Reap, Removes, Goto, Uncounting
  <2> QED BY Zenon, <2>1, <2>2, RemovesHalts
<1>20. CASE LoopSkip(c)
  <2>1. sel[c] \in Threads /\ In(sel[c], list[c]) /\ pc[c] = "loop"
    BY Zenon, <1>20, ReapedIsListed DEF LoopSkip
  <2>2. state[sel[c]] # "RUNNING"
    <3> SUFFICES ASSUME state[sel[c]] = "RUNNING" PROVE FALSE
      OBVIOUS
    <3>1. PICK d \in CPUS : current[d] = sel[c]
      BY ZenonT(30), <2>1 DEF CurrentRuns
    <3>2. current[d] # NoThread /\ In(sel[c], list[d])
      BY ZenonT(30), <2>1, <3>1, Constants DEF CurrentRuns, CurrentAt
    <3>3. d = c
      BY Zenon, <2>1, <3>2 DEF ListsOnce
    <3> QED BY ZenonT(30), <2>1, <3>1, <3>2, <3>3 DEF CurrentRuns, CurrentAt
  <2>3. halt' = NoHalt
    BY Zenon, <1>20, <2>2 DEF LoopSkip
  <2> QED BY Zenon, <2>3, Unhalted
<1>21. CASE LoopSwitch(c)
  <2>1. halt' = NoHalt
    BY Zenon, <1>21 DEF LoopSwitch
  <2> QED BY Zenon, <2>1, Unhalted
<1>22. CASE Uncount(c)
  <2>1. halt' = NoHalt
    BY Zenon, <1>22 DEF Uncount
  <2> QED BY Zenon, <2>1, Unhalted
<1>23. CASE Other(c)
  <2>1. halt' = NoHalt
    BY Zenon, <1>23 DEF Other
  <2> QED BY Zenon, <2>1, Unhalted
<1>24. CASE Yield(c)
  <2>1. halt' = NoHalt
    BY Zenon, <1>24 DEF Yield
  <2> QED BY Zenon, <2>1, Unhalted
<1>25. CASE Exit(c)
  <2>1. halt' = NoHalt
    BY Zenon, <1>25 DEF Exit
  <2> QED BY Zenon, <2>1, Unhalted
<1>26. CASE Fault(c)
  <2>1. halt' = NoHalt
    BY Zenon, <1>26 DEF Fault
  <2> QED BY Zenon, <2>1, Unhalted
<1>27. CASE SyscallSpawn(c)
  <2>1. halt' = NoHalt
    BY ZenonT(30), <1>27 DEF SyscallSpawn, SpawnChoose
  <2> QED BY Zenon, <2>1, Unhalted
<1>28. ASSUME NEW t \in Threads, Kill(c, t) PROVE HaltInv' /\ StealFailsInFlight
  <2>1. halt' = NoHalt
    BY Zenon, <1>28 DEF Kill
  <2> QED BY Zenon, <2>1, Unhalted
<1>29. CASE Trap(c)
  <2>1. halt' = NoHalt
    BY Zenon, <1>29 DEF Trap
  <2> QED BY Zenon, <2>1, Unhalted
<1>30. CASE TimerTrap(c)
  <2>1. halt' = NoHalt
    BY Zenon, <1>30 DEF TimerTrap
  <2> QED BY Zenon, <2>1, Unhalted
<1>31. CASE TimerNested(c)
  <2>1. halt' = NoHalt
    BY Zenon, <1>31 DEF TimerNested
  <2> QED BY Zenon, <2>1, Unhalted
<1> QED BY Zenon, <1>1, <1>2, <1>3, <1>4, <1>5, <1>6, <1>7, <1>8, <1>9, <1>10, <1>11, <1>12,
         <1>13, <1>14, <1>15, <1>16, <1>17, <1>18, <1>19, <1>20, <1>21, <1>22, <1>23,
         <1>24, <1>25, <1>26, <1>27, <1>28, <1>29, <1>30, <1>31
  DEF Step, Kernel, Spawning, Waiting, Loading, Handling, SystemCall, TimerInterrupt

(* No thread runs before CPU 0 is ready, and without system calls that     *)
(* spawn nothing is in flight after boot.                                  *)
THEOREM SchedulerBoot == Spec => [](BootStates /\ BootSpawnsOnly)
<1>1. Init => BootStates /\ BootSpawnsOnly
  <2> SUFFICES ASSUME Init PROVE BootStates /\ BootSpawnsOnly
    OBVIOUS
  <2>1. (\A c \in CPUS : pc[c] \in {"boot", "start"}) /\ \A t \in Threads : state[t] = "none"
    BY SMTT(30) DEF Init
  <2> QED BY ZenonT(30), <2>1 DEF BootStates, BootSpawnsOnly, SpawnLabels, InsertLabels
<1>2. SInv /\ BootStates /\ BootSpawnsOnly /\ [Next]_vars => (BootStates /\ BootSpawnsOnly)'
  <2> SUFFICES ASSUME SInv, BootStates, BootSpawnsOnly, [Next]_vars
               PROVE  BootStates' /\ BootSpawnsOnly'
    OBVIOUS
  <2>1. ASSUME NEW c \in CPUS, Step(c) PROVE BootStates' /\ BootSpawnsOnly'
    BY ZenonT(30), <2>1, BootInv
  <2>2. CASE UNCHANGED vars
    BY Zenon, <2>2 DEF vars, thread_vars, local_vars, BootStates, BootSpawnsOnly
  <2> QED BY <2>1, <2>2, NextStep
<1> QED BY <1>1, <1>2, SchedulerInvariant, PTL DEF Spec

(* The kernel halts only for reasons that HaltInv allows. *)
THEOREM SchedulerHalts == Spec => []HaltInv
<1>1. Init => HaltInv
  BY Zenon DEF Init, HaltInv, AssertionsHold, NoPanicWithoutSpawn, NoPanic, NoHalt
<1>2. /\ SInv /\ CountInv /\ BootStates /\ BootSpawnsOnly /\ HaltInv /\ [Next]_vars
      => HaltInv'
  <2> SUFFICES ASSUME SInv, CountInv, BootStates, BootSpawnsOnly, HaltInv, [Next]_vars
               PROVE  HaltInv'
    OBVIOUS
  <2>1. ASSUME NEW c \in CPUS, Step(c), halt = NoHalt PROVE HaltInv'
    BY Zenon, <2>1, HaltStep DEF CountInv
  <2>2. CASE UNCHANGED vars
    BY Zenon, <2>2 DEF vars, HaltInv, AssertionsHold, NoPanicWithoutSpawn, NoPanic
  <2> QED BY <2>1, <2>2 DEF Next, Running, Step, Stopped
<1> QED BY <1>1, <1>2, SchedulerInvariant, SchedulerCounts, SchedulerBoot, PTL DEF Spec

(* The assertions of schedule() and thread states never fail: no task dies *)
(* twice, the current thread runs when schedule() is entered, and the      *)
(* thread it picks does not, on any number of CPUs.                        *)
THEOREM SchedulerAssertionsHold == Spec => []AssertionsHold
<1>1. HaltInv => AssertionsHold
  BY DEF HaltInv
<1> QED BY <1>1, SchedulerHalts, PTL

(* Without system calls that spawn threads the kernel never panics:        *)
(* try_balance_task then finds only queued threads.                        *)
THEOREM SchedulerNoPanicWithoutSpawn == Spec => []NoPanicWithoutSpawn
<1>1. HaltInv => NoPanicWithoutSpawn
  BY DEF HaltInv
<1> QED BY <1>1, SchedulerHalts, PTL

(* On any number of CPUs, try_balance_task comes upon a thread that is not *)
(* queued only while a system call spawns one: schedule_thread has given   *)
(* the task its reference and not inserted it yet.  With two CPUs it never *)
(* does: the spawning CPU holds the lock of the runqueue it inserts into.  *)
THEOREM SchedulerStealFails == Spec => [][StealFailsInFlight]_vars
<1>1. SInv /\ CountInv /\ BootStates /\ BootSpawnsOnly /\ [Next]_vars => [StealFailsInFlight]_vars
  <2> SUFFICES ASSUME SInv, CountInv, BootStates, BootSpawnsOnly, Next
               PROVE  StealFailsInFlight \/ UNCHANGED vars
    OBVIOUS
  <2>1. ASSUME NEW c \in CPUS, Step(c), halt = NoHalt PROVE StealFailsInFlight
    BY Zenon, <2>1, HaltStep DEF CountInv
  <2> QED BY <2>1 DEF Next, Running, Step, Stopped, StealFailsInFlight
<1> QED BY <1>1, SchedulerInvariant, SchedulerCounts, SchedulerBoot, PTL DEF Spec
=============================================================================
