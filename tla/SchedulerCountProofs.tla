------------------------ MODULE SchedulerCountProofs ------------------------
(***************************************************************************)
(* Proofs about Scheduler, third part: the counts.  thread_count of a      *)
(* runqueue, the threads per CPU of a task and total_threads are changed   *)
(* at other places, and under other locks, than the lists they count;      *)
(* CountInv says by how much each may differ at any time, for any number   *)
(* of CPUs, threads, tasks and workloads.                                  *)
(***************************************************************************)
EXTENDS SchedulerProofs, FiniteSetTheorems

(* Where total_threads is one too high for this CPU, and where it is one   *)
(* too low: schedule() and schedule_thread change it after the runqueue,   *)
(* when its lock may be free again.                                        *)
Uncounting == {"uncount", "pick_uncount"}
Counting == {"sp_count"}

(* A step that leaves the runqueues, the references and the threads on     *)
(* their way to a runqueue alone; total_threads may catch up.              *)
Untouched(c) ==
    /\ UNCHANGED <<owner, list, counts, per_cpu>>
    /\ pc'[c] \in InsertLabels <=> pc[c] \in InsertLabels
    /\ pc[c] \in InsertLabels => spawn'[c] = spawn[c]
    /\ pc'[c] \notin Uncounting \cup Counting
    /\ \/ total' = total /\ pc[c] \notin Uncounting \cup Counting
       \/ total' = total - 1 /\ pc[c] \in Uncounting
       \/ total' = total + 1 /\ pc[c] \in Counting

(* A step that creates a thread of task k. *)
Creates(c, k) ==
    /\ \E b \in BOOLEAN : SpawnChoose(c, k, b)
    /\ pc[c] \in {"boot", "kernel"}

(* A step that takes thread t out of its runqueue. *)
Removes(c, t) ==
    /\ In(t, list[c]) /\ lock[c] = c /\ sched_cpu[t] = c
    /\ pc[c] \in {"pick", "load", "loop"}
    /\ \E st : Unqueue(c, t, st)
    /\ \E l \in Uncounting : pc' = [pc EXCEPT ![c] = l]
    /\ UNCHANGED <<owner, spawn, total>>

(* What a step may do to the counts. *)
Kinds(c) ==
    \/ Untouched(c)
    \/ \E k \in Tasks : Creates(c, k)
    \/ SpawnMove(c)
    \/ SpawnInsert(c)
    \/ \E t \in Threads : Removes(c, t)

(* Every step is of one of these kinds. *)
LEMMA StepKinds ==
    ASSUME SInv, NEW c \in CPUS, Step(c)
    PROVE  Kinds(c)
<1> USE DEF SInv, TypeOK
<1>1. CASE SpawnTry(c)
  <2>1. Untouched(c)
    BY ZenonT(30), <1>1 DEF SpawnTry, Untouched, CpuTypes, Goto, task_vars, queue_vars, local_vars, thread_vars, InsertLabels, Uncounting, Counting
  <2> QED BY Zenon, <2>1 DEF Kinds
<1>2. CASE SpawnMove(c)
  BY Zenon, <1>2 DEF Kinds
<1>3. CASE SpawnAcquire(c)
  <2>1. Untouched(c)
    BY Zenon, <1>3 DEF SpawnAcquire, Untouched, CpuTypes, Goto, task_vars, queue_vars, local_vars, thread_vars, InsertLabels, Uncounting, Counting
  <2> QED BY Zenon, <2>1 DEF Kinds
<1>4. CASE SpawnInsert(c)
  BY Zenon, <1>4 DEF Kinds
<1>5. CASE SpawnCount(c)
  <2>1. Untouched(c)
    BY Zenon, <1>5 DEF SpawnCount, Untouched, CpuTypes, Goto, task_vars, queue_vars, local_vars, thread_vars, InsertLabels, Uncounting, Counting
  <2> QED BY Zenon, <2>1 DEF Kinds
<1>6. CASE SpawnReady(c)
  <2>1. Untouched(c)
    BY Zenon, <1>6 DEF SpawnReady, Untouched, CpuTypes, Goto, task_vars, queue_vars, local_vars, thread_vars, InsertLabels, Uncounting, Counting
  <2> QED BY Zenon, <2>1 DEF Kinds
<1>7. CASE BootNext(c)
  <2>1. CASE next_uid <= Len(load.tasks)
    <3>1. next_uid \in 1 .. Len(load.tasks)
      BY <2>1, Constants DEF ThreadTypes, CpuTypes
    <3>2. load.tasks[next_uid] \in Tasks
      BY <3>1, Constants DEF CpuTypes
    <3>3. Creates(c, load.tasks[next_uid])
      BY Zenon, <1>7, <2>1 DEF BootNext, Creates
    <3> QED BY Zenon, <3>2, <3>3 DEF Kinds
  <2>2. CASE ~(next_uid <= Len(load.tasks))
    <3>1. Untouched(c)
      BY Zenon, <1>7, <2>2 DEF BootNext, Untouched, CpuTypes, Goto, task_vars, queue_vars, local_vars, thread_vars, InsertLabels, Uncounting, Counting
    <3> QED BY Zenon, <3>1 DEF Kinds
  <2> QED BY <2>1, <2>2
<1>8. CASE EnterMark(c)
  <2>1. Untouched(c)
    BY Zenon, <1>8 DEF EnterMark, Untouched, CpuTypes, Goto, task_vars, queue_vars, local_vars, thread_vars, InsertLabels, Uncounting, Counting
  <2> QED BY Zenon, <2>1 DEF Kinds
<1>9. CASE WaitAcquire(c)
  <2>1. Untouched(c)
    BY Zenon, <1>9 DEF WaitAcquire, Untouched, CpuTypes, Goto, task_vars, queue_vars, local_vars, thread_vars, InsertLabels, Uncounting, Counting
  <2> QED BY Zenon, <2>1 DEF Kinds
<1>10. CASE WaitCheck(c)
  <2>1. Untouched(c)
    BY ZenonT(30), <1>10 DEF WaitCheck, Untouched, CpuTypes, Goto, task_vars, queue_vars, local_vars, thread_vars, InsertLabels, Uncounting, Counting
  <2> QED BY Zenon, <2>1 DEF Kinds
<1>11. CASE PickReady(c)
  <2>1. Untouched(c)
    BY Zenon, <1>11 DEF PickReady, Untouched, CpuTypes, Goto, task_vars, queue_vars, local_vars, thread_vars, InsertLabels, Uncounting, Counting, RunThread
  <2> QED BY Zenon, <2>1 DEF Kinds
<1>12. CASE PickDead(c)
  <2>1. sel[c] \in Threads /\ In(sel[c], list[c]) /\ lock[c] = c /\ sched_cpu[sel[c]] = c
    BY Zenon, <1>12, ReapedIsListed DEF PickDead
  <2>2. Removes(c, sel[c])
    BY Zenon, <1>12, <2>1 DEF PickDead, Removes, Goto, Uncounting
  <2> QED BY Zenon, <2>1, <2>2 DEF Kinds
<1>13. CASE PickUncount(c)
  <2>1. Untouched(c)
    BY Zenon, <1>13 DEF PickUncount, Untouched, CpuTypes, Goto, task_vars, queue_vars, local_vars, thread_vars, InsertLabels, Uncounting, Counting, PickNone
  <2> QED BY Zenon, <2>1 DEF Kinds
<1>14. CASE PickSkip(c)
  <2>1. Untouched(c)
    BY Zenon, <1>14 DEF PickSkip, Untouched, CpuTypes, Goto, task_vars, queue_vars, local_vars, thread_vars, InsertLabels, Uncounting, Counting, PickNone
  <2> QED BY Zenon, <2>1 DEF Kinds
<1>15. CASE LoadResume(c)
  <2>1. Untouched(c)
    BY Zenon, <1>15 DEF LoadResume, Untouched, CpuTypes, Goto, task_vars, queue_vars, local_vars, thread_vars, InsertLabels, Uncounting, Counting
  <2> QED BY Zenon, <2>1 DEF Kinds
<1>16. CASE LoadPreempt(c)
  <2>1. Untouched(c)
    BY Zenon, <1>16 DEF LoadPreempt, Untouched, CpuTypes, Goto, task_vars, queue_vars, local_vars, thread_vars, InsertLabels, Uncounting, Counting
  <2> QED BY Zenon, <2>1 DEF Kinds
<1>17. CASE LoadDead(c)
  <2>1. current[c] \in Threads /\ In(current[c], list[c]) /\ lock[c] = c /\ sched_cpu[current[c]] = c
    BY Zenon, <1>17, ReapedIsListed DEF LoadDead
  <2>2. Removes(c, current[c])
    BY Zenon, <1>17, <2>1 DEF LoadDead, Reap, Removes, Goto, Uncounting
  <2> QED BY Zenon, <2>1, <2>2 DEF Kinds
<1>18. CASE LoopReapDying(c)
  <2>1. sel[c] \in Threads /\ In(sel[c], list[c]) /\ lock[c] = c /\ sched_cpu[sel[c]] = c
    BY Zenon, <1>18, ReapedIsListed DEF LoopReapDying
  <2>2. Removes(c, sel[c])
    BY Zenon, <1>18, <2>1 DEF LoopReapDying, Reap, Removes, Goto, Uncounting
  <2> QED BY Zenon, <2>1, <2>2 DEF Kinds
<1>19. CASE LoopReapDead(c)
  <2>1. sel[c] \in Threads /\ In(sel[c], list[c]) /\ lock[c] = c /\ sched_cpu[sel[c]] = c
    BY Zenon, <1>19, ReapedIsListed DEF LoopReapDead
  <2>2. Removes(c, sel[c])
    BY Zenon, <1>19, <2>1 DEF LoopReapDead, Reap, Removes, Goto, Uncounting
  <2> QED BY Zenon, <2>1, <2>2 DEF Kinds
<1>20. CASE LoopSkip(c)
  <2>1. Untouched(c)
    BY Zenon, <1>20 DEF LoopSkip, Untouched, CpuTypes, Goto, task_vars, queue_vars, local_vars, thread_vars, InsertLabels, Uncounting, Counting
  <2> QED BY Zenon, <2>1 DEF Kinds
<1>21. CASE LoopSwitch(c)
  <2>1. Untouched(c)
    BY Zenon, <1>21 DEF LoopSwitch, Untouched, CpuTypes, Goto, task_vars, queue_vars, local_vars, thread_vars, InsertLabels, Uncounting, Counting, RunThread
  <2> QED BY Zenon, <2>1 DEF Kinds
<1>22. CASE Uncount(c)
  <2>1. Untouched(c)
    BY Zenon, <1>22 DEF Uncount, Untouched, CpuTypes, Goto, task_vars, queue_vars, local_vars, thread_vars, InsertLabels, Uncounting, Counting
  <2> QED BY Zenon, <2>1 DEF Kinds
<1>23. CASE Other(c)
  <2>1. Untouched(c)
    BY Zenon, <1>23 DEF Other, Untouched, CpuTypes, Goto, task_vars, queue_vars, local_vars, thread_vars, InsertLabels, Uncounting, Counting
  <2> QED BY Zenon, <2>1 DEF Kinds
<1>24. CASE Yield(c)
  <2>1. Untouched(c)
    BY Zenon, <1>24 DEF Yield, Untouched, CpuTypes, Goto, task_vars, queue_vars, local_vars, thread_vars, InsertLabels, Uncounting, Counting
  <2> QED BY Zenon, <2>1 DEF Kinds
<1>25. CASE Exit(c)
  <2>1. Untouched(c)
    BY Zenon, <1>25 DEF Exit, Untouched, CpuTypes, Goto, task_vars, queue_vars, local_vars, thread_vars, InsertLabels, Uncounting, Counting
  <2> QED BY Zenon, <2>1 DEF Kinds
<1>26. CASE Fault(c)
  <2>1. Untouched(c)
    BY Zenon, <1>26 DEF Fault, Untouched, CpuTypes, Goto, task_vars, queue_vars, local_vars, thread_vars, InsertLabels, Uncounting, Counting
  <2> QED BY Zenon, <2>1 DEF Kinds
<1>27. CASE SyscallSpawn(c)
  <2>1. CurrentTask(c) \in Tasks
    BY Zenon, <1>27, CurrentTaskLive DEF SyscallSpawn
  <2>2. Creates(c, CurrentTask(c))
    BY Zenon, <1>27 DEF SyscallSpawn, Creates
  <2> QED BY Zenon, <2>1, <2>2 DEF Kinds
<1>28. ASSUME NEW t \in Threads, Kill(c, t) PROVE Kinds(c)
  <2>1. Untouched(c)
    BY Zenon, <1>28 DEF Kill, Untouched, CpuTypes, Goto, task_vars, queue_vars, local_vars, thread_vars, InsertLabels, Uncounting, Counting
  <2> QED BY Zenon, <2>1 DEF Kinds
<1>29. CASE Trap(c)
  <2>1. Untouched(c)
    BY Zenon, <1>29 DEF Trap, Untouched, CpuTypes, Goto, task_vars, queue_vars, local_vars, thread_vars, InsertLabels, Uncounting, Counting
  <2> QED BY Zenon, <2>1 DEF Kinds
<1>30. CASE TimerTrap(c)
  <2>1. Untouched(c)
    BY Zenon, <1>30 DEF TimerTrap, Untouched, CpuTypes, Goto, task_vars, queue_vars, local_vars, thread_vars, InsertLabels, Uncounting, Counting
  <2> QED BY Zenon, <2>1 DEF Kinds
<1>31. CASE TimerNested(c)
  <2>1. Untouched(c)
    BY Zenon, <1>31 DEF TimerNested, Untouched, CpuTypes, Goto, task_vars, queue_vars, local_vars, thread_vars, InsertLabels, Uncounting, Counting
  <2> QED BY Zenon, <2>1 DEF Kinds
<1> QED BY Zenon, <1>1, <1>2, <1>3, <1>4, <1>5, <1>6, <1>7, <1>8, <1>9, <1>10, <1>11, <1>12,
         <1>13, <1>14, <1>15, <1>16, <1>17, <1>18, <1>19, <1>20, <1>21, <1>22, <1>23,
         <1>24, <1>25, <1>26, <1>27, <1>28, <1>29, <1>30, <1>31
  DEF Step, Kernel, Spawning, Waiting, Loading, Handling, SystemCall, TimerInterrupt

---------------------------------------------------------------------------
(* The counts *)

(* How the number of CPUs at some places changes when one CPU goes on. *)
LEMMA CpusAtStep ==
    ASSUME SInv, NEW c \in CPUS, \A d \in CPUS \ {c} : pc'[d] = pc[d], NEW ls
    PROVE  /\ CpusAt(ls) \in Nat /\ CpusAt(ls)' \in Nat
           /\ (pc[c] \in ls <=> pc'[c] \in ls) => CpusAt(ls)' = CpusAt(ls)
           /\ pc[c] \in ls /\ pc'[c] \notin ls => CpusAt(ls)' = CpusAt(ls) - 1
           /\ pc[c] \notin ls /\ pc'[c] \in ls => CpusAt(ls)' = CpusAt(ls) + 1
<1> DEFINE A == {d \in CPUS : pc[d] \in ls}
           B == {d \in CPUS : pc'[d] \in ls}
<1>1. IsFiniteSet(CPUS)
  BY FS_Interval, SchedulerAssumption DEF CPUS
<1>2. IsFiniteSet(A) /\ IsFiniteSet(B)
  BY <1>1, FS_Subset
<1>3. Cardinality(A) \in Nat /\ Cardinality(B) \in Nat
  BY <1>2, FS_CardinalityType
<1>4. CpusAt(ls) = Cardinality(A) /\ CpusAt(ls)' = Cardinality(B)
  BY DEF CpusAt
<1>5. CASE pc[c] \in ls <=> pc'[c] \in ls
  <2>1. A = B
    BY <1>5
  <2> QED BY Zenon, <1>3, <1>4, <1>5, <2>1
<1>6. CASE pc[c] \in ls /\ pc'[c] \notin ls
  <2>1. B = A \ {c} /\ c \in A
    BY <1>6
  <2> HIDE DEF A, B
  <2>2. Cardinality(B) = Cardinality(A) - 1
    BY <1>2, <2>1, FS_RemoveElement
  <2> QED BY <1>3, <1>4, <1>6, <2>2
<1>7. CASE pc[c] \notin ls /\ pc'[c] \in ls
  <2>1. B = A \cup {c} /\ c \notin A
    BY <1>7
  <2> HIDE DEF A, B
  <2>2. Cardinality(B) = Cardinality(A) + 1
    BY <1>2, <2>1, FS_AddElement
  <2> QED BY <1>3, <1>4, <1>7, <2>2
<1> QED BY SMTT(30), <1>5, <1>6, <1>7

(* Thread t is on runqueue c or on its way to it. *)
Placed(t, c) ==
    \/ In(t, list[c])
    \/ \E d \in CPUS : spawn[d].th = t /\ spawn[d].rq = c /\ pc[d] \in InsertLabels

(* The threads of task k placed on c, and those in a runqueue. *)
AtHome(k, c) == {t \in Threads : owner[t] = k /\ Placed(t, c)}
OnQueue == {t \in Threads : Queued(t)}

(* What each count stands for.  schedule_thread counts a thread for its    *)
(* task and CPU when it has chosen the runqueue, before the thread is      *)
(* linked; hence Placed.                                                   *)
LengthsExact == \A c \in CPUS : counts[c] = Len(list[c])
PerCpuExact == \A k \in Tasks, c \in CPUS : per_cpu[k][c] = Cardinality(AtHome(k, c))
TotalExact == total = Cardinality(OnQueue) + CpusAt(Uncounting) - CpusAt(Counting)

(* A thread that is linked has exactly one place. *)
LEMMA PlacedOnce ==
    ASSUME SInv, NEW t \in Threads
    PROVE  /\ (\E c \in CPUS : Placed(t, c)) <=> Linked(t)
           /\ \A c, d \in CPUS : Placed(t, c) /\ Placed(t, d) => c = d
           /\ \A c \in CPUS : In(t, list[c]) => \A d \in CPUS : Placed(t, d) <=> d = c
           /\ \A c \in CPUS : spawn[c].th = t /\ pc[c] \in InsertLabels =>
                 \A d \in CPUS : Placed(t, d) <=> d = spawn[c].rq
<1>1. t # NoThread
  BY Constants
<1>2. \A c, d \in CPUS : spawn[c].th = t /\ spawn[d].th = t => c = d
  BY Zenon, <1>1 DEF SInv, SpawnsApart
<1>3. \A c \in CPUS : pc[c] \in InsertLabels => spawn[c].rq \in CPUS
  BY Zenon DEF SInv, SpawnsApart, SpawnLabels
<1>4. InFlight(t) <=> \E c \in CPUS : spawn[c].th = t /\ pc[c] \in InsertLabels
  BY Zenon DEF InFlight, InsertLabels
<1>5. InFlight(t) => ~Queued(t)
  BY Zenon DEF SInv, ListsOnce
<1>6. \A c, d \in CPUS : In(t, list[c]) /\ In(t, list[d]) => c = d
  BY Zenon DEF SInv, ListsOnce
<1>7. (\E c \in CPUS : Placed(t, c)) <=> Linked(t)
  BY Zenon, <1>3, <1>4 DEF Placed, Linked, Queued
<1>8. \A c \in CPUS : In(t, list[c]) => \A d \in CPUS : Placed(t, d) <=> d = c
  BY Zenon, <1>4, <1>5, <1>6 DEF Placed, Queued
<1>9. \A c \in CPUS : spawn[c].th = t /\ pc[c] \in InsertLabels =>
         \A d \in CPUS : Placed(t, d) <=> d = spawn[c].rq
  BY Zenon, <1>2, <1>3, <1>4, <1>5 DEF Placed, Queued
<1>10. \A c, d \in CPUS : Placed(t, c) /\ Placed(t, d) => c = d
  BY ZenonT(30), <1>8, <1>9 DEF Placed
<1> QED BY Zenon, <1>7, <1>8, <1>9, <1>10

(* The sets that are counted are finite. *)
LEMMA AtHomeFinite ==
    ASSUME SInv
    PROVE  /\ IsFiniteSet(OnQueue) /\ Cardinality(OnQueue) \in Nat
           /\ \A k \in Tasks, c \in CPUS : IsFiniteSet(AtHome(k, c)) /\ Cardinality(AtHome(k, c)) \in Nat
<1> DEFINE S == 1 .. (next_uid - 1)
<1>1. next_uid \in Nat /\ Threads \subseteq Nat \ {0}
  BY Constants DEF SInv, TypeOK, ThreadTypes
<1>2. IsFiniteSet(S)
  BY <1>1, FS_Interval
<1>3. \A t \in Threads : Linked(t) => t \in S
  <2>1. \A t \in Threads : Linked(t) => ~(t >= next_uid)
    BY Zenon DEF SInv, LinkedLive
  <2> QED BY <1>1, <2>1
<1> HIDE DEF S
<1>4. OnQueue \subseteq S
  BY Zenon, <1>3 DEF OnQueue, Linked
<1>5. \A k \in Tasks, c \in CPUS : AtHome(k, c) \subseteq S
  BY Zenon, <1>3, PlacedOnce DEF AtHome
<1>6. \A T : T \subseteq S => IsFiniteSet(T) /\ Cardinality(T) \in Nat
  BY <1>2, FS_Subset, FS_CardinalityType
<1> QED BY Zenon, <1>4, <1>5, <1>6

(* A step that neither links, unlinks nor begins to spawn leaves every     *)
(* thread in its place.                                                    *)
LEMMA PlacedKept ==
    ASSUME SInv, NEW c \in CPUS, Step(c), list' = list,
           pc'[c] \in InsertLabels <=> pc[c] \in InsertLabels,
           pc[c] \in InsertLabels => spawn'[c] = spawn[c]
    PROVE  \A t \in Threads, d \in CPUS : Placed(t, d)' <=> Placed(t, d)
<1>1. \A d \in CPUS \ {c} : pc'[d] = pc[d] /\ spawn'[d] = spawn[d]
  BY Zenon, OthersKept DEF Kept
<1> QED BY ZenonT(30), <1>1 DEF Placed

(* schedule_thread: the new thread is on its way to one runqueue, and      *)
(* counted there.                                                          *)
LEMMA CreatesPlaced ==
    ASSUME SInv, NEW c \in CPUS, Step(c), NEW k \in Tasks, Creates(c, k)
    PROVE  \E n \in Threads, i \in CPUS :
              /\ ~Linked(n)
              /\ \A t \in Threads, d \in CPUS : Placed(t, d)' <=> Placed(t, d) \/ (t = n /\ d = i)
              /\ \A t \in Threads : owner'[t] = IF t = n THEN k ELSE owner[t]
              /\ per_cpu' = [per_cpu EXCEPT ![k][i] = @ + 1]
              /\ UNCHANGED <<list, counts, total>>
              /\ pc[c] \notin Uncounting \cup Counting /\ pc'[c] \notin Uncounting \cup Counting
<1> DEFINE n == next_uid
<1>1. PICK b \in BOOLEAN : SpawnChoose(c, k, b)
  BY Zenon DEF Creates
<1>2. PICK i \in CPUS : /\ spawn' = [spawn EXCEPT ![c] = [th |-> n, rq |-> i, boot |-> b]]
                        /\ per_cpu' = [per_cpu EXCEPT ![k][i] = @ + 1]
  BY Zenon, <1>1 DEF SpawnChoose
<1>3. /\ n <= load.threads /\ owner' = [owner EXCEPT ![n] = k]
      /\ pc' = [pc EXCEPT ![c] = "sp_try"] /\ UNCHANGED <<list, counts, total>>
  BY Zenon, <1>1 DEF SpawnChoose, Goto, queue_vars
<1>4. n \in Threads
  <2>1. n \in Nat \ {0} /\ load \in Workloads
    BY SMTT(30) DEF SInv, TypeOK, ThreadTypes, CpuTypes
  <2>2. load.threads \in Nat /\ \A t \in 1 .. load.threads : t \in Threads
    BY Zenon, <2>1, Constants
  <2> QED BY ONLY <1>3, <2>1, <2>2
<1>5. ~Linked(n)
  <2>1. state[n] = "none"
    <3>1. n \in Int
      BY DEF SInv, TypeOK, ThreadTypes
    <3>2. n >= n
      BY ONLY <3>1
    <3> QED BY Zenon, <1>4, <3>2 DEF SInv, LinkedLive
  <2> QED BY Zenon, <1>4, <2>1 DEF SInv, LinkedLive
<1> HIDE DEF n
<1>6. pc[c] \in {"boot", "kernel"}
  BY Zenon DEF Creates
<1>7. \A d \in CPUS \ {c} : pc'[d] = pc[d] /\ spawn'[d] = spawn[d]
  BY Zenon, OthersKept DEF Kept
<1>8. pc'[c] = "sp_try" /\ spawn'[c].th = n /\ spawn'[c].rq = i
  BY SMTT(30), <1>2, <1>3 DEF SInv, TypeOK, CpuTypes, SpawnTypes
<1>9. \A t \in Threads, d \in CPUS : Placed(t, d)' <=> Placed(t, d) \/ (t = n /\ d = i)
  BY ZenonT(30), <1>3, <1>6, <1>7, <1>8 DEF Placed, InsertLabels
<1>10. \A t \in Threads : owner'[t] = IF t = n THEN k ELSE owner[t]
  BY Zenon, <1>3, <1>4 DEF SInv, TypeOK, ThreadTypes
<1> QED BY Zenon, <1>2, <1>3, <1>4, <1>5, <1>6, <1>8, <1>9, <1>10 DEF Uncounting, Counting

(* schedule_thread gives up on a busy runqueue: the thread and its count   *)
(* change their way to the own CPU.                                        *)
LEMMA MovePlaced ==
    ASSUME SInv, NEW c \in CPUS, Step(c), SpawnMove(c)
    PROVE  \E n \in Threads, i \in CPUS \ {c} :
              /\ \A d \in CPUS : Placed(n, d) <=> d = i
              /\ \A t \in Threads, d \in CPUS : Placed(t, d)' <=> IF t = n THEN d = c ELSE Placed(t, d)
              /\ per_cpu' = [per_cpu EXCEPT ![owner[n]][i] = @ - 1, ![owner[n]][c] = @ + 1]
              /\ UNCHANGED <<owner, list, counts, total>>
              /\ pc[c] \notin Uncounting \cup Counting /\ pc'[c] \notin Uncounting \cup Counting
<1> DEFINE n == spawn[c].th
           i == spawn[c].rq
<1>1. pc[c] = "sp_move" /\ pc' = [pc EXCEPT ![c] = "sp_acquire"] /\ spawn' = [spawn EXCEPT ![c].rq = c]
  BY Zenon DEF SpawnMove, Goto
<1>2. /\ per_cpu' = [per_cpu EXCEPT ![owner[n]][i] = @ - 1, ![owner[n]][c] = @ + 1]
      /\ UNCHANGED <<owner, list, counts, total>>
  BY Zenon DEF SpawnMove, thread_vars, queue_vars
<1>3. n \in Threads /\ i \in CPUS /\ i # c
  BY Zenon, <1>1 DEF SInv, SpawnsApart, SpawnLabels, InsertLabels
<1>4. \A d \in CPUS : Placed(n, d) <=> d = i
  BY Zenon, <1>1, <1>3, PlacedOnce DEF InsertLabels
<1>5. \A d \in CPUS \ {c} : pc'[d] = pc[d] /\ spawn'[d] = spawn[d]
  BY Zenon, OthersKept DEF Kept
<1>6. pc'[c] = "sp_acquire" /\ spawn'[c].th = n /\ spawn'[c].rq = c
  BY <1>1 DEF SInv, TypeOK, CpuTypes, SpawnTypes
<1>7. \A d \in CPUS \ {c} : spawn[d].th # n
  BY Zenon, <1>3, Constants DEF SInv, SpawnsApart
<1>8. \A d \in CPUS : ~In(n, list[d])
  BY Zenon, <1>1, <1>3 DEF SInv, ListsOnce, InFlight, Queued
<1>9. \A t \in Threads, d \in CPUS : Placed(t, d)' <=> IF t = n THEN d = c ELSE Placed(t, d)
  <2>1. \A t \in Threads, d \in CPUS : t = n => (Placed(t, d)' <=> d = c)
    BY ZenonT(30), <1>2, <1>5, <1>6, <1>7, <1>8 DEF Placed, InsertLabels
  <2>2. \A t \in Threads \ {n}, d \in CPUS : Placed(t, d)' <=> Placed(t, d)
    BY ZenonT(30), <1>2, <1>5, <1>6 DEF Placed
  <2> QED BY <2>1, <2>2
<1> QED BY ZenonT(30), <1>1, <1>2, <1>3, <1>4, <1>6, <1>9 DEF Uncounting, Counting

(* schedule_thread links the thread where it was counted already. *)
LEMMA InsertPlaced ==
    ASSUME SInv, NEW c \in CPUS, Step(c), SpawnInsert(c)
    PROVE  \E n \in Threads, i \in CPUS :
              /\ ~Queued(n)
              /\ \A t \in Threads : Queued(t)' <=> Queued(t) \/ t = n
              /\ \A t \in Threads, d \in CPUS : Placed(t, d)' <=> Placed(t, d)
              /\ list' = [list EXCEPT ![i] = Append(@, n)]
              /\ counts' = [counts EXCEPT ![i] = @ + 1]
              /\ UNCHANGED <<owner, per_cpu, total>>
              /\ pc[c] \notin Uncounting \cup Counting /\ pc'[c] \in Counting
<1> DEFINE n == spawn[c].th
           i == spawn[c].rq
<1>1. pc[c] = "sp_insert" /\ pc' = [pc EXCEPT ![c] = "sp_count"] /\ spawn' = spawn
  BY Zenon DEF SpawnInsert, Goto, local_vars
<1>2. /\ list' = [list EXCEPT ![i] = Append(@, n)]
      /\ counts' = [counts EXCEPT ![i] = @ + 1]
      /\ UNCHANGED <<owner, per_cpu, total>>
  BY Zenon DEF SpawnInsert, task_vars
<1>3. n \in Threads /\ i \in CPUS
  BY Zenon, <1>1 DEF SInv, SpawnsApart, SpawnLabels, InsertLabels
<1>4. ~Queued(n)
  BY Zenon, <1>1, <1>3 DEF SInv, ListsOnce, InFlight
<1>5. \A d \in CPUS \ {c} : pc'[d] = pc[d]
  BY Zenon, OthersKept DEF Kept
<1>6. pc'[c] = "sp_count"
  BY Zenon, <1>1 DEF SInv, TypeOK, CpuTypes
<1>7. \A d \in CPUS \ {c} : spawn[d].th # n
  BY Zenon, <1>3, Constants DEF SInv, SpawnsApart
<1> HIDE DEF n, i
<1>8. \A t \in Threads, d \in CPUS : In(t, list'[d]) <=> In(t, list[d]) \/ (t = n /\ d = i)
  BY SMTT(30), <1>2, <1>3, AppendIn DEF SInv, TypeOK, QueueTypes
<1>9. \A t \in Threads : Queued(t)' <=> Queued(t) \/ t = n
  BY Zenon, <1>3, <1>8 DEF Queued
<1>10. \A t \in Threads, d \in CPUS : Placed(t, d)' <=> Placed(t, d)
  BY ZenonT(30), <1>1, <1>5, <1>6, <1>7, <1>8 DEF Placed, InsertLabels, n, i
<1> QED BY Zenon, <1>1, <1>2, <1>3, <1>4, <1>6, <1>9, <1>10 DEF Uncounting, Counting

(* unqueue_thread takes one thread off the counts of one runqueue, x: its  *)
(* own, or the one try_balance_task took a thread over from.               *)
Less1(f, x) == [d \in CPUS |-> IF d = x THEN f[d] - 1 ELSE f[d]]

RemovesKeeping(c, t) ==
    /\ Keeps(c, t)
    /\ counts' = Less1(counts, c)
    /\ per_cpu' = [per_cpu EXCEPT ![owner[t]] = Less1(per_cpu[owner[t]], c)]

RemovesMoving(c, t, v, w) ==
    /\ Moves(c, t, v, w) /\ owner[w] = owner[t]
    /\ counts' = Less1(counts, v)
    /\ per_cpu' = [per_cpu EXCEPT ![owner[t]] = Less1(per_cpu[owner[t]], v)]

(* unqueue_thread does one of the two: what try_balance_task adds on one   *)
(* side and takes off on the other leaves one less on the victim's side.   *)
LEMMA UnqueueCounts ==
    ASSUME SInv, NEW c \in CPUS, NEW t \in Threads, In(t, list[c]), lock[c] = c, sched_cpu[t] = c,
           NEW st, Unqueue(c, t, st)
    PROVE  RemovesKeeping(c, t) \/ \E v \in CPUS, w \in Threads : RemovesMoving(c, t, v, w)
<1> DEFINE k == owner[t]
           rs == Without(refs[k], t)
           ls == [list EXCEPT ![c] = Without(@, t)]
           g == [counts EXCEPT ![c] = @ - 1]
           n == [per_cpu[k] EXCEPT ![sched_cpu[t]] = @ - 1]
           steals(v, w) == /\ n[v] - n[c] > 1 /\ VictimFree(v)
                           /\ w # NoThread /\ Stealable(v, w, st)
                           /\ In(w, list[v])
<1>1. PICK v \in CPUS, w \in Threads \cup {NoThread} :
         /\ AnyThreadWith(rs, v, w)
         /\ IF steals(v, w)
            THEN /\ list' = [ls EXCEPT ![v] = Without(@, w), ![c] = Append(@, w)]
                 /\ counts' = [g EXCEPT ![v] = @ - 1, ![c] = @ + 1]
                 /\ per_cpu' = [per_cpu EXCEPT ![k] = [n EXCEPT ![v] = @ - 1, ![c] = @ + 1]]
                 /\ sched_cpu' = [sched_cpu EXCEPT ![w] = c]
            ELSE /\ list' = ls
                 /\ counts' = g
                 /\ per_cpu' = [per_cpu EXCEPT ![k] = n]
                 /\ UNCHANGED sched_cpu
  BY ZenonT(30) DEF Unqueue
<1>2. /\ k \in Tasks /\ counts \in [CPUS -> Int] /\ list \in [CPUS -> Seq(Threads)]
      /\ per_cpu[k] \in [CPUS -> Int] /\ refs[k] \in Seq(Threads)
  BY Zenon DEF SInv, TypeOK, ThreadTypes, TaskTypes, QueueTypes
<1>3. n \in [CPUS -> Int] /\ n[c] = per_cpu[k][c] - 1 /\ \A d \in CPUS \ {c} : n[d] = per_cpu[k][d]
  BY SMTT(30), <1>2
<1> HIDE DEF k, rs
<1>4. CASE ~steals(v, w)
  <2>1. g = Less1(counts, c) /\ n = Less1(per_cpu[k], c)
    BY Zenon, <1>2 DEF Less1
  <2> QED BY Zenon, <1>1, <1>4, <2>1 DEF RemovesKeeping, Keeps, k
<1>5. CASE steals(v, w)
  <2>1. v # c
    BY SMTT(30), <1>3, <1>5
  <2>2. w \in Threads /\ current[v] # w /\ lock[v] = NoCpu /\ In(w, list[v])
    BY Zenon, <1>1, <1>5 DEF VictimFree, Stealable
  <2>3. [g EXCEPT ![v] = @ - 1, ![c] = @ + 1] = Less1(counts, v)
    BY SMTT(30), <1>2, <2>1 DEF Less1
  <2>4. [n EXCEPT ![v] = @ - 1, ![c] = @ + 1] = Less1(per_cpu[k], v)
    BY SMTT(30), <1>2, <2>1 DEF Less1
  <2>5. list' = [list EXCEPT ![c] = Append(Without(list[c], t), w), ![v] = Without(list[v], w)]
    BY SMTT(30), <1>1, <1>2, <1>5, <2>1
  <2>6. Moves(c, t, v, w)
    BY Zenon, <1>1, <1>5, <2>1, <2>2, <2>5 DEF Moves
  <2>7. owner[w] = k
    <3>1. In(w, rs)
      BY Zenon, <1>1, <2>2, Constants DEF AnyThreadWith, In
    <3>2. In(w, refs[k])
      BY Zenon, <1>2, <3>1, WithoutProperties DEF rs, SInv, RefsLinked
    <3> QED BY ZenonT(30), <1>2, <2>2, <3>2 DEF SInv, RefsLinked
  <2>8. RemovesMoving(c, t, v, w)
    BY Zenon, <1>1, <1>5, <2>3, <2>4, <2>6, <2>7 DEF RemovesMoving, k
  <2> QED BY Zenon, <2>2, <2>8
<1> QED BY SMTT(30), <1>4, <1>5

(* unqueue_thread keeps thread_count of every runqueue. *)
LEMMA RemovesCounts ==
    ASSUME SInv, LengthsExact, NEW c \in CPUS, Step(c), NEW t \in Threads, Removes(c, t)
    PROVE  LengthsExact'
<1>1. In(t, list[c]) /\ (RemovesKeeping(c, t) \/ \E v \in CPUS, w \in Threads : RemovesMoving(c, t, v, w))
  BY Zenon, UnqueueCounts DEF Removes
<1>2. list \in [CPUS -> Seq(Threads)] /\ counts \in [CPUS -> Int]
  BY DEF SInv, TypeOK, QueueTypes
<1>3. Without(list[c], t) \in Seq(Threads) /\ Len(Without(list[c], t)) = Len(list[c]) - 1
  BY <1>1, <1>2, WithoutProperties
<1>4. CASE RemovesKeeping(c, t)
  <2>1. \A d \in CPUS : list'[d] = IF d = c THEN Without(list[c], t) ELSE list[d]
    BY <1>2, <1>4 DEF RemovesKeeping, Keeps
  <2>2. \A d \in CPUS : counts'[d] = IF d = c THEN counts[d] - 1 ELSE counts[d]
    BY SMTT(30), <1>4 DEF RemovesKeeping, Less1
  <2> QED BY SMTT(30), <1>3, <2>1, <2>2 DEF LengthsExact
<1>5. ASSUME NEW v \in CPUS, NEW w \in Threads, RemovesMoving(c, t, v, w)
      PROVE  LengthsExact'
  <2>1. v # c /\ In(w, list[v])
    BY SMTT(30), <1>5 DEF RemovesMoving, Moves
  <2>2. Len(Without(list[v], w)) = Len(list[v]) - 1
    BY <1>2, <2>1, WithoutProperties
  <2>3. Len(Append(Without(list[c], t), w)) = Len(list[c])
    <3>1. Len(Append(Without(list[c], t), w)) = Len(Without(list[c], t)) + 1
      BY <1>3, AppendIn
    <3>2. Len(list[c]) \in Nat
      BY <1>2
    <3> QED BY <1>3, <3>1, <3>2
  <2>4. \A d \in CPUS : list'[d] = IF d = c THEN Append(Without(list[c], t), w)
                                   ELSE IF d = v THEN Without(list[v], w) ELSE list[d]
    BY Zenon, <1>2, <1>5, <2>1 DEF RemovesMoving, Moves
  <2>5. \A d \in CPUS : counts'[d] = IF d = v THEN counts[d] - 1 ELSE counts[d]
    BY SMTT(30), <1>5 DEF RemovesMoving, Less1
  <2> QED BY Zenon, <2>1, <2>2, <2>3, <2>4, <2>5 DEF LengthsExact
<1> QED BY Zenon, <1>1, <1>4, <1>5

(* unqueue_thread changes the place of the thread it removes and of the    *)
(* one it moves, and of no other.                                          *)
LEMMA RemovesQueued ==
    ASSUME SInv, NEW c \in CPUS, Step(c), NEW t \in Threads, Removes(c, t)
    PROVE  /\ Queued(t) /\ \A x \in Threads : Queued(x)' <=> Queued(x) /\ x # t
           /\ \A x \in Threads, d \in CPUS :
                 In(x, list'[d]) <=> Queued(x) /\ x # t /\ sched_cpu'[x] = d
           /\ \A x \in Threads, d \in CPUS :
                 Placed(x, d)' <=> In(x, list'[d]) \/ (Placed(x, d) /\ ~In(x, list[d]))
<1>1. In(t, list[c]) /\ lock[c] = c /\ \E st : Unqueue(c, t, st)
  BY Zenon DEF Removes
<1>2. /\ \A x \in Threads : Queued(x)' <=> Queued(x) /\ x # t
      /\ \A x \in Threads, d \in CPUS : In(x, list'[d]) => x # t /\ sched_cpu'[x] = d
  BY SMTT(30), <1>1, UnqueueCases, UnqueueLists DEF SInv, TypeOK
<1>3. \A x \in Threads, d \in CPUS : In(x, list'[d]) <=> Queued(x) /\ x # t /\ sched_cpu'[x] = d
  <2>1. \A x \in Threads : Queued(x) /\ x # t => \E e \in CPUS : In(x, list'[e])
    BY Zenon, <1>2 DEF Queued
  <2>2. \A x \in Threads, d \in CPUS : In(x, list'[d]) => Queued(x)
    BY Zenon, <1>2 DEF Queued
  <2> QED BY SMTT(30), <1>2, <2>1, <2>2
<1>4. \A d \in CPUS : pc'[d] \in InsertLabels <=> pc[d] \in InsertLabels
  <2>1. pc[c] \notin InsertLabels /\ pc'[c] \notin InsertLabels
    BY Zenon DEF Removes, SInv, TypeOK, CpuTypes, Uncounting, InsertLabels
  <2>2. \A d \in CPUS \ {c} : pc'[d] = pc[d]
    BY Zenon, OthersKept DEF Kept
  <2> QED BY Zenon, <2>1, <2>2
<1>5. spawn' = spawn /\ Queued(t)
  BY Zenon, <1>1 DEF Removes, Queued
<1>6. \A x \in Threads, d \in CPUS : In(x, list[d]) => Queued(x) /\ ~InFlight(x)
  BY Zenon DEF SInv, ListsOnce, Queued
<1>7. \A x \in Threads, d \in CPUS :
         Placed(x, d)' <=> In(x, list'[d]) \/ (Placed(x, d) /\ ~In(x, list[d]))
  BY ZenonT(30), <1>4, <1>5, <1>6 DEF Placed, InFlight, InsertLabels
<1> QED BY Zenon, <1>2, <1>3, <1>5, <1>7

(* Every step keeps thread_count of every runqueue. *)
LEMMA LengthsInv ==
    ASSUME SInv, LengthsExact, NEW c \in CPUS, Step(c)
    PROVE  LengthsExact'
<1>1. CASE Untouched(c)
  BY Zenon, <1>1 DEF Untouched, LengthsExact
<1>2. ASSUME NEW k \in Tasks, Creates(c, k) PROVE LengthsExact'
  BY Zenon, <1>2, CreatesPlaced DEF LengthsExact
<1>3. CASE SpawnMove(c)
  BY Zenon, <1>3, MovePlaced DEF LengthsExact
<1>4. CASE SpawnInsert(c)
  <2>1. PICK n \in Threads, i \in CPUS : /\ list' = [list EXCEPT ![i] = Append(@, n)]
                                         /\ counts' = [counts EXCEPT ![i] = @ + 1]
    BY Zenon, <1>4, InsertPlaced
  <2>2. list \in [CPUS -> Seq(Threads)] /\ counts \in [CPUS -> Int]
    BY SMTT(30) DEF SInv, TypeOK, QueueTypes
  <2> QED BY SMTT(30), <2>1, <2>2, AppendIn DEF LengthsExact
<1>5. ASSUME NEW t \in Threads, Removes(c, t) PROVE LengthsExact'
  BY Zenon, <1>5, RemovesCounts
<1> QED BY Zenon, <1>1, <1>2, <1>3, <1>4, <1>5, StepKinds DEF Kinds

(* Every step keeps total_threads, up to the CPUs that still have to       *)
(* change it.                                                              *)
LEMMA TotalInv ==
    ASSUME SInv, TotalExact, NEW c \in CPUS, Step(c)
    PROVE  TotalExact'
<1>1. Cardinality(OnQueue) \in Nat /\ IsFiniteSet(OnQueue)
  BY Zenon, AtHomeFinite
<1>2. \A d \in CPUS \ {c} : pc'[d] = pc[d]
  BY Zenon, OthersKept DEF Kept
<1> DEFINE U == CpusAt(Uncounting)
           C == CpusAt(Counting)
<1>3. /\ U \in Nat /\ U' \in Nat
      /\ (pc[c] \in Uncounting <=> pc'[c] \in Uncounting) => U' = U
      /\ pc[c] \in Uncounting /\ pc'[c] \notin Uncounting => U' = U - 1
      /\ pc[c] \notin Uncounting /\ pc'[c] \in Uncounting => U' = U + 1
  BY Zenon, <1>2, CpusAtStep DEF Uncounting
<1>4. /\ C \in Nat /\ C' \in Nat
      /\ (pc[c] \in Counting <=> pc'[c] \in Counting) => C' = C
      /\ pc[c] \in Counting /\ pc'[c] \notin Counting => C' = C - 1
      /\ pc[c] \notin Counting /\ pc'[c] \in Counting => C' = C + 1
  BY Zenon, <1>2, CpusAtStep DEF Counting
<1>5. total = Cardinality(OnQueue) + U - C
  BY DEF TotalExact
<1>6. Uncounting \cap Counting = {}
  BY DEF Uncounting, Counting
<1>7. SUFFICES total' = Cardinality(OnQueue') + U' - C'
  BY DEF TotalExact
<1> HIDE DEF U, C
<1>8. list' = list => OnQueue' = OnQueue
  BY SMTT(30) DEF OnQueue, Queued
<1>9. CASE Untouched(c)
  <2>1. OnQueue' = OnQueue
    BY Zenon, <1>8, <1>9 DEF Untouched
  <2>2. /\ pc'[c] \notin Uncounting /\ pc'[c] \notin Counting
        /\ \/ total' = total /\ pc[c] \notin Uncounting /\ pc[c] \notin Counting
           \/ total' = total - 1 /\ pc[c] \in Uncounting /\ pc[c] \notin Counting
           \/ total' = total + 1 /\ pc[c] \in Counting /\ pc[c] \notin Uncounting
    BY Zenon, <1>6, <1>9 DEF Untouched
  <2> QED BY ONLY SMTT(30), <1>1, <1>3, <1>4, <1>5, <2>1, <2>2
<1>10. ASSUME list' = list, total' = total,
              pc[c] \notin Uncounting \cup Counting, pc'[c] \notin Uncounting \cup Counting
       PROVE  total' = Cardinality(OnQueue') + U' - C'
  <2>1. OnQueue' = OnQueue /\ U' = U /\ C' = C
    BY Zenon, <1>3, <1>4, <1>8, <1>10
  <2> QED BY Zenon, <1>5, <1>10, <2>1
<1>11. ASSUME NEW k \in Tasks, Creates(c, k)
       PROVE  total' = Cardinality(OnQueue') + U' - C'
  BY Zenon, <1>10, <1>11, CreatesPlaced
<1>12. CASE SpawnMove(c)
  BY ZenonT(30), <1>10, <1>12, MovePlaced
<1>13. CASE SpawnInsert(c)
  <2>1. PICK n \in Threads : /\ ~Queued(n) /\ \A t \in Threads : Queued(t)' <=> Queued(t) \/ t = n
                             /\ pc[c] \notin Uncounting \cup Counting /\ pc'[c] \in Counting
                             /\ total' = total
    BY Zenon, <1>13, InsertPlaced
  <2>2. OnQueue' = OnQueue \cup {n} /\ n \notin OnQueue
    BY SMTT(30), <2>1 DEF OnQueue
  <2>3. Cardinality(OnQueue') = Cardinality(OnQueue) + 1
    BY SMTT(30), <1>1, <2>2, FS_AddElement
  <2>4. U' = U /\ C' = C + 1
    BY Zenon, <1>3, <1>4, <1>6, <2>1
  <2> QED BY ONLY SMTT(30), <1>1, <1>3, <1>4, <1>5, <2>1, <2>3, <2>4
<1>14. ASSUME NEW t \in Threads, Removes(c, t)
       PROVE  total' = Cardinality(OnQueue') + U' - C'
  <2>1. Queued(t) /\ \A x \in Threads : Queued(x)' <=> Queued(x) /\ x # t
    BY Zenon, <1>14, RemovesQueued
  <2>2. OnQueue' = OnQueue \ {t} /\ t \in OnQueue
    BY SMTT(30), <2>1 DEF OnQueue
  <2>3. Cardinality(OnQueue') = Cardinality(OnQueue) - 1
    BY Zenon, <1>1, <2>2, FS_RemoveElement
  <2>4. total' = total /\ pc[c] \notin Uncounting \cup Counting /\ pc'[c] \in Uncounting
    BY Zenon, <1>14 DEF Removes, SInv, TypeOK, CpuTypes, Uncounting, Counting
  <2>5. U' = U + 1 /\ C' = C
    BY Zenon, <1>3, <1>4, <1>6, <2>4
  <2> QED BY ONLY SMTT(30), <1>1, <1>3, <1>4, <1>5, <2>3, <2>4, <2>5
<1> QED BY Zenon, <1>9, <1>11, <1>12, <1>13, <1>14, StepKinds DEF Kinds

(* A step that leaves every thread in its place keeps the threads per CPU. *)
LEMMA PerCpuKept ==
    ASSUME SInv, PerCpuExact, UNCHANGED <<owner, per_cpu>>,
           \A t \in Threads, d \in CPUS : Placed(t, d)' <=> Placed(t, d)
    PROVE  PerCpuExact'
<1>1. \A k \in Tasks, d \in CPUS : AtHome(k, d)' = AtHome(k, d)
  BY DEF AtHome
<1> QED BY Zenon, <1>1 DEF PerCpuExact

(* schedule_thread counts a new thread once. *)
LEMMA PerCpuCreates ==
    ASSUME SInv, PerCpuExact, NEW c \in CPUS, Step(c), NEW k \in Tasks, Creates(c, k)
    PROVE  PerCpuExact'
<1>1. PICK n \in Threads, i \in CPUS :
              /\ ~Linked(n)
              /\ \A t \in Threads, d \in CPUS : Placed(t, d)' <=> Placed(t, d) \/ (t = n /\ d = i)
              /\ \A t \in Threads : owner'[t] = IF t = n THEN k ELSE owner[t]
              /\ per_cpu' = [per_cpu EXCEPT ![k][i] = @ + 1]
              /\ UNCHANGED <<list, counts, total>>
              /\ pc[c] \notin Uncounting \cup Counting /\ pc'[c] \notin Uncounting \cup Counting
  BY Zenon, CreatesPlaced
<1>2. \A d \in CPUS : ~Placed(n, d)
  BY Zenon, <1>1, PlacedOnce
<1>3. ASSUME NEW j \in Tasks, NEW d \in CPUS
      PROVE  per_cpu'[j][d] = Cardinality(AtHome(j, d)')
  <2>1. IsFiniteSet(AtHome(j, d)) /\ per_cpu[j][d] = Cardinality(AtHome(j, d))
    BY Zenon, AtHomeFinite DEF PerCpuExact
  <2>2. CASE j = k /\ d = i
    <3>1. AtHome(j, d)' = AtHome(j, d) \cup {n} /\ n \notin AtHome(j, d)
      BY SMTT(30), <1>1, <1>2, <2>2 DEF AtHome
    <3>2. per_cpu'[j][d] = per_cpu[j][d] + 1
      BY SMTT(30), <1>1, <2>2 DEF SInv, TypeOK, TaskTypes
    <3> QED BY ZenonT(30), <2>1, <3>1, <3>2, FS_AddElement
  <2>3. CASE ~(j = k /\ d = i)
    <3>1. AtHome(j, d)' = AtHome(j, d)
      BY SMTT(30), <1>1, <1>2, <2>3 DEF AtHome
    <3>2. per_cpu'[j][d] = per_cpu[j][d]
      BY SMTT(30), <1>1, <2>3 DEF SInv, TypeOK, TaskTypes
    <3> QED BY Zenon, <2>1, <3>1, <3>2
  <2> QED BY SMTT(30), <2>2, <2>3
<1> QED BY Zenon, <1>3 DEF PerCpuExact

(* schedule_thread moves the count with the thread. *)
LEMMA PerCpuMove ==
    ASSUME SInv, PerCpuExact, NEW c \in CPUS, Step(c), SpawnMove(c)
    PROVE  PerCpuExact'
<1>1. PICK n \in Threads, i \in CPUS \ {c} :
              /\ \A d \in CPUS : Placed(n, d) <=> d = i
              /\ \A t \in Threads, d \in CPUS : Placed(t, d)' <=> IF t = n THEN d = c ELSE Placed(t, d)
              /\ per_cpu' = [per_cpu EXCEPT ![owner[n]][i] = @ - 1, ![owner[n]][c] = @ + 1]
              /\ UNCHANGED <<owner, list, counts, total>>
              /\ pc[c] \notin Uncounting \cup Counting /\ pc'[c] \notin Uncounting \cup Counting
  BY Zenon, MovePlaced
<1>2. owner[n] \in Tasks /\ per_cpu \in [Tasks -> [CPUS -> Int]]
  BY Zenon DEF SInv, TypeOK, ThreadTypes, TaskTypes
<1>3. ASSUME NEW j \in Tasks, NEW d \in CPUS
      PROVE  per_cpu'[j][d] = Cardinality(AtHome(j, d)')
  <2>1. IsFiniteSet(AtHome(j, d)) /\ per_cpu[j][d] = Cardinality(AtHome(j, d))
    BY Zenon, AtHomeFinite DEF PerCpuExact
  <2>2. CASE j = owner[n] /\ d = i
    <3>1. AtHome(j, d)' = AtHome(j, d) \ {n} /\ n \in AtHome(j, d)
      BY SMTT(30), <1>1, <2>2 DEF AtHome
    <3>2. per_cpu'[j][d] = per_cpu[j][d] - 1
      BY SMTT(30), <1>1, <1>2, <2>2
    <3>3. Cardinality(AtHome(j, d)') = Cardinality(AtHome(j, d)) - 1
      BY ZenonT(30), <2>1, <3>1, FS_RemoveElement
    <3> QED BY Zenon, <2>1, <3>2, <3>3
  <2>3. CASE j = owner[n] /\ d = c
    <3>1. AtHome(j, d)' = AtHome(j, d) \cup {n} /\ n \notin AtHome(j, d)
      BY SMTT(30), <1>1, <2>3 DEF AtHome
    <3>2. per_cpu'[j][d] = per_cpu[j][d] + 1
      BY SMTT(30), <1>1, <1>2, <2>3
    <3>3. Cardinality(AtHome(j, d)') = Cardinality(AtHome(j, d)) + 1
      BY ZenonT(30), <2>1, <3>1, FS_AddElement
    <3> QED BY Zenon, <2>1, <3>2, <3>3
  <2>4. CASE ~(j = owner[n] /\ d \in {c, i})
    <3>1. AtHome(j, d)' = AtHome(j, d)
      BY SMTT(30), <1>1, <2>4 DEF AtHome
    <3>2. per_cpu'[j][d] = per_cpu[j][d]
      BY SMTT(30), <1>1, <1>2, <2>4
    <3> QED BY Zenon, <2>1, <3>1, <3>2
  <2> QED BY SMTT(30), <2>2, <2>3, <2>4
<1> QED BY Zenon, <1>3 DEF PerCpuExact

(* unqueue_thread uncounts where the thread, or the one moved, was. *)
LEMMA PerCpuRemoves ==
    ASSUME SInv, PerCpuExact, NEW c \in CPUS, Step(c), NEW t \in Threads, Removes(c, t)
    PROVE  PerCpuExact'
<1>1. /\ In(t, list[c]) /\ owner' = owner
      /\ RemovesKeeping(c, t) \/ \E v \in CPUS, w \in Threads : RemovesMoving(c, t, v, w)
  BY Zenon, UnqueueCounts DEF Removes
<1>2. /\ owner[t] \in Tasks /\ per_cpu \in [Tasks -> [CPUS -> Int]]
      /\ sched_cpu \in [Threads -> CPUS \cup {NoCpu}]
  BY ZenonT(30) DEF SInv, TypeOK, ThreadTypes, TaskTypes
<1>3. \A x \in Threads, d \in CPUS : In(x, list[d]) <=> Queued(x) /\ sched_cpu[x] = d
  <2>1. \A x \in Threads, d \in CPUS : In(x, list[d]) => Queued(x) /\ sched_cpu[x] = d
    BY Zenon DEF Queued, SInv, ListsOnce
  <2>2. \A x \in Threads : Queued(x) => \E e \in CPUS : In(x, list[e])
    BY Zenon DEF Queued
  <2> QED BY <2>1, <2>2
<1>4. \A x \in Threads, d \in CPUS :
         Placed(x, d)' <=> In(x, list'[d]) \/ (Placed(x, d) /\ ~In(x, list[d]))
  BY Zenon, RemovesQueued
<1>5. \A x \in Threads, d \in CPUS : In(x, list'[d]) <=> Queued(x) /\ x # t /\ sched_cpu'[x] = d
  BY Zenon, RemovesQueued
<1>6. \A x \in Threads, e \in CPUS : In(x, list[e]) => \A d \in CPUS : Placed(x, d) <=> d = e
  BY Zenon, PlacedOnce
<1>7. \A j \in Tasks, d \in CPUS :
         IsFiniteSet(AtHome(j, d)) /\ per_cpu[j][d] = Cardinality(AtHome(j, d))
  BY Zenon, AtHomeFinite DEF PerCpuExact
<1>8. CASE RemovesKeeping(c, t)
  <2>1. /\ sched_cpu' = sched_cpu
        /\ per_cpu' = [per_cpu EXCEPT ![owner[t]] = Less1(per_cpu[owner[t]], c)]
    BY Zenon, <1>8 DEF RemovesKeeping, Keeps
  <2>2. \A x \in Threads, d \in CPUS : Placed(x, d)' <=> Placed(x, d) /\ x # t
    <3>1. \A x \in Threads, d \in CPUS : In(x, list'[d]) <=> In(x, list[d]) /\ x # t
      BY ZenonT(30), <1>3, <1>5, <2>1
    <3>2. \A x \in Threads, d \in CPUS : In(x, list[d]) => Placed(x, d)
      BY Zenon DEF Placed
    <3>3. \A d \in CPUS : Placed(t, d) => In(t, list[d])
      BY Zenon, <1>1, <1>6
    <3> QED BY Zenon, <1>4, <3>1, <3>2, <3>3
  <2>3. ASSUME NEW j \in Tasks, NEW d \in CPUS
        PROVE  per_cpu'[j][d] = Cardinality(AtHome(j, d)')
    <3>1. CASE j = owner[t] /\ d = c
      <4>1. AtHome(j, d)' = AtHome(j, d) \ {t} /\ t \in AtHome(j, d)
        BY SMTT(30), <1>1, <1>6, <2>2, <3>1 DEF AtHome
      <4>2. per_cpu'[j][d] = per_cpu[j][d] - 1
        BY SMTT(30), <1>2, <2>1, <3>1 DEF Less1
      <4>3. IsFiniteSet(AtHome(j, d))
        BY Zenon, <1>7
      <4>4. Cardinality(AtHome(j, d)') = Cardinality(AtHome(j, d)) - 1
        BY ZenonT(30), <4>1, <4>3, FS_RemoveElement
      <4> QED BY Zenon, <1>7, <4>2, <4>4
    <3>2. CASE ~(j = owner[t] /\ d = c)
      <4>1. AtHome(j, d)' = AtHome(j, d)
        BY <1>1, <1>6, <2>2, <3>2 DEF AtHome
      <4>2. per_cpu'[j][d] = per_cpu[j][d]
        BY SMTT(30), <1>2, <2>1, <3>2 DEF Less1
      <4> QED BY Zenon, <1>7, <4>1, <4>2
    <3> QED BY SMTT(30), <3>1, <3>2
  <2> QED BY Zenon, <2>3 DEF PerCpuExact
<1>9. ASSUME NEW v \in CPUS, NEW w \in Threads, RemovesMoving(c, t, v, w)
      PROVE  PerCpuExact'
  <2>1. /\ v # c /\ In(w, list[v]) /\ owner[w] = owner[t]
        /\ sched_cpu' = [sched_cpu EXCEPT ![w] = c]
        /\ per_cpu' = [per_cpu EXCEPT ![owner[t]] = Less1(per_cpu[owner[t]], v)]
    BY Zenon, <1>9 DEF RemovesMoving, Moves
  <2>2. w # t /\ \A x \in Threads : sched_cpu'[x] = IF x = w THEN c ELSE sched_cpu[x]
    BY SMTT(30), <1>1, <1>2, <1>3, <2>1
  <2>3. \A x \in Threads, d \in CPUS : Placed(x, d)' <=> IF x = w THEN d = c ELSE Placed(x, d) /\ x # t
    <3>1. \A x \in Threads, d \in CPUS :
             In(x, list'[d]) <=> IF x = w THEN d = c ELSE In(x, list[d]) /\ x # t
      BY SMTT(30), <1>3, <1>5, <2>1, <2>2
    <3>2. \A x \in Threads, d \in CPUS : In(x, list[d]) => Placed(x, d)
      BY Zenon DEF Placed
    <3>3. \A d \in CPUS : (Placed(t, d) => In(t, list[d])) /\ (Placed(w, d) => In(w, list[d]))
      BY Zenon, <1>1, <1>6, <2>1
    <3> QED BY SMTT(30), <1>4, <3>1, <3>2, <3>3
  <2>4. ASSUME NEW j \in Tasks, NEW d \in CPUS
        PROVE  per_cpu'[j][d] = Cardinality(AtHome(j, d)')
    <3>1. CASE j = owner[t] /\ d = v
      <4>1. AtHome(j, d)' = AtHome(j, d) \ {w} /\ w \in AtHome(j, d)
        BY SMTT(30), <1>1, <1>6, <2>1, <2>3, <3>1 DEF AtHome
      <4>2. per_cpu'[j][d] = per_cpu[j][d] - 1
        BY SMTT(30), <1>2, <2>1, <3>1 DEF Less1
      <4>3. IsFiniteSet(AtHome(j, d))
        BY Zenon, <1>7
      <4>4. Cardinality(AtHome(j, d)') = Cardinality(AtHome(j, d)) - 1
        BY ZenonT(30), <4>1, <4>3, FS_RemoveElement
      <4> QED BY Zenon, <1>7, <4>2, <4>4
    <3>2. CASE j = owner[t] /\ d = c
      <4> DEFINE S == AtHome(j, d) \ {t}
      <4>1. AtHome(j, d)' = S \cup {w} /\ w \notin S /\ t \in AtHome(j, d)
        BY SMTT(30), <1>1, <1>6, <2>1, <2>2, <2>3, <3>2 DEF AtHome
      <4>2. IsFiniteSet(S) /\ Cardinality(S) = Cardinality(AtHome(j, d)) - 1
        BY ZenonT(30), <1>7, <4>1, FS_RemoveElement
      <4> HIDE DEF S
      <4>3. Cardinality(AtHome(j, d)') = Cardinality(S) + 1
        BY ZenonT(30), <4>1, <4>2, FS_AddElement
      <4>4. Cardinality(AtHome(j, d)) \in Nat
        BY Zenon, AtHomeFinite
      <4>5. per_cpu'[j][d] = per_cpu[j][d]
        BY SMTT(30), <1>2, <2>1, <3>2 DEF Less1
      <4> QED BY SMTT(30), <1>7, <4>2, <4>3, <4>4, <4>5
    <3>3. CASE ~(j = owner[t] /\ d \in {c, v})
      <4>1. AtHome(j, d)' = AtHome(j, d)
        BY SMTT(30), <1>1, <1>6, <2>1, <2>3, <3>3 DEF AtHome
      <4>2. per_cpu'[j][d] = per_cpu[j][d]
        BY SMTT(30), <1>2, <2>1, <3>3 DEF Less1
      <4> QED BY Zenon, <1>7, <4>1, <4>2
    <3> QED BY SMTT(30), <3>1, <3>2, <3>3
  <2> QED BY Zenon, <2>4 DEF PerCpuExact
<1> QED BY Zenon, <1>1, <1>8, <1>9

(* Every step keeps the threads per CPU of every task. *)
LEMMA PerCpuInv ==
    ASSUME SInv, PerCpuExact, NEW c \in CPUS, Step(c)
    PROVE  PerCpuExact'
<1>1. CASE Untouched(c)
  <2>1. \A t \in Threads, d \in CPUS : Placed(t, d)' <=> Placed(t, d)
    BY Zenon, <1>1, PlacedKept DEF Untouched
  <2> QED BY Zenon, <1>1, <2>1, PerCpuKept DEF Untouched
<1>2. ASSUME NEW k \in Tasks, Creates(c, k) PROVE PerCpuExact'
  BY Zenon, <1>2, PerCpuCreates
<1>3. CASE SpawnMove(c)
  BY Zenon, <1>3, PerCpuMove
<1>4. CASE SpawnInsert(c)
  BY Zenon, <1>4, InsertPlaced, PerCpuKept
<1>5. ASSUME NEW t \in Threads, Removes(c, t) PROVE PerCpuExact'
  BY Zenon, <1>5, PerCpuRemoves
<1> QED BY Zenon, <1>1, <1>2, <1>3, <1>4, <1>5, StepKinds DEF Kinds

(* The place of a thread is the one Home names in CountsExact. *)
LEMMA HomeIsPlace ==
    ASSUME SInv, NEW t \in Threads, Linked(t), NEW c \in CPUS
    PROVE  Home(t) = c <=> Placed(t, c)
<1>1. CASE InFlight(t)
  <2>1. PICK d \in CPUS : spawn[d].th = t /\ pc[d] \in InsertLabels
    BY Zenon, <1>1 DEF InFlight, InsertLabels
  <2>2. \A e \in CPUS : spawn[e].th = t => e = d
    BY ZenonT(30), <2>1, Constants DEF SInv, SpawnsApart
  <2>3. (CHOOSE s \in {spawn[e] : e \in CPUS} : s.th = t) = spawn[d]
    <3>1. spawn[d] \in {spawn[e] : e \in CPUS} /\ spawn[d].th = t
      BY Zenon, <2>1
    <3>2. \A s \in {spawn[e] : e \in CPUS} : s.th = t => s = spawn[d]
      BY Zenon, <2>2
    <3> QED BY Zenon, <3>1, <3>2
  <2>4. Home(t) = spawn[d].rq
    BY Zenon, <1>1, <2>1, <2>3 DEF Home
  <2> QED BY ZenonT(30), <2>1, <2>4, PlacedOnce
<1>2. CASE ~InFlight(t)
  <2>1. PICK d \in CPUS : In(t, list[d])
    BY Zenon, <1>2 DEF Linked, Queued
  <2>2. Home(t) = d
    BY Zenon, <1>2, <2>1 DEF Home, SInv, ListsOnce
  <2> QED BY Zenon, <2>1, <2>2, PlacedOnce
<1> QED BY SMTT(30), <1>1, <1>2

(* The references of a task that are at home on a CPU are its threads      *)
(* placed there, once each.                                                *)
LEMMA ReferencesAtHome ==
    ASSUME SInv, NEW k \in Tasks, NEW c \in CPUS
    PROVE  Cardinality({i \in DOMAIN refs[k] : Home(refs[k][i]) = c}) = Cardinality(AtHome(k, c))
<1> DEFINE D == {i \in DOMAIN refs[k] : Home(refs[k][i]) = c}
           f == [i \in D |-> refs[k][i]]
<1>1. refs[k] \in Seq(Threads)
  BY Zenon DEF SInv, TypeOK, TaskTypes
<1>2. DOMAIN refs[k] = 1 .. Len(refs[k]) /\ Len(refs[k]) \in Nat
      /\ \A i \in DOMAIN refs[k] : refs[k][i] \in Threads
  BY SMTT(30), <1>1
<1>3. IsFiniteSet(D)
  <2> DEFINE n == Len(refs[k])
  <2>0. n \in Int /\ 1 \in Int
    BY <1>2
  <2> HIDE DEF n
  <2>1. IsFiniteSet(1 .. n)
    BY Zenon, <2>0, FS_Interval
  <2>2. D \in SUBSET (1 .. n)
    BY Zenon, <1>2 DEF n
  <2> QED BY Zenon, <2>1, <2>2, FS_Subset
<1>4. \A i \in DOMAIN refs[k] : Linked(refs[k][i]) /\ owner[refs[k][i]] = k
  <2>1. \A i \in DOMAIN refs[k] : In(refs[k][i], refs[k])
    BY Zenon DEF In
  <2> QED BY ZenonT(30), <1>2, <2>1 DEF SInv, RefsLinked
<1>5. \A i \in D : f[i] \in AtHome(k, c)
  BY Zenon, <1>2, <1>4, HomeIsPlace DEF AtHome
<1>6. \A i, j \in D : f[i] = f[j] => i = j
  BY Zenon DEF SInv, RefsLinked, Unique
<1>7. \A t \in AtHome(k, c) : \E i \in D : f[i] = t
  <2> SUFFICES ASSUME NEW t \in AtHome(k, c) PROVE \E i \in D : f[i] = t
    BY SMTT(30)
  <2>1. t \in Threads /\ owner[t] = k /\ Placed(t, c)
    BY Zenon DEF AtHome
  <2>2. Linked(t)
    BY Zenon, <2>1, PlacedOnce
  <2>3. In(t, refs[k])
    BY Zenon, <2>1, <2>2 DEF SInv, RefsLinked
  <2>4. Home(t) = c
    BY Zenon, <2>1, <2>2, HomeIsPlace
  <2>5. PICK i \in DOMAIN refs[k] : refs[k][i] = t
    BY Zenon, <2>3 DEF In
  <2>6. i \in D
    BY Zenon, <2>4, <2>5
  <2> QED BY Zenon, <2>5, <2>6
<1> HIDE DEF D
<1>8. f \in Bijection(D, AtHome(k, c))
  <2>1. f \in [D -> AtHome(k, c)]
    BY Zenon, <1>5
  <2> HIDE DEF f
  <2>2. f \in Injection(D, AtHome(k, c))
    BY Zenon, <1>6, <2>1 DEF Injection, IsInjective
  <2>3. f \in Surjection(D, AtHome(k, c))
    BY Zenon, <1>7, <2>1 DEF Surjection
  <2> QED BY Zenon, <2>2, <2>3 DEF Bijection
<1>9. ExistsBijection(D, AtHome(k, c))
  BY Zenon, <1>8 DEF ExistsBijection
<1> QED BY Zenon, <1>3, <1>9, FS_Bijection DEF D

(* The inductive invariant, together with SInv. *)
CountInv == LengthsExact /\ PerCpuExact /\ TotalExact

(* The counts are right when the kernel starts. *)
LEMMA InitCounts ==
    ASSUME Init
    PROVE  CountInv
<1>1. /\ \A c \in CPUS : list[c] = <<>> /\ counts[c] = 0 /\ spawn[c] = NoSpawn
      /\ \A k \in Tasks, c \in CPUS : per_cpu[k][c] = 0
      /\ total = 0 /\ \A c \in CPUS : pc[c] \in {"boot", "start"}
  BY SMTT(30) DEF Init
<1>2. \A t, c : c \in CPUS => ~In(t, list[c])
  BY <1>1 DEF In
<1>3. LengthsExact
  BY <1>1 DEF LengthsExact
<1>4. PerCpuExact
  <2>1. \A k \in Tasks, c \in CPUS : AtHome(k, c) = {}
    BY Zenon, <1>1, <1>2 DEF AtHome, Placed, InsertLabels
  <2> QED BY Zenon, <1>1, <2>1, FS_EmptySet DEF PerCpuExact
<1>5. TotalExact
  <2>1. OnQueue = {}
    BY Zenon, <1>2 DEF OnQueue, Queued
  <2>2. CpusAt(Uncounting) = Cardinality({}) /\ CpusAt(Counting) = Cardinality({})
    <3>1. {c \in CPUS : pc[c] \in Uncounting} = {} /\ {c \in CPUS : pc[c] \in Counting} = {}
      BY Zenon, <1>1 DEF Uncounting, Counting
    <3> QED BY Zenon, <3>1 DEF CpusAt
  <2>3. Cardinality({}) = 0
    BY FS_EmptySet
  <2> QED BY SMTT(30), <1>1, <2>1, <2>2, <2>3 DEF TotalExact
<1> QED BY <1>3, <1>4, <1>5 DEF CountInv

(* A step of nothing keeps them. *)
LEMMA StutterCounts ==
    ASSUME SInv, CountInv, UNCHANGED vars
    PROVE  CountInv'
<1>1. UNCHANGED <<owner, list, counts, per_cpu, spawn, pc, total>>
  BY Zenon DEF vars, thread_vars, task_vars, queue_vars, local_vars
<1>2. LengthsExact'
  BY Zenon, <1>1 DEF CountInv, LengthsExact
<1>3. PerCpuExact'
  BY Zenon, <1>1, PerCpuKept DEF CountInv, Placed
<1>4. TotalExact'
  BY Zenon, <1>1 DEF CountInv, TotalExact, OnQueue, Queued, CpusAt
<1> QED BY <1>2, <1>3, <1>4 DEF CountInv

(* The counts of runqueues, tasks and the kernel are right at every step   *)
(* of schedule_thread, unqueue_thread and try_balance_task, up to what a   *)
(* CPU is about to add or take off.                                        *)
THEOREM SchedulerCounts == Spec => []CountInv
<1>1. Init => CountInv
  BY InitCounts
<1>2. SInv /\ CountInv /\ [Next]_vars => CountInv'
  <2> SUFFICES ASSUME SInv, CountInv, [Next]_vars PROVE CountInv'
    OBVIOUS
  <2>1. ASSUME NEW c \in CPUS, Step(c) PROVE CountInv'
    BY Zenon, <2>1, LengthsInv, PerCpuInv, TotalInv DEF CountInv
  <2>2. CASE UNCHANGED vars
    BY Zenon, <2>2, StutterCounts
  <2> QED BY <2>1, <2>2, NextStep
<1> QED BY <1>1, <1>2, SchedulerInvariant, PTL DEF Spec

(* thread_count of a runqueue is the length of its list, the threads per   *)
(* CPU of a task are its threads there, and total_threads is the number of *)
(* queued threads up to the CPUs between a list and the count: none is     *)
(* ever lost, although they are changed under different locks.             *)
THEOREM SchedulerCountsExact == Spec => []CountsExact
<1>1. SInv /\ CountInv => CountsExact
  <2> SUFFICES ASSUME SInv, CountInv PROVE CountsExact
    OBVIOUS
  <2>1. \A c \in CPUS : counts[c] = Len(list[c])
    BY Zenon DEF CountInv, LengthsExact
  <2>2. \A k \in Tasks, c \in CPUS :
           per_cpu[k][c] = Cardinality({i \in DOMAIN refs[k] : Home(refs[k][i]) = c})
    BY ZenonT(30), ReferencesAtHome DEF CountInv, PerCpuExact
  <2>3. total = Cardinality({t \in Threads : Queued(t)})
                 + CpusAt({"uncount", "pick_uncount"}) - CpusAt({"sp_count"})
    BY Zenon DEF CountInv, TotalExact, OnQueue, Uncounting, Counting
  <2> QED BY Zenon, <2>1, <2>2, <2>3 DEF CountsExact
<1> QED BY <1>1, SchedulerInvariant, SchedulerCounts, PTL
=============================================================================
