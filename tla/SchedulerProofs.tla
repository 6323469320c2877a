--------------------------- MODULE SchedulerProofs ---------------------------
(***************************************************************************)
(* Proofs about Scheduler, second part: the conjuncts of SInv about lists, *)
(* references, current threads and address spaces, that SInv is an         *)
(* invariant, and what follows from it: the runqueues are consistent, a    *)
(* thread runs on one CPU, in the address space of its task, the handle of *)
(* the preemptive event names a pending event, and dead threads and tasks  *)
(* stay dead.                                                              *)
(*                                                                         *)
(* Everything holds for any number of CPUs, threads, tasks and workloads.  *)
(***************************************************************************)
EXTENDS SchedulerTypesProofs

(* A step that changes states only, and none of a linked thread to freed,  *)
(* keeps lists, references and states together.                            *)
LEMMA StateLists ==
    ASSUME SInv, UNCHANGED <<owner, sched_cpu, next_uid, refs, list>>,
           \A t : InFlight(t)' <=> InFlight(t),
           \A d \in CPUS : spawn'[d].th \in {spawn[d].th, NoThread},
           \A k \in Tasks : tstate'[k] = "DEAD" => tstate[k] = "DEAD",
           \A t \in Threads : state'[t] = "none" <=> state[t] = "none",
           \A t \in Threads : Linked(t) => state'[t] # "freed",
           \A d \in CPUS : \A t \in tofree'[d] : t \in tofree[d] /\ state'[t] \in {"DEAD", "freed"}
    PROVE  ListsOnce' /\ RefsLinked' /\ LinkedLive'
<1>1. \A t : Queued(t)' <=> Queued(t)
  BY Zenon DEF Queued
<1>2. \A t : Linked(t)' <=> Linked(t)
  BY Zenon, <1>1 DEF Linked
<1>3. ListsOnce'
  BY Zenon, <1>1 DEF SInv, ListsOnce
<1>4. RefsLinked'
  BY Zenon, <1>2 DEF SInv, RefsLinked
<1>5. LinkedLive'
  <2>1. \A t \in Threads : Linked(t)' => state'[t] \notin {"none", "freed"}
    BY Zenon, <1>2 DEF SInv, LinkedLive
  <2>2. \A t \in Threads : state'[t] = "none" <=> t >= next_uid'
    BY Zenon DEF SInv, LinkedLive
  <2>3. \A d \in CPUS : \A t \in tofree'[d] : state'[t] \in {"DEAD", "freed"} /\ ~Linked(t)'
    BY Zenon, <1>2 DEF SInv, LinkedLive
  <2>4. \A d \in CPUS : spawn'[d].th < next_uid'
    BY Constants DEF SInv, TypeOK, ThreadTypes, LinkedLive
  <2> QED BY Zenon, <2>1, <2>2, <2>3, <2>4 DEF LinkedLive
<1> QED BY Zenon, <1>3, <1>4, <1>5

(* So does a step that touches neither threads nor lists. *)
LEMMA QuietLists ==
    ASSUME SInv, UNCHANGED <<thread_vars, refs, tstate, list, tofree>>,
           \A t : InFlight(t)' <=> InFlight(t),
           \A d \in CPUS : spawn'[d].th \in {spawn[d].th, NoThread}
    PROVE  ListsOnce' /\ RefsLinked' /\ LinkedLive'
<1> USE DEF SInv, thread_vars
<1>1. \A t \in Threads : Linked(t) => state'[t] # "freed"
  BY Zenon DEF LinkedLive
<1>2. \A d \in CPUS : \A t \in tofree'[d] : t \in tofree[d] /\ state'[t] \in {"DEAD", "freed"}
  BY Zenon DEF LinkedLive
<1>3. UNCHANGED <<state, tstate, owner, sched_cpu, next_uid, refs, list>>
  OBVIOUS
<1> QED BY Zenon, <1>1, <1>2, <1>3, StateLists

(* So does freeing the reaped threads at the end of schedule(): they are   *)
(* linked nowhere.                                                         *)
LEMMA FreeLists ==
    ASSUME SInv, NEW c \in CPUS, tofree' = [tofree EXCEPT ![c] = {}],
           UNCHANGED <<owner, sched_cpu, next_uid, refs, list, tstate, spawn>>,
           \A t : InFlight(t)' <=> InFlight(t),
           \/ state' = FreeAll(state, tofree[c])
           \/ \E t \in Threads : /\ state[t] = "READY"
                                 /\ state' = FreeAll([state EXCEPT ![t] = "RUNNING"], tofree[c])
    PROVE  ListsOnce' /\ RefsLinked' /\ LinkedLive'
<1> USE DEF SInv, TypeOK
<1>1. \A t \in Threads : IF t \in tofree[c] THEN state'[t] = "freed"
                         ELSE state'[t] = state[t] \/ (state[t] = "READY" /\ state'[t] = "RUNNING")
  BY Zenon DEF FreeAll, ThreadTypes
<1>2. \A t \in Threads : state'[t] = "none" <=> state[t] = "none"
  BY Zenon, <1>1 DEF LinkedLive
<1>3. \A t \in Threads : Linked(t) => state'[t] # "freed"
  BY Zenon, <1>1 DEF LinkedLive
<1>4. \A d \in CPUS : \A t \in tofree'[d] : t \in tofree[d] /\ state'[t] \in {"DEAD", "freed"}
  BY Zenon, <1>1 DEF LinkedLive, LoopTypes
<1> QED BY Zenon, <1>2, <1>3, <1>4, StateLists

(* The task of a thread in a system call is not dead: the thread is        *)
(* linked, and the references of a dead task are empty.  So                *)
(* task_thread_spawn and task_exit work on a task that exists.             *)
LEMMA CurrentTaskLive ==
    ASSUME SInv, NEW c \in CPUS, pc[c] = "kernel"
    PROVE  /\ current[c] \in Threads /\ In(current[c], list[c])
           /\ CurrentTask(c) \in Tasks /\ tstate[CurrentTask(c)] # "DEAD"
<1> USE DEF SInv, TypeOK
<1>1. current[c] \in Threads /\ In(current[c], list[c])
  BY DEF CurrentRuns, CurrentAt, InThread, CpuTypes
<1>2. CurrentTask(c) \in Tasks
  BY Zenon, <1>1 DEF CurrentTask, ThreadTypes
<1>3. Linked(current[c])
  BY Zenon, <1>1 DEF Linked, Queued
<1>4. In(current[c], refs[CurrentTask(c)])
  BY Zenon, <1>1, <1>2, <1>3 DEF CurrentTask, RefsLinked
<1>5. refs[CurrentTask(c)] # <<>>
  BY <1>4 DEF In
<1> QED BY Zenon, <1>1, <1>2, <1>5 DEF RefsLinked

(* thread_create links the new thread to its task before it is in a        *)
(* runqueue: it is in flight then.                                         *)
LEMMA SpawnChooseLists ==
    ASSUME SInv, NEW c \in CPUS, pc[c] \notin SpawnLabels, NEW k \in Tasks, tstate[k] # "DEAD",
           NEW b \in BOOLEAN, SpawnChoose(c, k, b)
    PROVE  ListsOnce' /\ RefsLinked' /\ LinkedLive'
<1> USE DEF SInv, TypeOK
<1> DEFINE n == next_uid
<1>1. n \in Threads /\ n' = n + 1 /\ UNCHANGED <<list, tstate, tofree>>
  BY SMTT(30), Constants DEF SpawnChoose, CpuTypes, ThreadTypes, queue_vars
<1>2. PICK i \in CPUS : /\ spawn' = [spawn EXCEPT ![c] = [th |-> n, rq |-> i, boot |-> b]]
                        /\ sched_cpu' = [sched_cpu EXCEPT ![n] = i]
  BY Zenon DEF SpawnChoose
<1>3. /\ pc' = [pc EXCEPT ![c] = "sp_try"]
      /\ state' = [state EXCEPT ![n] = "NEW"]
      /\ owner' = [owner EXCEPT ![n] = k]
      /\ refs' = [refs EXCEPT ![k] = <<n>> \o refs[k]]
  BY Zenon DEF SpawnChoose, Goto
<1>4. state[n] = "none" /\ ~Linked(n)
  BY <1>1, Constants DEF LinkedLive
<1> HIDE DEF n
<1>5. \A t \in Threads : InFlight(t)' <=> InFlight(t) \/ t = n
  BY ZenonT(30), <1>1, <1>2, <1>3 DEF InFlight, CpuTypes, SpawnTypes, SpawnLabels, InsertLabels, SpawnsApart
<1>6. \A t : Queued(t)' <=> Queued(t)
  BY Zenon, <1>1 DEF Queued
<1>7. \A t \in Threads : Linked(t)' <=> Linked(t) \/ t = n
  BY <1>5, <1>6 DEF Linked
<1>8. ListsOnce'
  <2>1. \A t \in Threads, d \in CPUS : In(t, list'[d]) => sched_cpu'[t] = d
    <3>1. \A d \in CPUS : ~In(n, list[d])
      BY Zenon, <1>4 DEF Linked, Queued
    <3> QED BY ZenonT(30), <1>1, <1>2, <3>1 DEF ListsOnce, ThreadTypes
  <2>2. \A t \in Threads : InFlight(t)' => ~Queued(t)'
    BY Zenon, <1>4, <1>5, <1>6 DEF ListsOnce, Linked
  <2> QED BY Zenon, <1>1, <2>1, <2>2 DEF ListsOnce
<1>9. RefsLinked'
  <2>1. ~In(n, refs[k])
    BY Zenon, <1>1, <1>4 DEF RefsLinked
  <2>2. /\ \A t \in Threads : In(t, refs'[k]) <=> In(t, refs[k]) \/ t = n
        /\ Unique(refs'[k])
        /\ \A j \in Tasks \ {k} : refs'[j] = refs[j]
    BY <1>1, <1>3, <2>1, ConsIn DEF TaskTypes, RefsLinked
  <2>3. \A t \in Threads : owner'[t] = IF t = n THEN k ELSE owner[t]
    BY <1>3 DEF ThreadTypes
  <2>4. \A t \in Threads, j \in Tasks : In(t, refs'[j]) <=> Linked(t)' /\ owner'[t] = j
    BY <1>4, <1>7, <2>2, <2>3 DEF RefsLinked
  <2>5. \A j \in Tasks : Unique(refs'[j])
    BY Zenon, <2>2 DEF RefsLinked
  <2>6. \A j \in Tasks : tstate'[j] = "DEAD" => refs'[j] = <<>>
    BY Zenon, <1>1, <2>2 DEF RefsLinked
  <2> QED BY Zenon, <2>4, <2>5, <2>6 DEF RefsLinked
<1>10. LinkedLive'
  <2>1. \A t \in Threads : state'[t] = IF t = n THEN "NEW" ELSE state[t]
    BY <1>3 DEF ThreadTypes
  <2>2. \A t \in Threads : Linked(t)' => state'[t] \notin {"none", "freed"}
    BY Zenon, <1>7, <2>1 DEF LinkedLive
  <2>3. \A t \in Threads : state'[t] = "none" <=> t >= next_uid'
    BY <1>1, <2>1, Constants DEF LinkedLive, n
  <2>4. \A d \in CPUS : \A t \in tofree'[d] : state'[t] \in {"DEAD", "freed"} /\ ~Linked(t)'
    BY Zenon, <1>1, <1>4, <1>7, <2>1 DEF LinkedLive, LoopTypes
  <2>5. \A d \in CPUS : spawn'[d].th < next_uid'
    <3>1. n \in Nat /\ next_uid' = n + 1
      BY Zenon, <1>1, Constants DEF n
    <3>2. \A d \in CPUS : spawn'[d].th = IF d = c THEN n ELSE spawn[d].th
      BY Zenon, <1>2 DEF SpawnTypes
    <3>3. \A d \in CPUS : spawn[d].th \in Nat /\ spawn[d].th < n
      <4>1. \A d \in CPUS : spawn[d].th \in Threads \cup {NoThread}
        BY DEF SpawnTypes
      <4>2. \A d \in CPUS : spawn[d].th < next_uid
        BY Zenon DEF LinkedLive
      <4>3. Threads \cup {NoThread} \subseteq Nat
        BY Constants
      <4> QED BY ONLY Zenon, <4>1, <4>2, <4>3 DEF n
    <3> QED BY <3>1, <3>2, <3>3
  <2> QED BY Zenon, <2>2, <2>3, <2>4, <2>5 DEF LinkedLive
<1> QED BY <1>8, <1>9, <1>10

(* unqueue_thread takes the thread from its runqueue and from its task     *)
(* alike, and the task is dead only when none is left.                     *)
LEMMA UnqueueRefs ==
    ASSUME SInv, NEW c \in CPUS, NEW t \in Threads, In(t, list[c]), lock[c] = c,
           NEW st \in [Threads -> ThreadStates], Unqueue(c, t, st), st[t] = "DEAD",
           \A x \in Threads \ {t} : st[x] = state[x],
           UNCHANGED <<owner, next_uid, spawn>>, NEW l, l \notin InsertLabels, pc[c] \notin InsertLabels,
           pc' = [pc EXCEPT ![c] = l]
    PROVE  ListsOnce' /\ RefsLinked' /\ LinkedLive'
<1> USE DEF SInv, TypeOK
<1> DEFINE k == owner[t]
<1>1. /\ state' = st
      /\ refs' = [refs EXCEPT ![k] = Without(refs[k], t)]
      /\ tstate' = [tstate EXCEPT ![k] = IF Without(refs[k], t) = <<>> THEN "DEAD" ELSE @]
      /\ tofree' = [tofree EXCEPT ![c] = tofree[c] \cup {t}]
  BY Zenon DEF Unqueue
<1>2. /\ \A d \in CPUS : Unique(list'[d])
      /\ \A x \in Threads, d \in CPUS : In(x, list'[d]) => sched_cpu'[x] = d
      /\ \A x \in Threads : Queued(x)' <=> Queued(x) /\ x # t
  BY SMTT(30), UnqueueCases, UnqueueLists
<1>3. \A x : InFlight(x)' <=> InFlight(x)
  BY Zenon DEF InFlight, CpuTypes, InsertLabels
<1>4. Queued(t) /\ ~InFlight(t) /\ Linked(t)
  BY Zenon DEF Queued, Linked, ListsOnce
<1>5. \A x \in Threads : Linked(x)' <=> Linked(x) /\ x # t
  BY Zenon, <1>2, <1>3, <1>4 DEF Linked
<1>6. ListsOnce'
  BY Zenon, <1>2, <1>3 DEF ListsOnce
<1>7. RefsLinked'
  <2>1. k \in Tasks
    BY Zenon DEF ThreadTypes
  <2> HIDE DEF k
  <2>2. /\ \A x \in Threads : In(x, refs'[k]) <=> In(x, refs[k]) /\ x # t
        /\ Unique(refs'[k])
        /\ \A j \in Tasks \ {k} : refs'[j] = refs[j]
    BY SMTT(30), <1>1, <2>1, WithoutProperties DEF TaskTypes, RefsLinked
  <2>3. \A j \in Tasks : Unique(refs'[j])
    BY Zenon, <2>2 DEF RefsLinked
  <2>4. \A j \in Tasks \ {k} : ~In(t, refs[j])
    BY Zenon DEF RefsLinked, k
  <2>5. \A x \in Threads, j \in Tasks : In(x, refs'[j]) <=> In(x, refs[j]) /\ x # t
    BY Zenon, <2>2, <2>4
  <2>6. \A x \in Threads, j \in Tasks : In(x, refs'[j]) <=> Linked(x)' /\ owner'[x] = j
    BY ZenonT(30), <1>5, <2>5 DEF RefsLinked
  <2>7. In(t, refs[k]) /\ refs[k] # <<>>
    BY SMTT(30), <1>4, <2>1 DEF RefsLinked, k, In
  <2>8. \A j \in Tasks : tstate'[j] = "DEAD" => refs'[j] = <<>>
    BY Zenon, <1>1, <2>1, <2>2, <2>7 DEF RefsLinked, TaskTypes
  <2> QED BY Zenon, <2>3, <2>6, <2>8 DEF RefsLinked
<1>8. LinkedLive'
  <2>1. \A x \in Threads : state'[x] = IF x = t THEN "DEAD" ELSE state[x]
    BY Zenon, <1>1
  <2>2. \A x \in Threads : Linked(x)' => state'[x] \notin {"none", "freed"}
    BY Zenon, <1>5, <2>1 DEF LinkedLive
  <2>3. \A x \in Threads : state'[x] = "none" <=> x >= next_uid'
    BY Zenon, <1>4, <2>1 DEF LinkedLive
  <2>4. \A d \in CPUS : \A x \in tofree'[d] : state'[x] \in {"DEAD", "freed"} /\ ~Linked(x)'
    BY ZenonT(30), <1>1, <1>5, <2>1 DEF LinkedLive, LoopTypes
  <2> QED BY Zenon, <2>2, <2>3, <2>4 DEF LinkedLive
<1> QED BY Zenon, <1>6, <1>7, <1>8

(* Every step keeps runqueues, references and states together. *)
LEMMA ListsInv ==
    ASSUME SInv, NEW c \in CPUS, Step(c)
    PROVE  ListsOnce' /\ RefsLinked' /\ LinkedLive'
<1> USE DEF SInv, TypeOK
<1>1. CASE SpawnTry(c)
  <2>1. \A t : InFlight(t)' <=> InFlight(t)
    BY Zenon, <1>1 DEF SpawnTry, InFlight, CpuTypes, SpawnTypes, Goto, local_vars
  <2>2. \A d \in CPUS : spawn'[d].th \in {spawn[d].th, NoThread}
    BY Zenon, <1>1 DEF SpawnTry, SpawnTypes, local_vars
  <2>3. UNCHANGED <<thread_vars, refs, tstate, list, tofree>>
    BY Zenon, <1>1 DEF SpawnTry, thread_vars, task_vars, queue_vars, local_vars
  <2> QED BY Zenon, <2>1, <2>2, <2>3, QuietLists
<1>2. CASE SpawnMove(c)
  <2>1. \A t : InFlight(t)' <=> InFlight(t)
    BY ZenonT(30), <1>2 DEF SpawnMove, InFlight, CpuTypes, SpawnTypes, Goto, local_vars
  <2>2. \A d \in CPUS : spawn'[d].th \in {spawn[d].th, NoThread}
    BY Zenon, <1>2 DEF SpawnMove, SpawnTypes, local_vars
  <2>3. UNCHANGED <<thread_vars, refs, tstate, list, tofree>>
    BY Zenon, <1>2 DEF SpawnMove, thread_vars, task_vars, queue_vars, local_vars
  <2> QED BY Zenon, <2>1, <2>2, <2>3, QuietLists
<1>3. CASE SpawnAcquire(c)
  <2>1. \A t : InFlight(t)' <=> InFlight(t)
    BY Zenon, <1>3 DEF SpawnAcquire, InFlight, CpuTypes, SpawnTypes, Goto, local_vars
  <2>2. \A d \in CPUS : spawn'[d].th \in {spawn[d].th, NoThread}
    BY Zenon, <1>3 DEF SpawnAcquire, SpawnTypes, local_vars
  <2>3. UNCHANGED <<thread_vars, refs, tstate, list, tofree>>
    BY Zenon, <1>3 DEF SpawnAcquire, thread_vars, task_vars, queue_vars, local_vars
  <2> QED BY Zenon, <2>1, <2>2, <2>3, QuietLists
<1>4. CASE SpawnInsert(c)
  <2> DEFINE th == spawn[c].th
             i == spawn[c].rq
  <2>1. /\ th \in Threads /\ i \in CPUS /\ pc[c] = "sp_insert"
        /\ list' = [list EXCEPT ![i] = Append(list[i], th)]
        /\ sched_cpu' = [sched_cpu EXCEPT ![th] = i]
        /\ pc' = [pc EXCEPT ![c] = "sp_count"]
        /\ UNCHANGED <<state, owner, next_uid, refs, tstate, tofree, spawn>>
    BY Zenon, <1>4 DEF SpawnInsert, SpawnsApart, SpawnLabels, InsertLabels, Goto, task_vars, local_vars
  <2>2. InFlight(th) /\ \A d \in CPUS : ~In(th, list[d])
    BY Zenon, <2>1 DEF InFlight, ListsOnce, Queued
  <2>3. \A t \in Threads : InFlight(t)' <=> InFlight(t) /\ t # th
    BY SMTT(30), <2>1, Constants DEF InFlight, SpawnsApart, CpuTypes, SpawnTypes
  <2> HIDE DEF th, i
  <2>4. /\ Unique(list'[i]) /\ \A d \in CPUS \ {i} : list'[d] = list[d]
        /\ \A t \in Threads : In(t, list'[i]) <=> In(t, list[i]) \/ t = th
    BY <2>1, <2>2, AppendIn DEF QueueTypes, ListsOnce
  <2>5. \A t \in Threads : Queued(t)' <=> Queued(t) \/ t = th
    BY <2>1, <2>4 DEF Queued
  <2>6. \A t \in Threads : Linked(t)' <=> Linked(t)
    BY <2>2, <2>3, <2>5 DEF Linked
  <2>7. ListsOnce'
    <3>1. \A d \in CPUS : Unique(list'[d])
      BY Zenon, <2>4 DEF ListsOnce
    <3>2. \A t \in Threads, d \in CPUS : In(t, list'[d]) => sched_cpu'[t] = d
      BY ZenonT(30), <2>1, <2>2, <2>4 DEF ListsOnce, ThreadTypes
    <3>3. \A t \in Threads : InFlight(t)' => ~Queued(t)'
      BY Zenon, <2>3, <2>5 DEF ListsOnce
    <3> QED BY Zenon, <3>1, <3>2, <3>3 DEF ListsOnce
  <2>8. RefsLinked'
    BY Zenon, <2>1, <2>6 DEF RefsLinked
  <2>9. LinkedLive'
    BY Zenon, <2>1, <2>6 DEF LinkedLive, LoopTypes
  <2> QED BY <2>7, <2>8, <2>9
<1>5. CASE SpawnCount(c)
  <2>1. \A t : InFlight(t)' <=> InFlight(t)
    BY Zenon, <1>5 DEF SpawnCount, InFlight, CpuTypes, SpawnTypes, Goto, local_vars
  <2>2. \A d \in CPUS : spawn'[d].th \in {spawn[d].th, NoThread}
    BY Zenon, <1>5 DEF SpawnCount, SpawnTypes, local_vars
  <2>3. UNCHANGED <<thread_vars, refs, tstate, list, tofree>>
    BY <1>5 DEF SpawnCount, thread_vars, task_vars, queue_vars, local_vars
  <2> QED BY <2>1, <2>2, <2>3, QuietLists
<1>6. CASE SpawnReady(c)
  <2>1. \A t : InFlight(t)' <=> InFlight(t)
    BY <1>6 DEF SpawnReady, NoSpawn, InFlight, CpuTypes, SpawnTypes, Goto
  <2>2. \A d \in CPUS : spawn'[d].th \in {spawn[d].th, NoThread}
    <3>1. spawn' = [spawn EXCEPT ![c] = NoSpawn]
      BY Zenon, <1>6 DEF SpawnReady
    <3> QED BY Zenon, <3>1, NoSpawnFields DEF SpawnTypes
  <2>3. \A t \in Threads : state'[t] = state[t] \/ (state[t] = "NEW" /\ state'[t] = "READY")
    BY <1>6 DEF SpawnReady, ThreadTypes
  <2>4. UNCHANGED <<owner, sched_cpu, next_uid, refs, list, tstate, tofree>>
    BY <1>6 DEF SpawnReady, task_vars, queue_vars
  <2>5. \A d \in CPUS : \A t \in tofree'[d] : t \in tofree[d] /\ state'[t] \in {"DEAD", "freed"}
    BY Zenon, <2>3, <2>4 DEF LinkedLive, LoopTypes
  <2>6. \A t \in Threads : Linked(t) => state'[t] # "freed"
    BY Zenon, <2>3 DEF LinkedLive
  <2> QED BY Zenon, <2>1, <2>2, <2>3, <2>4, <2>5, <2>6, StateLists
<1>7. CASE BootNext(c)
  <2>1. CASE next_uid <= Len(load.tasks)
    <3>1. load.tasks[next_uid] \in Tasks /\ tstate[load.tasks[next_uid]] # "DEAD"
      BY SMTT(30), <1>7, <2>1, Constants DEF BootNext, CpuTypes, ThreadTypes, BootFirst
    <3> QED BY Zenon, <1>7, <2>1, <3>1, SpawnChooseLists DEF BootNext, SpawnLabels, InsertLabels
  <2>2. CASE ~(next_uid <= Len(load.tasks))
    <3>1. UNCHANGED <<thread_vars, refs, tstate, list, tofree, spawn>>
      BY Zenon, <1>7, <2>2 DEF BootNext, thread_vars, task_vars, queue_vars, local_vars
    <3>2. \A t : InFlight(t)' <=> InFlight(t)
      BY Zenon, <1>7, <2>2, <3>1 DEF BootNext, InFlight, CpuTypes, Goto
    <3> QED BY <3>1, <3>2, QuietLists
  <2> QED BY <2>1, <2>2
<1>8. CASE EnterMark(c)
  <2>1. \A t : InFlight(t)' <=> InFlight(t)
    BY Zenon, <1>8 DEF EnterMark, InFlight, CpuTypes, SpawnTypes, Goto, local_vars
  <2>2. \A d \in CPUS : spawn'[d].th \in {spawn[d].th, NoThread}
    BY <1>8 DEF EnterMark, SpawnTypes, local_vars
  <2>3. UNCHANGED <<thread_vars, refs, tstate, list, tofree>>
    BY <1>8 DEF EnterMark, thread_vars, task_vars, queue_vars, local_vars
  <2> QED BY <2>1, <2>2, <2>3, QuietLists
<1>9. CASE WaitAcquire(c)
  <2>1. \A t : InFlight(t)' <=> InFlight(t)
    BY Zenon, <1>9 DEF WaitAcquire, InFlight, CpuTypes, SpawnTypes, Goto, local_vars
  <2>2. \A d \in CPUS : spawn'[d].th \in {spawn[d].th, NoThread}
    BY Zenon, <1>9 DEF WaitAcquire, SpawnTypes, local_vars
  <2>3. UNCHANGED <<thread_vars, refs, tstate, list, tofree>>
    BY Zenon, <1>9 DEF WaitAcquire, thread_vars, task_vars, queue_vars, local_vars
  <2> QED BY <2>1, <2>2, <2>3, QuietLists
<1>10. CASE WaitCheck(c)
  <2>1. \A t : InFlight(t)' <=> InFlight(t)
    BY ZenonT(30), <1>10 DEF WaitCheck, InFlight, CpuTypes, SpawnTypes, Goto, local_vars
  <2>2. \A d \in CPUS : spawn'[d].th \in {spawn[d].th, NoThread}
    BY Zenon, <1>10 DEF WaitCheck, SpawnTypes, local_vars
  <2>3. UNCHANGED <<thread_vars, refs, tstate, list, tofree>>
    BY Zenon, <1>10 DEF WaitCheck, thread_vars, task_vars, queue_vars, local_vars
  <2> QED BY <2>1, <2>2, <2>3, QuietLists
<1>11. CASE PickReady(c)
  <2>1. /\ state' = FreeAll([state EXCEPT ![sel[c]] = "RUNNING"], tofree[c])
        /\ tofree' = [tofree EXCEPT ![c] = {}]
        /\ state[sel[c]] = "READY"
        /\ UNCHANGED <<owner, sched_cpu, next_uid, refs, list, tstate, spawn>>
    BY Zenon, <1>11 DEF PickReady, RunThread, task_vars, queue_vars
  <2>2. \A t : InFlight(t)' <=> InFlight(t)
    BY Zenon, <1>11 DEF PickReady, RunThread, InFlight, CpuTypes, Goto
  <2>3. sel[c] \in Threads
    BY Zenon, <1>11, ReapedIsListed DEF PickReady
  <2> QED BY Zenon, <2>1, <2>2, <2>3, FreeLists
<1>12. CASE PickDead(c)
  <2>1. state \in [Threads -> ThreadStates]
    BY DEF ThreadTypes
  <2> QED BY Zenon, <1>12, <2>1, UnqueueRefs, ReapedIsListed DEF PickDead, Goto, InsertLabels
<1>13. CASE PickUncount(c)
  <2>1. \A t : InFlight(t)' <=> InFlight(t)
    BY ZenonT(30), <1>13 DEF PickUncount, PickNone, InFlight, CpuTypes, Goto
  <2>2. UNCHANGED <<owner, sched_cpu, next_uid, refs, list, tstate, spawn>>
    BY Zenon, <1>13 DEF PickUncount, task_vars, queue_vars
  <2>3. \/ UNCHANGED <<state, tofree>>
        \/ state' = FreeAll(state, tofree[c]) /\ tofree' = [tofree EXCEPT ![c] = {}]
    BY Zenon, <1>13 DEF PickUncount, PickNone
  <2>4. CASE UNCHANGED <<state, tofree>>
    BY Zenon, <2>1, <2>2, <2>4, QuietLists DEF thread_vars
  <2>5. CASE state' = FreeAll(state, tofree[c]) /\ tofree' = [tofree EXCEPT ![c] = {}]
    BY Zenon, <2>1, <2>2, <2>5, FreeLists
  <2> QED BY Zenon, <2>3, <2>4, <2>5
<1>14. CASE PickSkip(c)
  <2>1. \A t : InFlight(t)' <=> InFlight(t)
    BY Zenon, <1>14 DEF PickSkip, PickNone, InFlight, CpuTypes, Goto
  <2>2. UNCHANGED <<owner, sched_cpu, next_uid, refs, list, tstate, spawn>>
    BY Zenon, <1>14 DEF PickSkip, task_vars, queue_vars
  <2>3. \/ UNCHANGED <<state, tofree>>
        \/ state' = FreeAll(state, tofree[c]) /\ tofree' = [tofree EXCEPT ![c] = {}]
    BY Zenon, <1>14 DEF PickSkip, PickNone
  <2>4. CASE UNCHANGED <<state, tofree>>
    BY <2>1, <2>2, <2>4, QuietLists DEF thread_vars
  <2>5. CASE state' = FreeAll(state, tofree[c]) /\ tofree' = [tofree EXCEPT ![c] = {}]
    BY Zenon, <2>1, <2>2, <2>5, FreeLists
  <2> QED BY <2>3, <2>4, <2>5
<1>15. CASE LoadResume(c)
  <2>1. \A t : InFlight(t)' <=> InFlight(t)
    BY Zenon, <1>15 DEF LoadResume, InFlight, CpuTypes, SpawnTypes, Goto, local_vars
  <2>2. \A d \in CPUS : spawn'[d].th \in {spawn[d].th, NoThread}
    BY Zenon, <1>15 DEF LoadResume, SpawnTypes, local_vars
  <2>3. UNCHANGED <<thread_vars, refs, tstate, list, tofree>>
    BY Zenon, <1>15 DEF LoadResume, thread_vars, task_vars, queue_vars, local_vars
  <2> QED BY <2>1, <2>2, <2>3, QuietLists
<1>16. CASE LoadPreempt(c)
  <2>1. \A t : InFlight(t)' <=> InFlight(t)
    BY Zenon, <1>16 DEF LoadPreempt, InFlight, CpuTypes, Goto
  <2>2. current[c] \in Threads /\ state[current[c]] = "RUNNING"
    BY Zenon, <1>16, ReapedIsListed DEF LoadPreempt, CurrentRuns, CurrentAt, InThread
  <2>3. \A t \in Threads : state'[t] = state[t] \/ (state[t] = "RUNNING" /\ state'[t] = "READY")
    BY Zenon, <1>16, <2>2 DEF LoadPreempt, ThreadTypes
  <2>4. UNCHANGED <<owner, sched_cpu, next_uid, refs, list, tstate, tofree, spawn>>
    BY Zenon, <1>16 DEF LoadPreempt, task_vars, queue_vars
  <2>5. \A d \in CPUS : \A t \in tofree'[d] : t \in tofree[d] /\ state'[t] \in {"DEAD", "freed"}
    BY Zenon, <2>3, <2>4 DEF LinkedLive, LoopTypes
  <2>6. \A t \in Threads : Linked(t) => state'[t] # "freed"
    BY Zenon, <2>3 DEF LinkedLive
  <2> QED BY Zenon, <2>1, <2>3, <2>4, <2>5, <2>6, StateLists
<1>17. CASE LoadDead(c)
  <2>1. state \in [Threads -> ThreadStates]
    BY DEF ThreadTypes
  <2> QED BY Zenon, <1>17, <2>1, UnqueueRefs, ReapedIsListed DEF LoadDead, Goto, InsertLabels, Reap
<1>18. CASE LoopReapDying(c)
  <2> DEFINE st == [state EXCEPT ![sel[c]] = "DEAD"]
  <2>1. st \in [Threads -> ThreadStates]
    BY Zenon DEF ThreadTypes, ThreadStates
  <2>2. sel[c] \in Threads
    BY Zenon, <1>18, ReapedIsListed DEF LoopReapDying
  <2>3. st[sel[c]] = "DEAD" /\ \A x \in Threads \ {sel[c]} : st[x] = state[x]
    BY Zenon, <2>2 DEF ThreadTypes
  <2>4. /\ In(sel[c], list[c]) /\ lock[c] = c /\ pc[c] \notin InsertLabels
        /\ Unqueue(c, sel[c], st) /\ UNCHANGED <<owner, next_uid, spawn>>
        /\ pc' = [pc EXCEPT ![c] = "uncount"]
    BY Zenon, <1>18, ReapedIsListed DEF LoopReapDying, Reap, Goto, InsertLabels
  <2> HIDE DEF st
  <2>5. "uncount" \notin InsertLabels
    BY DEF InsertLabels
  <2> QED BY Zenon, <2>1, <2>2, <2>3, <2>4, <2>5, UnqueueRefs
<1>19. CASE LoopReapDead(c)
  <2>1. state \in [Threads -> ThreadStates]
    BY DEF ThreadTypes
  <2> QED BY Zenon, <1>19, <2>1, UnqueueRefs, ReapedIsListed DEF LoopReapDead, Goto, InsertLabels, Reap
<1>20. CASE LoopSkip(c)
  <2>1. \A t : InFlight(t)' <=> InFlight(t)
    BY Zenon, <1>20 DEF LoopSkip, InFlight, CpuTypes, SpawnTypes, Goto, local_vars
  <2>2. \A d \in CPUS : spawn'[d].th \in {spawn[d].th, NoThread}
    BY Zenon, <1>20 DEF LoopSkip, SpawnTypes, local_vars
  <2>3. UNCHANGED <<thread_vars, refs, tstate, list, tofree>>
    BY Zenon, <1>20 DEF LoopSkip, thread_vars, task_vars, queue_vars, local_vars
  <2> QED BY <2>1, <2>2, <2>3, QuietLists
<1>21. CASE LoopSwitch(c)
  <2>1. /\ state' = FreeAll([state EXCEPT ![sel[c]] = "RUNNING"], tofree[c])
        /\ tofree' = [tofree EXCEPT ![c] = {}]
        /\ state[sel[c]] = "READY"
        /\ UNCHANGED <<owner, sched_cpu, next_uid, refs, list, tstate, spawn>>
    BY Zenon, <1>21 DEF LoopSwitch, RunThread, task_vars, queue_vars
  <2>2. \A t : InFlight(t)' <=> InFlight(t)
    BY Zenon, <1>21 DEF LoopSwitch, RunThread, InFlight, CpuTypes, Goto
  <2>3. sel[c] \in Threads
    BY Zenon, <1>21, ReapedIsListed DEF LoopSwitch
  <2> QED BY Zenon, <2>1, <2>2, <2>3, FreeLists
<1>22. CASE Uncount(c)
  <2>1. \A t : InFlight(t)' <=> InFlight(t)
    BY ZenonT(30), <1>22 DEF Uncount, PickNone, InFlight, CpuTypes, Goto
  <2>2. UNCHANGED <<owner, sched_cpu, next_uid, refs, list, tstate, spawn>>
    BY Zenon, <1>22 DEF Uncount, task_vars, queue_vars
  <2>3. \/ UNCHANGED <<state, tofree>>
        \/ state' = FreeAll(state, tofree[c]) /\ tofree' = [tofree EXCEPT ![c] = {}]
    BY Zenon, <1>22 DEF Uncount, PickNone
  <2>4. CASE UNCHANGED <<state, tofree>>
    BY <2>1, <2>2, <2>4, QuietLists DEF thread_vars
  <2>5. CASE state' = FreeAll(state, tofree[c]) /\ tofree' = [tofree EXCEPT ![c] = {}]
    BY Zenon, <2>1, <2>2, <2>5, FreeLists
  <2> QED BY <2>3, <2>4, <2>5
<1>23. CASE Other(c)
  <2>1. \A t : InFlight(t)' <=> InFlight(t)
    BY Zenon, <1>23 DEF Other, InFlight, CpuTypes, SpawnTypes, Goto, local_vars
  <2>2. \A d \in CPUS : spawn'[d].th \in {spawn[d].th, NoThread}
    BY Zenon, <1>23 DEF Other, SpawnTypes, local_vars
  <2>3. UNCHANGED <<thread_vars, refs, tstate, list, tofree>>
    BY Zenon, <1>23 DEF Other, thread_vars, task_vars, queue_vars, local_vars
  <2> QED BY <2>1, <2>2, <2>3, QuietLists
<1>24. CASE Yield(c)
  <2>1. \A t : InFlight(t)' <=> InFlight(t)
    BY Zenon, <1>24 DEF Yield, InFlight, CpuTypes, SpawnTypes, Goto, local_vars
  <2>2. \A d \in CPUS : spawn'[d].th \in {spawn[d].th, NoThread}
    BY Zenon, <1>24 DEF Yield, SpawnTypes, local_vars
  <2>3. UNCHANGED <<thread_vars, refs, tstate, list, tofree>>
    BY Zenon, <1>24 DEF Yield, thread_vars, task_vars, queue_vars, local_vars
  <2> QED BY <2>1, <2>2, <2>3, QuietLists
<1>25. CASE Exit(c)
  <2>1. \A t : InFlight(t)' <=> InFlight(t)
    BY Zenon, <1>25 DEF Exit, InFlight, CpuTypes, Goto, local_vars
  <2>2. UNCHANGED <<state, owner, sched_cpu, next_uid, refs, list, tofree, spawn>>
    BY Zenon, <1>25 DEF Exit, thread_vars, queue_vars, local_vars
  <2>3. \A k \in Tasks : tstate'[k] = "DEAD" => tstate[k] = "DEAD"
    BY Zenon, <1>25 DEF Exit, TaskTypes
  <2>4. \A d \in CPUS : \A t \in tofree'[d] : t \in tofree[d] /\ state'[t] \in {"DEAD", "freed"}
    BY Zenon, <2>2 DEF LinkedLive
  <2>5. \A t \in Threads : Linked(t) => state'[t] # "freed"
    BY Zenon, <2>2 DEF LinkedLive
  <2> QED BY Zenon, <2>1, <2>2, <2>3, <2>4, <2>5, StateLists
<1>26. CASE Fault(c)
  <2>1. \A t : InFlight(t)' <=> InFlight(t)
    BY Zenon, <1>26 DEF Fault, InFlight, CpuTypes, Goto, local_vars
  <2>2. UNCHANGED <<state, owner, sched_cpu, next_uid, refs, list, tofree, spawn>>
    BY Zenon, <1>26 DEF Fault, thread_vars, queue_vars, local_vars
  <2>3. \A k \in Tasks : tstate'[k] = "DEAD" => tstate[k] = "DEAD"
    BY Zenon, <1>26 DEF Fault, TaskTypes
  <2>4. \A d \in CPUS : \A t \in tofree'[d] : t \in tofree[d] /\ state'[t] \in {"DEAD", "freed"}
    BY <2>2 DEF LinkedLive
  <2>5. \A t \in Threads : Linked(t) => state'[t] # "freed"
    BY <2>2 DEF LinkedLive
  <2> QED BY Zenon, <2>1, <2>2, <2>3, <2>4, <2>5, StateLists
<1>27. CASE SyscallSpawn(c)
  <2>1. CurrentTask(c) \in Tasks /\ tstate[CurrentTask(c)] # "DEAD"
    BY Zenon, <1>27, CurrentTaskLive DEF SyscallSpawn
  <2> QED BY Zenon, <1>27, <2>1, SpawnChooseLists DEF SyscallSpawn, SpawnLabels, InsertLabels
<1>28. ASSUME NEW t \in Threads, Kill(c, t) PROVE ListsOnce' /\ RefsLinked' /\ LinkedLive'
  <2>1. \A x : InFlight(x)' <=> InFlight(x)
    BY Zenon, <1>28 DEF Kill, InFlight, CpuTypes, Goto, local_vars
  <2>2. CurrentTask(c) \in Tasks
    BY Zenon, <1>28, CurrentTaskLive DEF Kill
  <2>3. \A x \in Threads : state'[x] = state[x] \/ (Linked(x) /\ state'[x] = "DEAD")
    <3>1. \A x \in Threads : In(x, refs[CurrentTask(c)]) => Linked(x)
      BY Zenon, <2>2 DEF RefsLinked
    <3> QED BY Zenon, <1>28, <3>1 DEF Kill, ThreadTypes
  <2>4. UNCHANGED <<owner, sched_cpu, next_uid, refs, list, tstate, tofree, spawn>>
    BY Zenon, <1>28 DEF Kill, task_vars, queue_vars, local_vars
  <2>5. \A d \in CPUS : \A x \in tofree'[d] : x \in tofree[d] /\ state'[x] \in {"DEAD", "freed"}
    BY Zenon, <2>3, <2>4 DEF LinkedLive, LoopTypes
  <2>6. \A x \in Threads : Linked(x) => state'[x] # "freed"
    BY Zenon, <2>3 DEF LinkedLive
  <2>7. \A x \in Threads : state'[x] = "none" <=> state[x] = "none"
    BY Zenon, <2>3 DEF LinkedLive
  <2> QED BY Zenon, <2>1, <2>4, <2>5, <2>6, <2>7, StateLists
<1>29. CASE Trap(c)
  <2>1. \A t : InFlight(t)' <=> InFlight(t)
    BY Zenon, <1>29 DEF Trap, InFlight, CpuTypes, SpawnTypes, Goto, local_vars
  <2>2. \A d \in CPUS : spawn'[d].th \in {spawn[d].th, NoThread}
    BY Zenon, <1>29 DEF Trap, SpawnTypes, local_vars
  <2>3. UNCHANGED <<thread_vars, refs, tstate, list, tofree>>
    BY Zenon, <1>29 DEF Trap, thread_vars, task_vars, queue_vars, local_vars
  <2> QED BY <2>1, <2>2, <2>3, QuietLists
<1>30. CASE TimerTrap(c)
  <2>1. \A t : InFlight(t)' <=> InFlight(t)
    BY Zenon, <1>30 DEF TimerTrap, InFlight, CpuTypes, SpawnTypes, Goto, local_vars
  <2>2. \A d \in CPUS : spawn'[d].th \in {spawn[d].th, NoThread}
    BY Zenon, <1>30 DEF TimerTrap, SpawnTypes, local_vars
  <2>3. UNCHANGED <<thread_vars, refs, tstate, list, tofree>>
    BY Zenon, <1>30 DEF TimerTrap, thread_vars, task_vars, queue_vars, local_vars
  <2> QED BY <2>1, <2>2, <2>3, QuietLists
<1>31. CASE TimerNested(c)
  <2>1. \A t : InFlight(t)' <=> InFlight(t)
    BY Zenon, <1>31 DEF TimerNested, InFlight, CpuTypes, SpawnTypes, Goto, local_vars
  <2>2. \A d \in CPUS : spawn'[d].th \in {spawn[d].th, NoThread}
    BY Zenon, <1>31 DEF TimerNested, SpawnTypes, local_vars
  <2>3. UNCHANGED <<thread_vars, refs, tstate, list, tofree>>
    BY Zenon, <1>31 DEF TimerNested, thread_vars, task_vars, queue_vars, local_vars
  <2> QED BY <2>1, <2>2, <2>3, QuietLists
<1> QED BY Zenon, <1>1, <1>2, <1>3, <1>4, <1>5, <1>6, <1>7, <1>8, <1>9, <1>10, <1>11, <1>12,
         <1>13, <1>14, <1>15, <1>16, <1>17, <1>18, <1>19, <1>20, <1>21, <1>22, <1>23,
         <1>24, <1>25, <1>26, <1>27, <1>28, <1>29, <1>30, <1>31
  DEF Step, Kernel, Spawning, Waiting, Loading, Handling, SystemCall, TimerInterrupt

(* The node a loop looks at stays linked while another CPU takes a step:   *)
(* this would need the lock of the runqueue.                               *)
LEMMA SelStep ==
    ASSUME SInv, NEW c \in CPUS, SelAt(c)',
           \A d \in CPUS \ {c} : /\ pc'[d] = pc[d] /\ sel'[d] = sel[d]
                                 /\ lock[d] = d => list'[d] = list[d]
    PROVE  SelLinked'
<1>1. ASSUME NEW d \in CPUS \ {c} PROVE SelAt(d)'
  <2>1. CASE pc[d] \in {"pick", "loop", "uncount", "pick_uncount"}
    <3>1. lock[d] = d
      BY Zenon, <2>1 DEF SInv, LocksHeld, LockLabels
    <3>2. SelAt(d)
      BY Zenon DEF SInv, SelLinked
    <3> QED BY Zenon, <3>1, <3>2 DEF SelAt
  <2>2. CASE pc[d] \notin {"pick", "loop", "uncount", "pick_uncount"}
    BY Zenon, <2>2 DEF SelAt
  <2> QED BY Zenon, <2>1, <2>2
<1> QED BY Zenon, <1>1 DEF SelLinked

(* What unqueue_thread on one CPU leaves alone: the rest of its runqueue,  *)
(* runqueues another CPU has locked, and current threads.                  *)
LEMMA UnqueueOthers ==
    ASSUME SInv, NEW c \in CPUS, NEW t \in Threads, In(t, list[c]), lock[c] = c, NEW st, Unqueue(c, t, st)
    PROVE  /\ list' \in [CPUS -> Seq(Threads)]
           /\ \A x \in Threads : In(x, list[c]) /\ x # t => In(x, list'[c])
           /\ \A d \in CPUS \ {c} : lock[d] # NoCpu => list'[d] = list[d]
           /\ \A d \in CPUS \ {c} :
                 current[d] \in Threads /\ In(current[d], list[d]) => In(current[d], list'[d])
BY Zenon, UnqueueCases, UnqueueLists DEF SInv, TypeOK

(* After reaping, the loop goes on with the node that followed the one     *)
(* unlinked, which is still linked.                                        *)
LEMMA ReapSelLinked ==
    ASSUME SInv, NEW c \in CPUS, NEW t \in Threads, In(t, list[c]), lock[c] = c, NEW st,
           Reap(c, t, st)
    PROVE  SelLinked'
<1> USE DEF SInv, TypeOK
<1> DEFINE next == NextNode(list[c], t)
<1>1. In(next, list[c]) /\ next \in Threads
  BY Zenon, NextNodeIn DEF QueueTypes
<1>2. /\ list' \in [CPUS -> Seq(Threads)]
      /\ \A x \in Threads : In(x, list[c]) /\ x # t => In(x, list'[c])
      /\ \A d \in CPUS \ {c} : lock[d] # NoCpu => list'[d] = list[d]
  BY Zenon, UnqueueOthers DEF Reap
<1>3. /\ sel' = [sel EXCEPT ![c] = IF next # t THEN next
                                    ELSE IF list'[c] = <<>> THEN NoThread ELSE Head(list'[c])]
      /\ pc' = [pc EXCEPT ![c] = "uncount"]
  BY Zenon DEF Reap, Goto
<1> HIDE DEF next
<1>4. list'[c] # <<>> => In(Head(list'[c]), list'[c])
  BY Zenon, <1>2, HeadIn
<1>5. SelAt(c)'
  BY Zenon, <1>1, <1>2, <1>3, <1>4 DEF SelAt, LoopTypes, CpuTypes
<1>6. \A d \in CPUS \ {c} : pc'[d] = pc[d] /\ sel'[d] = sel[d]
  BY Zenon, <1>3 DEF LoopTypes, CpuTypes
<1>7. \A d \in CPUS \ {c} : lock[d] = d => list'[d] = list[d]
  BY Zenon, <1>2, Constants
<1> QED BY Zenon, <1>5, <1>6, <1>7, SelStep

(* Every step keeps the node a loop looks at in its runqueue: no CPU ever  *)
(* follows the link of a node that is gone.                                *)
LEMMA SelLinkedInv ==
    ASSUME SInv, NEW c \in CPUS, Step(c)
    PROVE  SelLinked'
<1> USE DEF SInv, TypeOK
<1>1. CASE SpawnTry(c)
  BY ZenonT(30), <1>1, SelStep DEF SpawnTry, SelAt, CpuTypes, LoopTypes, Goto, queue_vars, local_vars
<1>2. CASE SpawnMove(c)
  BY Zenon, <1>2, SelStep DEF SpawnMove, SelAt, CpuTypes, LoopTypes, Goto, queue_vars, local_vars
<1>3. CASE SpawnAcquire(c)
  BY Zenon, <1>3, SelStep DEF SpawnAcquire, SelAt, CpuTypes, LoopTypes, Goto, queue_vars, local_vars
<1>4. CASE SpawnInsert(c)
  <2>1. /\ lock[spawn[c].rq] = c /\ list' = [list EXCEPT ![spawn[c].rq] = Append(@, spawn[c].th)]
        /\ pc' = [pc EXCEPT ![c] = "sp_count"] /\ UNCHANGED sel
    BY Zenon, <1>4 DEF SpawnInsert, LocksHeld, local_vars, Goto
  <2> QED BY Zenon, <2>1, SelStep DEF SelAt, CpuTypes, QueueTypes
<1>5. CASE SpawnCount(c)
  BY SMTT(30), <1>5, SelStep DEF SpawnCount, SelAt, CpuTypes, LoopTypes, Goto, queue_vars, local_vars
<1>6. CASE SpawnReady(c)
  BY Zenon, <1>6, SelStep DEF SpawnReady, SelAt, CpuTypes, LoopTypes, Goto, queue_vars, local_vars
<1>7. CASE BootNext(c)
  <2>1. /\ pc' \in {[pc EXCEPT ![c] = "sp_try"], [pc EXCEPT ![c] = "start"]}
        /\ UNCHANGED <<list, sel>>
    BY Zenon, <1>7 DEF BootNext, SpawnChoose, Goto, queue_vars, local_vars
  <2> QED BY SMTT(30), <2>1, SelStep DEF SelAt, CpuTypes
<1>8. CASE EnterMark(c)
  BY Zenon, <1>8, SelStep DEF EnterMark, SelAt, CpuTypes, LoopTypes, Goto, queue_vars, local_vars
<1>9. CASE WaitAcquire(c)
  BY Zenon, <1>9, SelStep DEF WaitAcquire, SelAt, CpuTypes, LoopTypes, Goto, queue_vars, local_vars
<1>10. CASE WaitCheck(c)
  <2>1. list[c] # <<>> => In(Head(list[c]), list[c])
    BY HeadIn DEF QueueTypes
  <2> QED BY ZenonT(30), <1>10, <2>1, SelStep DEF WaitCheck, SelAt, CpuTypes, LoopTypes, Goto, queue_vars
<1>11. CASE PickReady(c)
  BY Zenon, <1>11, SelStep DEF PickReady, RunThread, SelAt, CpuTypes, LoopTypes, Goto, queue_vars, local_vars
<1>12. CASE PickDead(c)
  <2> DEFINE t == sel[c]
             next == NextNode(list[c], t)
  <2>1. /\ t \in Threads /\ In(t, list[c]) /\ lock[c] = c /\ Unqueue(c, t, state)
        /\ sel' = [sel EXCEPT ![c] = IF next = t THEN NoThread ELSE next]
        /\ pc' = [pc EXCEPT ![c] = "pick_uncount"]
    BY SMTT(30), <1>12, ReapedIsListed DEF PickDead, Goto
  <2>2. In(next, list[c]) /\ next \in Threads
    BY SMTT(30), <2>1, NextNodeIn DEF QueueTypes
  <2>3. /\ \A x \in Threads : In(x, list[c]) /\ x # t => In(x, list'[c])
        /\ \A d \in CPUS \ {c} : lock[d] # NoCpu => list'[d] = list[d]
    BY SMTT(30), <2>1, UnqueueOthers
  <2> HIDE DEF t, next
  <2>4. SelAt(c)'
    BY SMTT(30), <2>1, <2>2, <2>3 DEF SelAt, LoopTypes, CpuTypes
  <2>5. \A d \in CPUS \ {c} : pc'[d] = pc[d] /\ sel'[d] = sel[d]
    BY <2>1 DEF LoopTypes, CpuTypes
  <2>6. \A d \in CPUS \ {c} : lock[d] = d => list'[d] = list[d]
    BY SMTT(30), <2>3, Constants
  <2> QED BY <2>4, <2>5, <2>6, SelStep
<1>13. CASE PickUncount(c)
  <2>1. SelAt(c) /\ list' = list
    BY Zenon, <1>13 DEF SelLinked, PickUncount, queue_vars
  <2> QED BY Zenon, <1>13, <2>1, SelStep DEF PickUncount, PickNone, SelAt, CpuTypes, LoopTypes, Goto
<1>14. CASE PickSkip(c)
  <2>1. In(NextNode(list[c], sel[c]), list[c])
    BY Zenon, <1>14, NextNodeIn, ReapedIsListed DEF PickSkip, QueueTypes
  <2> QED BY ZenonT(30), <1>14, <2>1, SelStep DEF PickSkip, SelAt, CpuTypes, LoopTypes, Goto, queue_vars, PickNone
<1>15. CASE LoadResume(c)
  BY Zenon, <1>15, SelStep DEF LoadResume, SelAt, CpuTypes, LoopTypes, Goto, queue_vars, local_vars
<1>16. CASE LoadPreempt(c)
  <2>1. In(NextNode(list[c], current[c]), list[c])
    BY Zenon, <1>16, NextNodeIn, ReapedIsListed DEF LoadPreempt, QueueTypes
  <2> QED BY Zenon, <1>16, <2>1, SelStep DEF LoadPreempt, SelAt, CpuTypes, LoopTypes, Goto, queue_vars
<1>17. CASE LoadDead(c)
  BY Zenon, <1>17, ReapedIsListed, ReapSelLinked DEF LoadDead
<1>18. CASE LoopReapDying(c)
  BY Zenon, <1>18, ReapedIsListed, ReapSelLinked DEF LoopReapDying
<1>19. CASE LoopReapDead(c)
  BY SMTT(30), <1>19, ReapedIsListed, ReapSelLinked DEF LoopReapDead
<1>20. CASE LoopSkip(c)
  <2>1. In(NextNode(list[c], sel[c]), list[c])
    BY Zenon, <1>20, NextNodeIn, ReapedIsListed DEF LoopSkip, QueueTypes
  <2> QED BY Zenon, <1>20, <2>1, SelStep DEF LoopSkip, SelAt, CpuTypes, LoopTypes, Goto, queue_vars
<1>21. CASE LoopSwitch(c)
  BY Zenon, <1>21, SelStep DEF LoopSwitch, RunThread, SelAt, CpuTypes, LoopTypes, Goto, queue_vars, local_vars
<1>22. CASE Uncount(c)
  <2>1. SelAt(c) /\ UNCHANGED <<list, sel>>
    BY Zenon, <1>22 DEF SelLinked, Uncount, queue_vars
  <2> QED BY Zenon, <1>22, <2>1, SelStep DEF Uncount, SelAt, CpuTypes, Goto
<1>23. CASE Other(c)
  BY Zenon, <1>23, SelStep DEF Other, SelAt, CpuTypes, LoopTypes, Goto, queue_vars, local_vars
<1>24. CASE Yield(c)
  BY Zenon, <1>24, SelStep DEF Yield, SelAt, CpuTypes, LoopTypes, Goto, queue_vars, local_vars
<1>25. CASE Exit(c)
  BY Zenon, <1>25, SelStep DEF Exit, SelAt, CpuTypes, LoopTypes, Goto, queue_vars, local_vars
<1>26. CASE Fault(c)
  BY Zenon, <1>26, SelStep DEF Fault, SelAt, CpuTypes, LoopTypes, Goto, queue_vars, local_vars
<1>27. CASE SyscallSpawn(c)
  <2>1. pc' = [pc EXCEPT ![c] = "sp_try"] /\ UNCHANGED <<list, sel>>
    BY Zenon, <1>27 DEF SyscallSpawn, SpawnChoose, Goto, queue_vars, local_vars
  <2> QED BY Zenon, <2>1, SelStep DEF SelAt, CpuTypes
<1>28. ASSUME NEW t \in Threads, Kill(c, t) PROVE SelLinked'
  BY Zenon, <1>28, SelStep DEF Kill, SelAt, CpuTypes, LoopTypes, Goto, queue_vars, local_vars
<1>29. CASE Trap(c)
  BY Zenon, <1>29, SelStep DEF Trap, SelAt, CpuTypes, LoopTypes, Goto, queue_vars, local_vars
<1>30. CASE TimerTrap(c)
  BY Zenon, <1>30, SelStep DEF TimerTrap, SelAt, CpuTypes, LoopTypes, Goto, queue_vars, local_vars
<1>31. CASE TimerNested(c)
  BY Zenon, <1>31, SelStep DEF TimerNested, SelAt, CpuTypes, LoopTypes, Goto, queue_vars, local_vars
<1> QED BY Zenon, <1>1, <1>2, <1>3, <1>4, <1>5, <1>6, <1>7, <1>8, <1>9, <1>10, <1>11, <1>12,
         <1>13, <1>14, <1>15, <1>16, <1>17, <1>18, <1>19, <1>20, <1>21, <1>22, <1>23,
         <1>24, <1>25, <1>26, <1>27, <1>28, <1>29, <1>30, <1>31
  DEF Step, Kernel, Spawning, Waiting, Loading, Handling, SystemCall, TimerInterrupt

(* Only the current thread of the CPU that takes the step needs a look. *)
LEMMA CurrentStep ==
    ASSUME SInv, NEW c \in CPUS, CurrentAt(c)',
           \A d \in CPUS \ {c} :
              /\ pc'[d] = pc[d] /\ spawn'[d].boot = spawn[d].boot /\ current'[d] = current[d]
              /\ current[d] \in Threads =>
                    /\ In(current[d], list[d]) => In(current[d], list'[d])
                    /\ state[current[d]] \in {"RUNNING", "DEAD"} => state'[current[d]] \in {"RUNNING", "DEAD"}
                    /\ state'[current[d]] = "RUNNING" => state[current[d]] = "RUNNING",
           \A t \in Threads : state'[t] = "RUNNING" =>
              current'[c] = t \/ (state[t] = "RUNNING" /\ current[c] # t)
    PROVE  CurrentRuns'
<1> USE DEF SInv, TypeOK
<1>1. ASSUME NEW d \in CPUS \ {c} PROVE CurrentAt(d)'
  <2>1. CurrentAt(d)
    BY Zenon DEF CurrentRuns
  <2>2. InThread(d)' <=> InThread(d)
    BY SMTT(30) DEF InThread
  <2>3. current[d] # NoThread => current[d] \in Threads
    BY SMTT(30) DEF CpuTypes
  <2> QED BY ZenonT(30), <2>1, <2>2, <2>3 DEF CurrentAt
<1>2. \A t \in Threads : state'[t] = "RUNNING" => \E d \in CPUS : current'[d] = t
  BY SMTT(30) DEF CurrentRuns
<1> QED BY SMTT(30), <1>1, <1>2 DEF CurrentRuns

(* A step that changes neither states nor current threads. *)
LEMMA QuietCurrent ==
    ASSUME SInv, NEW c \in CPUS, UNCHANGED <<state, current>>, InThread(c)' = InThread(c),
           InThread(c) \/ pc'[c] \in {"loop", "uncount"} <=> InThread(c) \/ pc[c] \in {"loop", "uncount"},
           \A d \in CPUS : In(current[d], list[d]) => In(current[d], list'[d]),
           \A d \in CPUS \ {c} : pc'[d] = pc[d] /\ spawn'[d].boot = spawn[d].boot
    PROVE  CurrentRuns'
<1>1. CurrentAt(c)
  BY SMTT(30) DEF SInv, CurrentRuns
<1>2. CurrentAt(c)'
  BY Zenon, <1>1 DEF CurrentAt, InThread, SpawnLabels, InsertLabels
<1>3. \A t \in Threads : state[t] = "RUNNING" => current'[c] = t \/ (state[t] = "RUNNING" /\ current[c] # t)
  OBVIOUS
<1> QED BY Zenon, <1>2, <1>3, CurrentStep

(* A thread in the runqueue of one CPU is not current on another. *)
LEMMA CurrentApart ==
    ASSUME SInv, NEW c \in CPUS, NEW t \in Threads, In(t, list[c]), NEW d \in CPUS \ {c}
    PROVE  current[d] # t
BY Constants DEF SInv, CurrentRuns, CurrentAt, ListsOnce

(* schedule() picks a thread of its runqueue, which no other CPU runs. *)
LEMMA RunCurrent ==
    ASSUME SInv, NEW c \in CPUS, sel[c] \in Threads, In(sel[c], list[c]),
           RunThread(c, sel[c]), UNCHANGED <<list, spawn>>,
           current[c] # NoThread => state[current[c]] # "RUNNING"
    PROVE  CurrentRuns'
<1> USE DEF SInv, TypeOK
<1> DEFINE t == sel[c]
<1>1. /\ state' = FreeAll([state EXCEPT ![t] = "RUNNING"], tofree[c])
      /\ current' = [current EXCEPT ![c] = t]
      /\ pc' = [pc EXCEPT ![c] = "user"]
  BY Zenon DEF RunThread, Goto
<1>2. t \in Threads /\ t \notin tofree[c] /\ In(t, list[c])
  BY Zenon DEF LinkedLive, Linked, Queued
<1> HIDE DEF t
<1>3. /\ state'[t] = "RUNNING"
      /\ \A x \in Threads \ {t} : state'[x] = IF x \in tofree[c] THEN "freed" ELSE state[x]
  BY Zenon, <1>1, <1>2 DEF FreeAll, ThreadTypes
<1>4. \A d \in CPUS \ {c} : pc'[d] = pc[d] /\ current'[d] = current[d]
  BY Zenon, <1>1 DEF CpuTypes
<1>5. CurrentAt(c)'
  BY Zenon, <1>1, <1>2, <1>3, Constants DEF CurrentAt, InThread, CpuTypes
<1>6. \A d \in CPUS \ {c} : current[d] \in Threads => current[d] # t /\ state'[current[d]] = state[current[d]]
  <2>1. \A d \in CPUS \ {c} : current[d] \in Threads => current[d] # t
    BY <1>2, CurrentApart
  <2>2. \A d \in CPUS \ {c} : current[d] \in Threads => current[d] \notin tofree[c]
    BY SMTT(30), Constants DEF CurrentRuns, CurrentAt, LinkedLive, Linked, Queued
  <2> QED BY Zenon, <1>3, <2>1, <2>2
<1>7. \A x \in Threads : state'[x] = "RUNNING" => current'[c] = x \/ (state[x] = "RUNNING" /\ current[c] # x)
  BY Zenon, <1>1, <1>3, Constants DEF CpuTypes
<1> QED BY Zenon, <1>4, <1>5, <1>6, <1>7, CurrentStep

(* Reaping a dead thread leaves no CPU with a current thread that is gone. *)
LEMMA ReapCurrent ==
    ASSUME SInv, NEW c \in CPUS, NEW t \in Threads, In(t, list[c]), lock[c] = c,
           NEW st \in [Threads -> ThreadStates], Unqueue(c, t, st), st[t] = "DEAD",
           \A x \in Threads \ {t} : st[x] = state[x],
           UNCHANGED spawn, NEW l \in {"uncount", "pick_uncount"},
           pc' = [pc EXCEPT ![c] = l], l = "pick_uncount" => pc[c] = "pick",
           current[c] \in Threads => current[c] = t \/ state[current[c]] # "RUNNING"
    PROVE  CurrentRuns'
<1> USE DEF SInv, TypeOK
<1>1. current' = [current EXCEPT ![c] = IF @ = t THEN NoThread ELSE @]
  BY Zenon, UnqueueCurrent
<1>2. state' = st
  BY Zenon DEF Unqueue
<1>3. /\ \A x \in Threads : In(x, list[c]) /\ x # t => In(x, list'[c])
      /\ \A d \in CPUS \ {c} :
            current[d] \in Threads /\ In(current[d], list[d]) => In(current[d], list'[d])
  BY Zenon, UnqueueOthers
<1>4. \A d \in CPUS \ {c} : pc'[d] = pc[d] /\ current'[d] = current[d]
  BY Zenon, <1>1 DEF CpuTypes
<1>5. current'[c] # NoThread => current'[c] = current[c] /\ current[c] \in Threads \ {t}
  BY Zenon, <1>1 DEF CpuTypes
<1>6. CurrentAt(c) /\ pc'[c] = l
  BY DEF CurrentRuns, CpuTypes
<1>7. CurrentAt(c)'
  BY Zenon, <1>2, <1>3, <1>5, <1>6 DEF CurrentAt, InThread, SpawnLabels, InsertLabels
<1>8. \A x \in Threads : state'[x] = IF x = t THEN "DEAD" ELSE state[x]
  BY Zenon, <1>2
<1>9. \A d \in CPUS \ {c} : current[d] \in Threads => current[d] # t
  BY ZenonT(30), CurrentApart
<1>10. \A x \in Threads : state'[x] = "RUNNING" => current'[c] = x \/ (state[x] = "RUNNING" /\ current[c] # x)
  BY Zenon, <1>8
<1> QED BY ZenonT(30), <1>3, <1>4, <1>7, <1>8, <1>9, <1>10, CurrentStep

(* thread_create leaves current threads alone. *)
LEMMA SpawnChooseCurrent ==
    ASSUME SInv, NEW c \in CPUS, NEW k, NEW b \in BOOLEAN, SpawnChoose(c, k, b),
           InThread(c) <=> ~b, pc[c] \notin {"loop", "uncount"}
    PROVE  CurrentRuns'
<1> USE DEF SInv, TypeOK
<1>1. /\ UNCHANGED <<list, current>> /\ pc' = [pc EXCEPT ![c] = "sp_try"]
      /\ spawn'[c].boot = b /\ \A d \in CPUS \ {c} : spawn'[d] = spawn[d]
  BY ZenonT(30), SpawnChooseCpu
<1>2. state' = [state EXCEPT ![next_uid] = "NEW"] /\ next_uid \in Threads
  BY SMTT(30), Constants DEF SpawnChoose, CpuTypes, ThreadTypes
<1>3. \A d \in CPUS : current[d] # next_uid
  <2>1. ~Linked(next_uid)
    BY SMTT(30), <1>2, Constants DEF LinkedLive
  <2> QED BY SMTT(30), <1>2, <2>1, Constants DEF CurrentRuns, CurrentAt, Linked, Queued
<1>4. \A d \in CPUS : current[d] \in Threads => state'[current[d]] = state[current[d]]
  BY <1>2, <1>3 DEF ThreadTypes
<1>5. CurrentAt(c) /\ (current[c] # NoThread => current[c] \in Threads)
  BY DEF CurrentRuns, CpuTypes
<1>6. pc'[c] = "sp_try" /\ \A d \in CPUS \ {c} : pc'[d] = pc[d]
  BY SMTT(30), <1>1 DEF CpuTypes
<1>7. CurrentAt(c)'
  BY Zenon, <1>1, <1>4, <1>5, <1>6 DEF CurrentAt, InThread, SpawnLabels, InsertLabels
<1>8. \A x \in Threads : state'[x] = "RUNNING" => current'[c] = x \/ (state[x] = "RUNNING" /\ current[c] # x)
  BY SMTT(30), <1>1, <1>2 DEF ThreadTypes
<1> QED BY Zenon, <1>1, <1>4, <1>6, <1>7, <1>8, CurrentStep

(* Freeing what was reaped frees no current thread. *)
LEMMA FreeCurrent ==
    ASSUME SInv, NEW c \in CPUS, CurrentAt(c)',
           \A d \in CPUS \ {c} : pc'[d] = pc[d] /\ current'[d] = current[d],
           current[c] = NoThread \/ current'[c] = current[c],
           UNCHANGED <<list, spawn>>, state' = FreeAll(state, tofree[c])
    PROVE  CurrentRuns'
<1> USE DEF SInv, TypeOK
<1>1. \A x \in Threads : state'[x] = IF x \in tofree[c] THEN "freed" ELSE state[x]
  BY DEF FreeAll
<1>2. \A d \in CPUS : current[d] \in Threads => current[d] \notin tofree[c]
  BY ZenonT(30), Constants DEF CurrentRuns, CurrentAt, LinkedLive, Linked, Queued
<1>3. \A d \in CPUS : current[d] \in Threads => state'[current[d]] = state[current[d]]
  BY Zenon, <1>1, <1>2
<1>4. \A x \in Threads : state'[x] = "RUNNING" => current'[c] = x \/ (state[x] = "RUNNING" /\ current[c] # x)
  BY Zenon, <1>1, Constants
<1> QED BY Zenon, <1>3, <1>4, CurrentStep

(* Every step keeps the current threads: linked in the runqueue of their   *)
(* CPU, and running on it alone.                                           *)
LEMMA CurrentRunsInv ==
    ASSUME SInv, NEW c \in CPUS, Step(c)
    PROVE  CurrentRuns'
<1> USE DEF SInv, TypeOK
<1>1. CASE SpawnTry(c)
  <2>1. UNCHANGED <<state, current, list, spawn>>
    BY Zenon, <1>1 DEF SpawnTry, thread_vars, queue_vars, local_vars
  <2> QED BY Zenon, <1>1, <2>1, QuietCurrent DEF SpawnTry, InThread, CpuTypes, Goto, InsertLabels, SpawnLabels, LockLabels
<1>2. CASE SpawnMove(c)
  <2>1. UNCHANGED <<state, current, list>> /\ \A d \in CPUS : spawn'[d].boot = spawn[d].boot
    BY Zenon, <1>2 DEF SpawnMove, thread_vars, queue_vars, SpawnTypes
  <2> QED BY ZenonT(30), <1>2, <2>1, QuietCurrent DEF SpawnMove, InThread, CpuTypes, Goto, SpawnLabels, InsertLabels
<1>3. CASE SpawnAcquire(c)
  <2>1. UNCHANGED <<state, current, list, spawn>>
    BY <1>3 DEF SpawnAcquire, thread_vars, queue_vars, local_vars
  <2> QED BY Zenon, <1>3, <2>1, QuietCurrent DEF SpawnAcquire, InThread, CpuTypes, Goto, InsertLabels, SpawnLabels, LockLabels
<1>4. CASE SpawnInsert(c)
  <2>1. UNCHANGED <<state, current, spawn>> /\ pc[c] = "sp_insert" /\ pc' = [pc EXCEPT ![c] = "sp_count"]
    BY Zenon, <1>4 DEF SpawnInsert, local_vars, Goto
  <2>2. spawn[c].rq \in CPUS /\ spawn[c].th \in Threads
    BY SMTT(30), <2>1 DEF SpawnsApart, SpawnLabels, InsertLabels
  <2>3. \A d \in CPUS : \A x : In(x, list[d]) => In(x, list'[d])
    <3>1. list' = [list EXCEPT ![spawn[c].rq] = Append(@, spawn[c].th)]
      BY Zenon, <1>4 DEF SpawnInsert
    <3>2. \A x : In(x, list[spawn[c].rq]) => In(x, Append(list[spawn[c].rq], spawn[c].th))
      <4>1. list[spawn[c].rq] \in Seq(Threads)
        BY Zenon, <2>2 DEF QueueTypes
      <4> QED BY <2>2, <4>1, AppendIn
    <3> QED BY Zenon, <3>1, <3>2 DEF QueueTypes
  <2> QED BY Zenon, <2>1, <2>3, QuietCurrent DEF InThread, CpuTypes, SpawnLabels, InsertLabels
<1>5. CASE SpawnCount(c)
  <2>1. UNCHANGED <<state, current, list, spawn>>
    BY <1>5 DEF SpawnCount, thread_vars, queue_vars, local_vars
  <2> QED BY Zenon, <1>5, <2>1, QuietCurrent DEF SpawnCount, InThread, CpuTypes, Goto, InsertLabels, SpawnLabels, LockLabels
<1>6. CASE SpawnReady(c)
  <2> DEFINE th == spawn[c].th
             boot == spawn[c].boot
  <2>1. /\ state' = [state EXCEPT ![th] = IF @ = "NEW" THEN "READY" ELSE @]
        /\ spawn' = [spawn EXCEPT ![c] = NoSpawn]
        /\ pc[c] = "sp_ready" /\ pc' = [pc EXCEPT ![c] = IF boot THEN "boot" ELSE "load"]
        /\ UNCHANGED <<current, list>>
    BY <1>6 DEF SpawnReady, Goto, queue_vars
  <2>2. \A x \in Threads : state'[x] = state[x] \/ (state[x] = "NEW" /\ state'[x] = "READY")
    BY SMTT(30), <2>1 DEF ThreadTypes
  <2>3. /\ \A d \in CPUS \ {c} : pc'[d] = pc[d] /\ spawn'[d] = spawn[d]
        /\ pc'[c] = IF boot THEN "boot" ELSE "load"
    BY Zenon, <2>1 DEF CpuTypes, SpawnTypes
  <2>4. CurrentAt(c) /\ (current[c] # NoThread => current[c] \in Threads) /\ boot \in BOOLEAN
    BY Zenon DEF CurrentRuns, CpuTypes, SpawnTypes
  <2>5. CurrentAt(c)'
    BY SMTT(30), <2>1, <2>2, <2>3, <2>4 DEF CurrentAt, InThread, SpawnLabels, InsertLabels
  <2>6. \A x \in Threads : state'[x] = "RUNNING" => current'[c] = x \/ (state[x] = "RUNNING" /\ current[c] # x)
    BY Zenon, <2>1, <2>2
  <2> QED BY ZenonT(30), <2>1, <2>2, <2>3, <2>5, <2>6, CurrentStep
<1>7. CASE BootNext(c)
  <2>1. CASE next_uid <= Len(load.tasks)
    <3>1. ~InThread(c) /\ pc[c] \notin {"loop", "uncount"}
      BY Zenon, <1>7 DEF BootNext, InThread, SpawnLabels, InsertLabels
    <3> QED BY Zenon, <1>7, <2>1, <3>1, SpawnChooseCurrent DEF BootNext
  <2>2. CASE ~(next_uid <= Len(load.tasks))
    <3>1. UNCHANGED <<state, current, list, spawn>>
      BY Zenon, <1>7, <2>2 DEF BootNext, thread_vars, queue_vars, local_vars
    <3> QED BY Zenon, <1>7, <2>2, <3>1, QuietCurrent DEF BootNext, InThread, CpuTypes, Goto, SpawnLabels, InsertLabels
  <2> QED BY <2>1, <2>2
<1>8. CASE EnterMark(c)
  <2>1. UNCHANGED <<state, current, list, spawn>>
    BY <1>8 DEF EnterMark, thread_vars, queue_vars, local_vars
  <2> QED BY Zenon, <1>8, <2>1, QuietCurrent DEF EnterMark, InThread, CpuTypes, Goto, InsertLabels, SpawnLabels, LockLabels
<1>9. CASE WaitAcquire(c)
  <2>1. UNCHANGED <<state, current, list, spawn>>
    BY <1>9 DEF WaitAcquire, thread_vars, queue_vars, local_vars
  <2> QED BY Zenon, <1>9, <2>1, QuietCurrent DEF WaitAcquire, InThread, CpuTypes, Goto, InsertLabels, SpawnLabels, LockLabels
<1>10. CASE WaitCheck(c)
  <2>1. UNCHANGED <<state, current, list, spawn>>
    BY Zenon, <1>10 DEF WaitCheck, thread_vars, queue_vars, local_vars
  <2> QED BY ZenonT(30), <1>10, <2>1, QuietCurrent DEF WaitCheck, InThread, CpuTypes, Goto, InsertLabels, SpawnLabels, LockLabels
<1>11. CASE PickReady(c)
  <2>1. current[c] = NoThread
    BY Zenon, <1>11 DEF PickReady, CurrentRuns, CurrentAt, InThread, SpawnLabels, InsertLabels
  <2>2. sel[c] \in Threads /\ In(sel[c], list[c]) /\ RunThread(c, sel[c]) /\ UNCHANGED <<list, spawn>>
    BY Zenon, <1>11, ReapedIsListed DEF PickReady, queue_vars
  <2> QED BY Zenon, <2>1, <2>2, RunCurrent
<1>12. CASE PickDead(c)
  <2>1. state \in [Threads -> ThreadStates] /\ current[c] \notin Threads
    BY Zenon, <1>12, Constants DEF PickDead, ThreadTypes, CurrentRuns, CurrentAt, InThread, SpawnLabels, InsertLabels
  <2>2. /\ sel[c] \in Threads /\ In(sel[c], list[c]) /\ lock[c] = c /\ Unqueue(c, sel[c], state)
        /\ state[sel[c]] = "DEAD" /\ UNCHANGED spawn /\ pc[c] = "pick"
        /\ pc' = [pc EXCEPT ![c] = "pick_uncount"]
    BY Zenon, <1>12, ReapedIsListed DEF PickDead, Goto
  <2> QED BY Zenon, <2>1, <2>2, ReapCurrent
<1>13. CASE PickUncount(c)
  <2>1. /\ current' = current /\ UNCHANGED <<list, spawn>>
        /\ \/ pc' \in {pc, [pc EXCEPT ![c] = "pick"]} /\ state' = state
           \/ pc' = [pc EXCEPT ![c] = "sleep"] /\ state' = FreeAll(state, tofree[c])
        /\ pc[c] \in {"pick", "pick_uncount"}
    BY Zenon, <1>13 DEF PickUncount, PickNone, Goto, queue_vars
  <2>2. current[c] = NoThread /\ ~InThread(c)
    BY Zenon, <2>1 DEF CurrentRuns, CurrentAt, InThread, SpawnLabels, InsertLabels
  <2>3. CASE state' = state /\ pc' \in {pc, [pc EXCEPT ![c] = "pick"]}
    BY ZenonT(30), <2>1, <2>2, <2>3, QuietCurrent DEF InThread, CpuTypes, SpawnLabels, InsertLabels
  <2>4. CASE pc' = [pc EXCEPT ![c] = "sleep"] /\ state' = FreeAll(state, tofree[c])
    <3>1. CurrentAt(c)'
      BY Zenon, <2>1, <2>2, <2>4 DEF CurrentAt, InThread, CpuTypes, SpawnLabels, InsertLabels
    <3>2. \A d \in CPUS \ {c} : pc'[d] = pc[d]
      BY <2>4 DEF CpuTypes
    <3> QED BY Zenon, <2>1, <2>2, <2>4, <3>1, <3>2, FreeCurrent
  <2> QED BY <2>1, <2>3, <2>4
<1>14. CASE PickSkip(c)
  <2>1. /\ current' = current /\ UNCHANGED <<list, spawn>>
        /\ \/ pc' \in {pc, [pc EXCEPT ![c] = "pick"]} /\ state' = state
           \/ pc' = [pc EXCEPT ![c] = "sleep"] /\ state' = FreeAll(state, tofree[c])
        /\ pc[c] \in {"pick", "pick_uncount"}
    BY Zenon, <1>14 DEF PickSkip, PickNone, Goto, queue_vars
  <2>2. current[c] = NoThread /\ ~InThread(c)
    BY Zenon, <2>1 DEF CurrentRuns, CurrentAt, InThread, SpawnLabels, InsertLabels
  <2>3. CASE state' = state /\ pc' \in {pc, [pc EXCEPT ![c] = "pick"]}
    BY Zenon, <2>1, <2>2, <2>3, QuietCurrent DEF InThread, CpuTypes, SpawnLabels, InsertLabels
  <2>4. CASE pc' = [pc EXCEPT ![c] = "sleep"] /\ state' = FreeAll(state, tofree[c])
    <3>1. CurrentAt(c)'
      BY SMTT(30), <2>1, <2>2, <2>4 DEF CurrentAt, InThread, CpuTypes, SpawnLabels, InsertLabels
    <3>2. \A d \in CPUS \ {c} : pc'[d] = pc[d]
      BY <2>4 DEF CpuTypes
    <3> QED BY Zenon, <2>1, <2>2, <2>4, <3>1, <3>2, FreeCurrent
  <2> QED BY <2>1, <2>3, <2>4
<1>15. CASE LoadResume(c)
  <2>1. UNCHANGED <<state, current, list, spawn>>
    BY Zenon, <1>15 DEF LoadResume, thread_vars, queue_vars, local_vars
  <2> QED BY Zenon, <1>15, <2>1, QuietCurrent DEF LoadResume, InThread, CpuTypes, Goto, InsertLabels, SpawnLabels, LockLabels
<1>16. CASE LoadPreempt(c)
  <2> DEFINE t == current[c]
  <2>1. /\ t \in Threads /\ In(t, list[c])
        /\ state' = [state EXCEPT ![t] = "READY"] /\ pc' = [pc EXCEPT ![c] = "loop"]
        /\ UNCHANGED <<current, list, spawn>>
    BY Zenon, <1>16, ReapedIsListed DEF LoadPreempt, Goto, queue_vars
  <2>2. \A x \in Threads : state'[x] = IF x = t THEN "READY" ELSE state[x]
    BY Zenon, <2>1 DEF ThreadTypes
  <2>3. \A d \in CPUS \ {c} : pc'[d] = pc[d] /\ current[d] # t
    BY Zenon, <2>1, CurrentApart DEF CpuTypes
  <2>4. CurrentAt(c)'
    BY SMTT(30), <2>1, <2>2 DEF CurrentAt, InThread, CpuTypes, SpawnLabels, InsertLabels
  <2>5. \A x \in Threads : state'[x] = "RUNNING" => current'[c] = x \/ (state[x] = "RUNNING" /\ current[c] # x)
    BY <2>2
  <2> QED BY ZenonT(30), <2>1, <2>2, <2>3, <2>4, <2>5, CurrentStep
<1>17. CASE LoadDead(c)
  <2> DEFINE t == current[c]
             st == state
  <2>1. t \in Threads /\ In(t, list[c]) /\ lock[c] = c
    BY Zenon, <1>17, ReapedIsListed DEF LoadDead
  <2>2. /\ st \in [Threads -> ThreadStates] /\ st[t] = "DEAD"
        /\ \A x \in Threads \ {t} : st[x] = state[x]
    BY Zenon, <1>17, <2>1 DEF LoadDead, ThreadTypes, ThreadStates
  <2>3. current[c] \in Threads => current[c] = t \/ state[current[c]] # "RUNNING"
    BY Zenon, <1>17, Constants DEF LoadDead
  <2>4. Unqueue(c, t, st) /\ UNCHANGED spawn /\ pc' = [pc EXCEPT ![c] = "uncount"]
    BY Zenon, <1>17 DEF LoadDead, Reap, Goto
  <2> HIDE DEF t, st
  <2> QED BY Zenon, <2>1, <2>2, <2>3, <2>4, ReapCurrent
<1>18. CASE LoopReapDying(c)
  <2> DEFINE t == sel[c]
             st == [state EXCEPT ![sel[c]] = "DEAD"]
  <2>1. t \in Threads /\ In(t, list[c]) /\ lock[c] = c
    BY Zenon, <1>18, ReapedIsListed DEF LoopReapDying
  <2>2. /\ st \in [Threads -> ThreadStates] /\ st[t] = "DEAD"
        /\ \A x \in Threads \ {t} : st[x] = state[x]
    BY Zenon, <1>18, <2>1 DEF LoopReapDying, ThreadTypes, ThreadStates
  <2>3. current[c] \in Threads => current[c] = t \/ state[current[c]] # "RUNNING"
    BY ZenonT(30), <1>18, Constants DEF LoopReapDying, CurrentRuns, CurrentAt
  <2>4. Unqueue(c, t, st) /\ UNCHANGED spawn /\ pc' = [pc EXCEPT ![c] = "uncount"]
    BY Zenon, <1>18 DEF LoopReapDying, Reap, Goto
  <2> HIDE DEF t, st
  <2> QED BY Zenon, <2>1, <2>2, <2>3, <2>4, ReapCurrent
<1>19. CASE LoopReapDead(c)
  <2> DEFINE t == sel[c]
             st == state
  <2>1. t \in Threads /\ In(t, list[c]) /\ lock[c] = c
    BY Zenon, <1>19, ReapedIsListed DEF LoopReapDead
  <2>2. /\ st \in [Threads -> ThreadStates] /\ st[t] = "DEAD"
        /\ \A x \in Threads \ {t} : st[x] = state[x]
    BY Zenon, <1>19, <2>1 DEF LoopReapDead, ThreadTypes, ThreadStates
  <2>3. current[c] \in Threads => current[c] = t \/ state[current[c]] # "RUNNING"
    BY ZenonT(30), <1>19, Constants DEF LoopReapDead, CurrentRuns, CurrentAt
  <2>4. Unqueue(c, t, st) /\ UNCHANGED spawn /\ pc' = [pc EXCEPT ![c] = "uncount"]
    BY Zenon, <1>19 DEF LoopReapDead, Reap, Goto
  <2> HIDE DEF t, st
  <2> QED BY Zenon, <2>1, <2>2, <2>3, <2>4, ReapCurrent
<1>20. CASE LoopSkip(c)
  <2>1. UNCHANGED <<state, current, list, spawn>>
    BY Zenon, <1>20 DEF LoopSkip, thread_vars, queue_vars, local_vars
  <2> QED BY Zenon, <1>20, <2>1, QuietCurrent DEF LoopSkip, InThread, CpuTypes, Goto, InsertLabels, SpawnLabels, LockLabels
<1>21. CASE LoopSwitch(c)
  <2>1. current[c] # NoThread => state[current[c]] # "RUNNING"
    BY Zenon, <1>21 DEF LoopSwitch, CurrentRuns, CurrentAt
  <2>2. sel[c] \in Threads /\ In(sel[c], list[c]) /\ RunThread(c, sel[c]) /\ UNCHANGED <<list, spawn>>
    BY Zenon, <1>21, ReapedIsListed DEF LoopSwitch, queue_vars
  <2> QED BY Zenon, <2>1, <2>2, RunCurrent
<1>22. CASE Uncount(c)
  <2>1. UNCHANGED <<list, spawn>> /\ pc[c] = "uncount"
    BY Zenon, <1>22 DEF Uncount, queue_vars
  <2>2. CASE list[c] = <<>>
    <3>1. /\ current' = [current EXCEPT ![c] = NoThread] /\ state' = FreeAll(state, tofree[c])
          /\ pc' = [pc EXCEPT ![c] = "wait"]
      BY Zenon, <1>22, <2>2 DEF Uncount, Goto
    <3>2. current[c] = NoThread
      BY SMTT(30), <2>2 DEF CurrentRuns, CurrentAt, In
    <3>3. CurrentAt(c)'
      BY Zenon, <3>1 DEF CurrentAt, InThread, CpuTypes, SpawnLabels, InsertLabels
    <3>4. \A d \in CPUS \ {c} : pc'[d] = pc[d] /\ current'[d] = current[d]
      BY SMTT(30), <3>1 DEF CpuTypes
    <3> QED BY Zenon, <2>1, <3>1, <3>2, <3>3, <3>4, FreeCurrent
  <2>3. CASE list[c] # <<>>
    <3>1. UNCHANGED <<state, current>> /\ pc' = [pc EXCEPT ![c] = "loop"]
      BY Zenon, <1>22, <2>3 DEF Uncount, Goto
    <3> QED BY Zenon, <2>1, <3>1, QuietCurrent DEF InThread, CpuTypes, SpawnLabels, InsertLabels
  <2> QED BY <2>2, <2>3
<1>23. CASE Other(c)
  <2>1. UNCHANGED <<state, current, list, spawn>>
    BY SMTT(30), <1>23 DEF Other, thread_vars, queue_vars, local_vars
  <2> QED BY Zenon, <1>23, <2>1, QuietCurrent DEF Other, InThread, CpuTypes, Goto, InsertLabels, SpawnLabels, LockLabels
<1>24. CASE Yield(c)
  <2>1. UNCHANGED <<state, current, list, spawn>>
    BY Zenon, <1>24 DEF Yield, thread_vars, queue_vars, local_vars
  <2> QED BY Zenon, <1>24, <2>1, QuietCurrent DEF Yield, InThread, CpuTypes, Goto, InsertLabels, SpawnLabels, LockLabels
<1>25. CASE Exit(c)
  <2>1. UNCHANGED <<state, current, list, spawn>>
    BY Zenon, <1>25 DEF Exit, thread_vars, queue_vars, local_vars
  <2> QED BY Zenon, <1>25, <2>1, QuietCurrent DEF Exit, InThread, CpuTypes, Goto, InsertLabels, SpawnLabels, LockLabels
<1>26. CASE Fault(c)
  <2>1. UNCHANGED <<state, current, list, spawn>>
    BY Zenon, <1>26 DEF Fault, thread_vars, queue_vars, local_vars
  <2> QED BY Zenon, <1>26, <2>1, QuietCurrent DEF Fault, InThread, CpuTypes, Goto, InsertLabels, SpawnLabels, LockLabels
<1>27. CASE SyscallSpawn(c)
  <2>1. InThread(c)
    BY SMTT(30), <1>27 DEF SyscallSpawn, InThread
  <2> QED BY Zenon, <1>27, <2>1, SpawnChooseCurrent DEF SyscallSpawn
<1>28. ASSUME NEW t \in Threads, Kill(c, t) PROVE CurrentRuns'
  <2>1. /\ \A x \in Threads : state'[x] = state[x] \/ state'[x] = "DEAD"
        /\ pc[c] = "kernel" /\ pc' = [pc EXCEPT ![c] = "load"]
        /\ UNCHANGED <<current, list, spawn>>
    BY Zenon, <1>28 DEF Kill, ThreadTypes, Goto, queue_vars, local_vars
  <2>2. CurrentAt(c) /\ (current[c] # NoThread => current[c] \in Threads)
    BY DEF CurrentRuns, CpuTypes
  <2>3. pc'[c] = "load" /\ \A d \in CPUS \ {c} : pc'[d] = pc[d]
    BY Zenon, <2>1 DEF CpuTypes
  <2>4. CurrentAt(c)'
    BY Zenon, <2>1, <2>2, <2>3 DEF CurrentAt, InThread
  <2>5. \A x \in Threads : state'[x] = "RUNNING" => current'[c] = x \/ (state[x] = "RUNNING" /\ current[c] # x)
    BY Zenon, <2>1
  <2> QED BY Zenon, <2>1, <2>3, <2>4, <2>5, CurrentStep
<1>29. CASE Trap(c)
  <2>1. UNCHANGED <<state, current, list, spawn>>
    BY Zenon, <1>29 DEF Trap, thread_vars, queue_vars, local_vars
  <2> QED BY Zenon, <1>29, <2>1, QuietCurrent DEF Trap, InThread, CpuTypes, Goto, InsertLabels, SpawnLabels, LockLabels
<1>30. CASE TimerTrap(c)
  <2>1. UNCHANGED <<state, current, list, spawn>>
    BY <1>30 DEF TimerTrap, thread_vars, queue_vars, local_vars
  <2> QED BY Zenon, <1>30, <2>1, QuietCurrent DEF TimerTrap, InThread, CpuTypes, Goto, InsertLabels, SpawnLabels, LockLabels
<1>31. CASE TimerNested(c)
  <2>1. UNCHANGED <<state, current, list, spawn>>
    BY <1>31 DEF TimerNested, thread_vars, queue_vars, local_vars
  <2> QED BY Zenon, <1>31, <2>1, QuietCurrent DEF TimerNested, InThread, CpuTypes, Goto, InsertLabels, SpawnLabels, LockLabels
<1> QED BY Zenon, <1>1, <1>2, <1>3, <1>4, <1>5, <1>6, <1>7, <1>8, <1>9, <1>10, <1>11, <1>12,
         <1>13, <1>14, <1>15, <1>16, <1>17, <1>18, <1>19, <1>20, <1>21, <1>22, <1>23,
         <1>24, <1>25, <1>26, <1>27, <1>28, <1>29, <1>30, <1>31
  DEF Step, Kernel, Spawning, Waiting, Loading, Handling, SystemCall, TimerInterrupt

(* Only the address space of the CPU that takes the step needs a look. *)
LEMMA MappingStep ==
    ASSUME SInv, NEW c \in CPUS,
           \A t \in Threads : Queued(t) => owner'[t] = owner[t],
           \A d \in CPUS \ {c} : pc'[d] = pc[d] /\ current'[d] = current[d] /\ mapping'[d] = mapping[d],
           pc'[c] \in {"user", "kernel"} => mapping'[c] = owner'[current'[c]]
    PROVE  OwnAddressSpace'
<1>1. ASSUME NEW d \in CPUS \ {c}, pc'[d] \in {"user", "kernel"}
      PROVE  mapping'[d] = owner'[current'[d]]
  <2>1. current[d] \in Threads /\ In(current[d], list[d])
    BY SMTT(30), <1>1 DEF SInv, TypeOK, CpuTypes, CurrentRuns, CurrentAt, InThread
  <2>2. owner'[current[d]] = owner[current[d]]
    BY Zenon, <2>1 DEF Queued
  <2> QED BY Zenon, <1>1, <2>2 DEF SInv, OwnAddressSpace
<1> QED BY Zenon, <1>1 DEF OwnAddressSpace

(* The next thread to be created is not in use yet. *)
LEMMA FreshThread ==
    ASSUME SInv, next_uid \in Threads
    PROVE  state[next_uid] = "none" /\ ~Queued(next_uid)
<1>1. next_uid \in Nat
  BY Zenon DEF SInv, TypeOK, ThreadTypes
<1>2. next_uid >= next_uid
  BY <1>1
<1>3. state[next_uid] = "none"
  BY Zenon, <1>2 DEF SInv, LinkedLive
<1> QED BY Zenon, <1>3 DEF SInv, LinkedLive, Linked

(* thread_create leaves the address spaces alone: a thread that runs keeps *)
(* its task.                                                               *)
LEMMA SpawnChooseMapping ==
    ASSUME SInv, NEW c \in CPUS, NEW k, NEW b, SpawnChoose(c, k, b)
    PROVE  OwnAddressSpace'
<1> USE DEF SInv, TypeOK
<1>1. /\ owner' = [owner EXCEPT ![next_uid] = k] /\ next_uid \in Threads
      /\ UNCHANGED <<current, mapping>> /\ pc' = [pc EXCEPT ![c] = "sp_try"]
  BY SMTT(30), Constants DEF SpawnChoose, CpuTypes, ThreadTypes, Goto
<1>2. ~Queued(next_uid)
  BY Zenon, <1>1, FreshThread
<1>3. \A t \in Threads : Queued(t) => owner'[t] = owner[t]
  BY <1>1, <1>2 DEF ThreadTypes
<1> QED BY Zenon, <1>1, <1>3, MappingStep DEF CpuTypes

(* Every step keeps the address space: it is loaded before the thread      *)
(* runs.                                                                   *)
LEMMA OwnAddressSpaceInv ==
    ASSUME SInv, NEW c \in CPUS, Step(c)
    PROVE  OwnAddressSpace'
<1> USE DEF SInv, TypeOK
<1>1. CASE SpawnTry(c)
  <2>1. UNCHANGED <<owner, current, mapping>>
    BY Zenon, <1>1 DEF SpawnTry, thread_vars, local_vars
  <2> QED BY Zenon, <1>1, <2>1, MappingStep DEF SpawnTry, CpuTypes, Goto
<1>2. CASE SpawnMove(c)
  <2>1. UNCHANGED <<owner, current, mapping>>
    BY Zenon, <1>2 DEF SpawnMove, thread_vars, local_vars
  <2> QED BY Zenon, <1>2, <2>1, MappingStep DEF SpawnMove, CpuTypes, Goto
<1>3. CASE SpawnAcquire(c)
  <2>1. UNCHANGED <<owner, current, mapping>>
    BY <1>3 DEF SpawnAcquire, thread_vars, local_vars
  <2> QED BY Zenon, <1>3, <2>1, MappingStep DEF SpawnAcquire, CpuTypes, Goto
<1>4. CASE SpawnInsert(c)
  <2>1. UNCHANGED <<owner, current, mapping>>
    BY Zenon, <1>4 DEF SpawnInsert, thread_vars, local_vars
  <2> QED BY Zenon, <1>4, <2>1, MappingStep DEF SpawnInsert, CpuTypes, Goto
<1>5. CASE SpawnCount(c)
  <2>1. UNCHANGED <<owner, current, mapping>>
    BY <1>5 DEF SpawnCount, thread_vars, local_vars
  <2> QED BY Zenon, <1>5, <2>1, MappingStep DEF SpawnCount, CpuTypes, Goto
<1>6. CASE SpawnReady(c)
  <2>1. UNCHANGED <<owner, current, mapping>>
    BY <1>6 DEF SpawnReady, thread_vars, local_vars
  <2> QED BY SMTT(30), <1>6, <2>1, MappingStep DEF SpawnReady, CpuTypes, Goto
<1>7. CASE BootNext(c)
  <2>1. CASE next_uid <= Len(load.tasks)
    BY Zenon, <1>7, <2>1, SpawnChooseMapping DEF BootNext
  <2>2. CASE ~(next_uid <= Len(load.tasks))
    BY Zenon, <1>7, <2>2, MappingStep DEF BootNext, CpuTypes, Goto, thread_vars, local_vars
  <2> QED BY <2>1, <2>2
<1>8. CASE EnterMark(c)
  <2>1. UNCHANGED <<owner, current, mapping>>
    BY <1>8 DEF EnterMark, thread_vars, local_vars
  <2> QED BY Zenon, <1>8, <2>1, MappingStep DEF EnterMark, CpuTypes, Goto
<1>9. CASE WaitAcquire(c)
  <2>1. UNCHANGED <<owner, current, mapping>>
    BY SMTT(30), <1>9 DEF WaitAcquire, thread_vars, local_vars
  <2> QED BY Zenon, <1>9, <2>1, MappingStep DEF WaitAcquire, CpuTypes, Goto
<1>10. CASE WaitCheck(c)
  <2>1. UNCHANGED <<owner, current, mapping>>
    BY Zenon, <1>10 DEF WaitCheck, thread_vars, local_vars
  <2> QED BY Zenon, <1>10, <2>1, MappingStep DEF WaitCheck, CpuTypes, Goto
<1>11. CASE PickReady(c)
  <2>1. /\ UNCHANGED owner /\ mapping' = [mapping EXCEPT ![c] = owner[sel[c]]]
        /\ current' = [current EXCEPT ![c] = sel[c]] /\ pc' = [pc EXCEPT ![c] = "user"]
    BY Zenon, <1>11 DEF PickReady, RunThread, set_thread_mapping, Goto
  <2> QED BY Zenon, <2>1, MappingStep DEF CpuTypes, LoopTypes
<1>12. CASE PickDead(c)
  <2>1. /\ UNCHANGED <<owner, mapping>>
        /\ pc' \in {[pc EXCEPT ![c] = "uncount"], [pc EXCEPT ![c] = "pick_uncount"]}
    BY Zenon, <1>12 DEF PickDead, Reap, Goto
  <2>2. \A d \in CPUS \ {c} : current'[d] = current[d]
    <3>1. \E t, st : Unqueue(c, t, st)
      BY Zenon, <1>12 DEF PickDead, Reap
    <3> QED BY SMTT(30), <3>1, UnqueueCurrent DEF CpuTypes
  <2> QED BY ZenonT(30), <2>1, <2>2, MappingStep DEF CpuTypes
<1>13. CASE PickUncount(c)
  <2>1. UNCHANGED <<owner, current, mapping>>
    BY Zenon, <1>13 DEF PickUncount, thread_vars, local_vars
  <2> QED BY Zenon, <1>13, <2>1, MappingStep DEF PickUncount, CpuTypes, Goto, PickNone
<1>14. CASE PickSkip(c)
  <2>1. UNCHANGED <<owner, current, mapping>>
    BY Zenon, <1>14 DEF PickSkip, thread_vars, local_vars
  <2> QED BY Zenon, <1>14, <2>1, MappingStep DEF PickSkip, CpuTypes, Goto, PickNone
<1>15. CASE LoadResume(c)
  <2>1. /\ UNCHANGED <<owner, current>> /\ mapping' = [mapping EXCEPT ![c] = owner[current[c]]]
        /\ pc' = [pc EXCEPT ![c] = "user"]
    BY Zenon, <1>15 DEF LoadResume, set_thread_mapping, thread_vars, Goto
  <2> QED BY Zenon, <2>1, MappingStep DEF CpuTypes, LoopTypes
<1>16. CASE LoadPreempt(c)
  <2>1. UNCHANGED <<owner, current, mapping>>
    BY Zenon, <1>16 DEF LoadPreempt, thread_vars, local_vars
  <2> QED BY Zenon, <1>16, <2>1, MappingStep DEF LoadPreempt, CpuTypes, Goto
<1>17. CASE LoadDead(c)
  <2>1. /\ UNCHANGED <<owner, mapping>>
        /\ pc' \in {[pc EXCEPT ![c] = "uncount"], [pc EXCEPT ![c] = "pick_uncount"]}
    BY Zenon, <1>17 DEF LoadDead, Reap, Goto
  <2>2. \A d \in CPUS \ {c} : current'[d] = current[d]
    <3>1. \E t, st : Unqueue(c, t, st)
      BY Zenon, <1>17 DEF LoadDead, Reap
    <3> QED BY <3>1, UnqueueCurrent DEF CpuTypes
  <2>3. pc'[c] \in {"uncount", "pick_uncount"} /\ \A d \in CPUS \ {c} : pc'[d] = pc[d]
    BY Zenon, <2>1 DEF CpuTypes
  <2> QED BY Zenon, <2>1, <2>2, <2>3, MappingStep
<1>18. CASE LoopReapDying(c)
  <2>1. /\ UNCHANGED <<owner, mapping>>
        /\ pc' \in {[pc EXCEPT ![c] = "uncount"], [pc EXCEPT ![c] = "pick_uncount"]}
    BY Zenon, <1>18 DEF LoopReapDying, Reap, Goto
  <2>2. \A d \in CPUS \ {c} : current'[d] = current[d]
    <3>1. \E t, st : Unqueue(c, t, st)
      BY Zenon, <1>18 DEF LoopReapDying, Reap
    <3> QED BY <3>1, UnqueueCurrent DEF CpuTypes
  <2>3. pc'[c] \in {"uncount", "pick_uncount"} /\ \A d \in CPUS \ {c} : pc'[d] = pc[d]
    BY Zenon, <2>1 DEF CpuTypes
  <2> QED BY Zenon, <2>1, <2>2, <2>3, MappingStep
<1>19. CASE LoopReapDead(c)
  <2>1. /\ UNCHANGED <<owner, mapping>>
        /\ pc' \in {[pc EXCEPT ![c] = "uncount"], [pc EXCEPT ![c] = "pick_uncount"]}
    BY Zenon, <1>19 DEF LoopReapDead, Reap, Goto
  <2>2. \A d \in CPUS \ {c} : current'[d] = current[d]
    <3>1. \E t, st : Unqueue(c, t, st)
      BY Zenon, <1>19 DEF LoopReapDead, Reap
    <3> QED BY <3>1, UnqueueCurrent DEF CpuTypes
  <2>3. pc'[c] \in {"uncount", "pick_uncount"} /\ \A d \in CPUS \ {c} : pc'[d] = pc[d]
    BY Zenon, <2>1 DEF CpuTypes
  <2> QED BY Zenon, <2>1, <2>2, <2>3, MappingStep
<1>20. CASE LoopSkip(c)
  <2>1. UNCHANGED <<owner, current, mapping>>
    BY Zenon, <1>20 DEF LoopSkip, thread_vars, local_vars
  <2> QED BY Zenon, <1>20, <2>1, MappingStep DEF LoopSkip, CpuTypes, Goto
<1>21. CASE LoopSwitch(c)
  <2>1. /\ UNCHANGED owner /\ mapping' = [mapping EXCEPT ![c] = owner[sel[c]]]
        /\ current' = [current EXCEPT ![c] = sel[c]] /\ pc' = [pc EXCEPT ![c] = "user"]
    BY Zenon, <1>21 DEF LoopSwitch, RunThread, set_thread_mapping, Goto
  <2> QED BY SMTT(30), <2>1, MappingStep DEF CpuTypes, LoopTypes
<1>22. CASE Uncount(c)
  <2>1. /\ UNCHANGED <<owner, mapping>> /\ \A d \in CPUS \ {c} : current'[d] = current[d]
        /\ pc' \in {[pc EXCEPT ![c] = "wait"], [pc EXCEPT ![c] = "loop"]}
    BY Zenon, <1>22 DEF Uncount, Goto, CpuTypes
  <2> QED BY ZenonT(30), <2>1, MappingStep DEF CpuTypes
<1>23. CASE Other(c)
  <2>1. UNCHANGED <<owner, current, mapping>>
    BY SMTT(30), <1>23 DEF Other, thread_vars, local_vars
  <2> QED BY ZenonT(30), <1>23, <2>1, MappingStep DEF Other, CpuTypes, Goto
<1>24. CASE Yield(c)
  <2>1. UNCHANGED <<owner, current, mapping>>
    BY Zenon, <1>24 DEF Yield, thread_vars, local_vars
  <2> QED BY Zenon, <1>24, <2>1, MappingStep DEF Yield, CpuTypes, Goto
<1>25. CASE Exit(c)
  <2>1. UNCHANGED <<owner, current, mapping>>
    BY Zenon, <1>25 DEF Exit, thread_vars, local_vars
  <2> QED BY Zenon, <1>25, <2>1, MappingStep DEF Exit, CpuTypes, Goto
<1>26. CASE Fault(c)
  <2>1. UNCHANGED <<owner, current, mapping>>
    BY Zenon, <1>26 DEF Fault, thread_vars, local_vars
  <2> QED BY Zenon, <1>26, <2>1, MappingStep DEF Fault, CpuTypes, Goto
<1>27. CASE SyscallSpawn(c)
  BY Zenon, <1>27, SpawnChooseMapping DEF SyscallSpawn
<1>28. ASSUME NEW t \in Threads, Kill(c, t) PROVE OwnAddressSpace'
  <2>1. UNCHANGED <<owner, current, mapping>>
    BY Zenon, <1>28 DEF Kill, thread_vars, local_vars
  <2> QED BY Zenon, <1>28, <2>1, MappingStep DEF Kill, CpuTypes, Goto
<1>29. CASE Trap(c)
  <2>1. UNCHANGED <<owner, current, mapping>>
    BY Zenon, <1>29 DEF Trap, thread_vars, local_vars
  <2> QED BY ZenonT(30), <1>29, <2>1, MappingStep DEF Trap, CpuTypes, Goto, OwnAddressSpace
<1>30. CASE TimerTrap(c)
  <2>1. UNCHANGED <<owner, current, mapping>>
    BY Zenon, <1>30 DEF TimerTrap, thread_vars, local_vars
  <2> QED BY Zenon, <1>30, <2>1, MappingStep DEF TimerTrap, CpuTypes, Goto
<1>31. CASE TimerNested(c)
  <2>1. UNCHANGED <<owner, current, mapping>>
    BY SMTT(30), <1>31 DEF TimerNested, thread_vars, local_vars
  <2> QED BY Zenon, <1>31, <2>1, MappingStep DEF TimerNested, CpuTypes, Goto, OwnAddressSpace
<1> QED BY Zenon, <1>1, <1>2, <1>3, <1>4, <1>5, <1>6, <1>7, <1>8, <1>9, <1>10, <1>11, <1>12,
         <1>13, <1>14, <1>15, <1>16, <1>17, <1>18, <1>19, <1>20, <1>21, <1>22, <1>23,
         <1>24, <1>25, <1>26, <1>27, <1>28, <1>29, <1>30, <1>31
  DEF Step, Kernel, Spawning, Waiting, Loading, Handling, SystemCall, TimerInterrupt

(* The invariant holds when the kernel starts. *)
LEMMA InitSInv == Init => SInv
<1> SUFFICES ASSUME Init PROVE SInv
  OBVIOUS
<1>1. load \in Workloads /\ load.tasks[1] \in Tasks
  BY Zenon, Constants DEF Init
<1>2. ThreadTypes
  BY SMTT(30), <1>1 DEF Init, ThreadTypes, ThreadStates
<1>3. TaskTypes /\ QueueTypes /\ TimerTypes
  BY SMTT(30) DEF Init, TaskTypes, QueueTypes, TimerTypes
<1>4. LoopTypes /\ SpawnTypes
  BY Zenon DEF Init, LoopTypes, SpawnTypes, NoSpawn
<1>5. CpuTypes
  BY SMTT(30) DEF Init, CpuTypes, Labels
<1>6. \A c \in CPUS : pc[c] \in {"boot", "start"} /\ spawn[c] = NoSpawn
  BY Zenon DEF Init
<1>7. LocksHeld /\ SelLinked
  BY Zenon, <1>6 DEF LocksHeld, SelLinked, SelAt, LockLabels, SpawnLabels, InsertLabels
<1>8. SpawnsApart
  BY Zenon, <1>6, NoSpawnFields DEF SpawnsApart, SpawnLabels, InsertLabels
<1>9. \A t : ~Queued(t) /\ ~InFlight(t)
  <2>1. \A c \in CPUS : list[c] = <<>>
    BY Zenon DEF Init
  <2>2. \A t : ~In(t, <<>>)
    BY DEF In
  <2> QED BY Zenon, <1>6, <2>1, <2>2 DEF Queued, InFlight
<1> DEFINE None == <<>>
<1>u. Unique(None) /\ \A t : ~In(t, None)
  BY DEF Unique, In
<1>l. (\A c \in CPUS : list[c] = None) /\ \A k \in Tasks : refs[k] = None
  BY Zenon DEF Init
<1> HIDE DEF None
<1>10. ListsOnce
  BY Zenon, <1>9, <1>u, <1>l DEF ListsOnce
<1>11. RefsLinked
  BY Zenon, <1>9, <1>u, <1>l DEF RefsLinked, Linked, None
<1>12. LinkedLive
  BY SMTT(30), <1>6, <1>9, NoSpawnFields, Constants DEF Init, LinkedLive, Linked
<1>13. CurrentRuns
  BY Zenon, <1>6 DEF Init, CurrentRuns, CurrentAt, InThread, SpawnLabels, InsertLabels
<1>14. BootFirst
  <2>1. /\ ready = {} /\ 0 \in CPUS /\ \A c \in CPUS : ~spawn[c].boot
        /\ \A c \in CPUS : pc[c] = IF c = 0 THEN "boot" ELSE "start"
        /\ \A k \in Tasks : tstate[k] = "NEW"
    BY Zenon, <1>6, NoSpawnFields, Constants DEF Init
  <2> QED BY Zenon, <2>1 DEF BootFirst
<1>15. HandleNamesPendingEvent /\ OwnAddressSpace
  BY Zenon DEF Init, HandleNamesPendingEvent, OwnAddressSpace
<1> QED BY <1>2, <1>3, <1>4, <1>5, <1>7, <1>8, <1>10, <1>11, <1>12, <1>13, <1>14, <1>15
        DEF SInv, TypeOK

(* A step is one of the code of a CPU, or the kernel is halted or done and *)
(* nothing happens.                                                        *)
LEMMA NextStep ==
    ASSUME Next
    PROVE  (\E c \in CPUS : Step(c)) \/ UNCHANGED vars
BY DEF Next, Step, Stopped

(* A step of nothing keeps the invariant. *)
LEMMA StutterSInv ==
    ASSUME SInv, UNCHANGED vars
    PROVE  SInv'
<1> USE DEF SInv, vars
<1>1. TypeOK'
  BY Zenon DEF TypeOK, ThreadTypes, TaskTypes, QueueTypes, TimerTypes, LoopTypes, SpawnTypes, CpuTypes,
         thread_vars, task_vars, queue_vars, timer_vars, local_vars
<1>2. (\A t : InFlight(t)' <=> InFlight(t)) /\ (\A t : Queued(t)' <=> Queued(t))
  BY Zenon DEF InFlight, Queued, queue_vars, local_vars
<1>3. ListsOnce' /\ RefsLinked' /\ LinkedLive'
  BY Zenon, <1>2, QuietLists DEF task_vars, queue_vars, local_vars
<1>4. LocksHeld' /\ SpawnsApart'
  BY Zenon DEF LocksHeld, SpawnsApart, local_vars
<1>5. CurrentRuns'
  BY Zenon DEF CurrentRuns, CurrentAt, InThread, thread_vars, queue_vars, local_vars
<1>6. SelLinked' /\ BootFirst'
  BY Zenon DEF SelLinked, SelAt, BootFirst, task_vars, queue_vars, local_vars
<1>7. HandleNamesPendingEvent' /\ OwnAddressSpace'
  BY Zenon DEF HandleNamesPendingEvent, OwnAddressSpace, timer_vars, local_vars, thread_vars
<1> QED BY Zenon, <1>1, <1>3, <1>4, <1>5, <1>6, <1>7

(* A step of any CPU keeps the invariant. *)
LEMMA StepSInv ==
    ASSUME SInv, NEW c \in CPUS, Step(c)
    PROVE  SInv'
<1>1. ThreadTypes' /\ TaskTypes' /\ QueueTypes'
  BY ListTypesInv
<1>2. TimerTypes' /\ HandleNamesPendingEvent'
  BY TimerTypesInv
<1>3. LoopTypes' /\ CpuTypes'
  BY LoopTypesInv, CpuTypesInv
<1>4. SpawnTypes' /\ SpawnsApart'
  BY SpawnTypesInv
<1>5. ListsOnce' /\ RefsLinked' /\ LinkedLive'
  BY ListsInv
<1>6. LocksHeld' /\ BootFirst'
  BY LocksHeldInv, BootFirstInv
<1>7. SelLinked' /\ CurrentRuns' /\ OwnAddressSpace'
  BY SelLinkedInv, CurrentRunsInv, OwnAddressSpaceInv
<1> QED BY Zenon, <1>1, <1>2, <1>3, <1>4, <1>5, <1>6, <1>7 DEF SInv, TypeOK

(* SInv is an invariant of the scheduler: schedule(), schedule_thread,     *)
(* unqueue_thread with try_balance_task, the system calls and the timer    *)
(* interrupt keep it, on any number of CPUs and in any order.              *)
THEOREM SchedulerInvariant == Spec => []SInv
<1>1. Init => SInv
  BY InitSInv
<1>2. SInv /\ [Next]_vars => SInv'
  <2> SUFFICES ASSUME SInv, [Next]_vars PROVE SInv'
    OBVIOUS
  <2>1. ASSUME NEW c \in CPUS, Step(c) PROVE SInv'
    BY <2>1, StepSInv
  <2>2. CASE UNCHANGED vars
    BY <2>2, StutterSInv
  <2> QED BY <2>1, <2>2, NextStep
<1> QED BY <1>1, <1>2, PTL DEF Spec

(* The runqueues and the references of the tasks agree (schedule_thread,   *)
(* unqueue_thread, try_balance_task): a thread is in one runqueue, its     *)
(* own, and is a reference of its task as long as it is linked.            *)
THEOREM SchedulerQueuesConsistent == Spec => []QueuesConsistent
<1>1. SInv => QueuesConsistent
  <2> SUFFICES ASSUME SInv PROVE QueuesConsistent
    OBVIOUS
  <2>1. \A t \in Threads : owner[t] \in Tasks
    BY DEF SInv, TypeOK, ThreadTypes
  <2>2. \A t \in Threads : In(t, refs[owner[t]]) <=> Queued(t) \/ InFlight(t)
    BY Zenon, <2>1 DEF SInv, RefsLinked, Linked
  <2>3. \A c \in CPUS : current[c] # NoThread => In(current[c], list[c])
    BY Zenon DEF SInv, CurrentRuns, CurrentAt
  <2>4. \A t \in Threads : Queued(t) \/ InFlight(t) => state[t] \notin {"none", "freed"}
    BY Zenon DEF SInv, LinkedLive, Linked
  <2> QED BY Zenon, <2>2, <2>3, <2>4 DEF QueuesConsistent, SInv, ListsOnce, Unique
<1> QED BY <1>1, SchedulerInvariant, PTL

(* No thread runs on two CPUs, whatever try_balance_task moves meanwhile:  *)
(* it moves no current thread.                                             *)
THEOREM SchedulerRunsOnOneCpu == Spec => []RunsOnOneCpu
<1>1. SInv => RunsOnOneCpu
  <2> SUFFICES ASSUME SInv PROVE RunsOnOneCpu
    OBVIOUS
  <2>1. \A c \in CPUS : current[c] # NoThread => current[c] \in Threads /\ In(current[c], list[c])
    BY SMTT(30) DEF SInv, TypeOK, CpuTypes, CurrentRuns, CurrentAt
  <2>2. \A c \in CPUS : current[c] # NoThread => sched_cpu[current[c]] = c
    BY Zenon, <2>1 DEF SInv, ListsOnce
  <2>3. \A c \in CPUS : pc[c] = "user" => current[c] # NoThread /\ state[current[c]] \in {"RUNNING", "DEAD"}
    BY Zenon DEF SInv, CurrentRuns, CurrentAt, InThread
  <2>4. \A t \in Threads : state[t] = "RUNNING" => \E c \in CPUS : current[c] = t
    BY Zenon DEF SInv, CurrentRuns
  <2> QED BY Zenon, <2>2, <2>3, <2>4 DEF RunsOnOneCpu
<1> QED BY <1>1, SchedulerInvariant, PTL

(* A thread runs in the address space of its task (load_address_space in   *)
(* schedule()).                                                            *)
THEOREM SchedulerOwnAddressSpace == Spec => []OwnAddressSpace
<1>1. SInv => OwnAddressSpace
  BY DEF SInv
<1> QED BY <1>1, SchedulerInvariant, PTL

(* The preemptive event schedule() keeps a handle of is pending, so that   *)
(* timer_cancel_event finds it.                                            *)
THEOREM SchedulerHandleNamesPendingEvent == Spec => []HandleNamesPendingEvent
<1>1. SInv => HandleNamesPendingEvent
  BY DEF SInv
<1> QED BY <1>1, SchedulerInvariant, PTL

(* thread_create wakes no dead thread: it gives a new one. *)
LEMMA SpawnChooseDead ==
    ASSUME SInv, NEW c \in CPUS, NEW k, NEW b, SpawnChoose(c, k, b)
    PROVE  DeadStaysDead
<1> USE DEF SInv, TypeOK
<1>1. state' = [state EXCEPT ![next_uid] = "NEW"] /\ tstate' = tstate /\ next_uid \in Threads
  BY SMTT(30), Constants DEF SpawnChoose, CpuTypes, ThreadTypes
<1>2. state[next_uid] = "none"
  BY Zenon, <1>1, FreshThread
<1>3. \A x \in Threads : state[x] \in {"DEAD", "freed"} => state'[x] = state[x]
  BY Zenon, <1>1, <1>2 DEF ThreadTypes
<1> QED BY Zenon, <1>1, <1>3 DEF DeadStaysDead

(* unqueue_thread makes threads dead, never alive. *)
LEMMA UnqueueDead ==
    ASSUME SInv, NEW c \in CPUS, NEW t \in Threads, NEW st, Unqueue(c, t, st),
           \A x \in Threads : st[x] = state[x] \/ (state[x] # "freed" /\ st[x] = "DEAD")
    PROVE  DeadStaysDead
<1> DEFINE k == owner[t]
           e == Without(refs[k], t) = <<>>
<1>1. state' = st /\ tstate' = [tstate EXCEPT ![k] = IF e THEN "DEAD" ELSE @]
  BY Zenon DEF Unqueue
<1> HIDE DEF k, e
<1>2. \A j \in Tasks : tstate[j] = "DEAD" => tstate'[j] = "DEAD"
  BY Zenon, <1>1 DEF SInv, TypeOK, TaskTypes
<1> QED BY Zenon, <1>1, <1>2 DEF DeadStaysDead

(* No step brings a dead thread or task back. *)
LEMMA DeadStaysDeadStep ==
    ASSUME SInv, NEW c \in CPUS, Step(c)
    PROVE  DeadStaysDead
<1> USE DEF SInv, TypeOK
<1>1. CASE SpawnTry(c)
  <2>1. UNCHANGED <<state, tstate>>
    BY Zenon, <1>1 DEF SpawnTry, thread_vars, task_vars
  <2> QED BY <2>1 DEF DeadStaysDead
<1>2. CASE SpawnMove(c)
  <2>1. UNCHANGED <<state, tstate>>
    BY Zenon, <1>2 DEF SpawnMove, thread_vars, task_vars
  <2> QED BY <2>1 DEF DeadStaysDead
<1>3. CASE SpawnAcquire(c)
  <2>1. UNCHANGED <<state, tstate>>
    BY Zenon, <1>3 DEF SpawnAcquire, thread_vars, task_vars
  <2> QED BY <2>1 DEF DeadStaysDead
<1>4. CASE SpawnInsert(c)
  <2>1. UNCHANGED <<state, tstate>>
    BY Zenon, <1>4 DEF SpawnInsert, thread_vars, task_vars
  <2> QED BY <2>1 DEF DeadStaysDead
<1>5. CASE SpawnCount(c)
  <2>1. UNCHANGED <<state, tstate>>
    BY SMTT(30), <1>5 DEF SpawnCount, thread_vars, task_vars
  <2> QED BY <2>1 DEF DeadStaysDead
<1>6. CASE SpawnReady(c)
  <2>1. \A x \in Threads : state[x] \in {"DEAD", "freed"} => state'[x] = state[x]
    BY SMTT(30), <1>6 DEF SpawnReady, ThreadTypes
  <2> QED BY SMTT(30), <1>6, <2>1 DEF SpawnReady, DeadStaysDead, task_vars
<1>7. CASE BootNext(c)
  <2>1. CASE next_uid <= Len(load.tasks)
    BY Zenon, <1>7, <2>1, SpawnChooseDead DEF BootNext
  <2>2. CASE ~(next_uid <= Len(load.tasks))
    BY Zenon, <1>7, <2>2 DEF BootNext, DeadStaysDead, thread_vars, task_vars
  <2> QED BY <2>1, <2>2
<1>8. CASE EnterMark(c)
  <2>1. UNCHANGED <<state, tstate>>
    BY Zenon, <1>8 DEF EnterMark, thread_vars, task_vars
  <2> QED BY <2>1 DEF DeadStaysDead
<1>9. CASE WaitAcquire(c)
  <2>1. UNCHANGED <<state, tstate>>
    BY Zenon, <1>9 DEF WaitAcquire, thread_vars, task_vars
  <2> QED BY <2>1 DEF DeadStaysDead
<1>10. CASE WaitCheck(c)
  <2>1. UNCHANGED <<state, tstate>>
    BY Zenon, <1>10 DEF WaitCheck, thread_vars, task_vars
  <2> QED BY <2>1 DEF DeadStaysDead
<1>11. CASE PickReady(c)
  <2>1. \A x \in Threads : state[x] \in {"DEAD", "freed"} => state'[x] \in {state[x], "freed"}
    BY Zenon, <1>11 DEF PickReady, RunThread, FreeAll, ThreadTypes
  <2> QED BY Zenon, <1>11, <2>1 DEF PickReady, DeadStaysDead, task_vars
<1>12. CASE PickDead(c)
  <2>1. sel[c] \in Threads /\ Unqueue(c, sel[c], state)
    BY Zenon, <1>12, ReapedIsListed DEF PickDead
  <2> QED BY Zenon, <2>1, UnqueueDead
<1>13. CASE PickUncount(c)
  <2>1. \A x \in Threads : state'[x] \in {state[x], "freed"}
    BY Zenon, <1>13 DEF PickUncount, PickNone, FreeAll
  <2> QED BY Zenon, <1>13, <2>1 DEF PickUncount, DeadStaysDead, task_vars
<1>14. CASE PickSkip(c)
  <2>1. \A x \in Threads : state'[x] \in {state[x], "freed"}
    BY Zenon, <1>14 DEF PickSkip, PickNone, FreeAll
  <2> QED BY Zenon, <1>14, <2>1 DEF PickSkip, DeadStaysDead, task_vars
<1>15. CASE LoadResume(c)
  <2>1. UNCHANGED <<state, tstate>>
    BY Zenon, <1>15 DEF LoadResume, thread_vars, task_vars
  <2> QED BY <2>1 DEF DeadStaysDead
<1>16. CASE LoadPreempt(c)
  <2>1. current[c] \in Threads /\ state[current[c]] = "RUNNING"
    BY Zenon, <1>16, ReapedIsListed DEF LoadPreempt, CurrentRuns, CurrentAt, InThread
  <2>2. \A x \in Threads : state[x] \in {"DEAD", "freed"} => state'[x] = state[x]
    BY Zenon, <1>16, <2>1 DEF LoadPreempt, ThreadTypes
  <2> QED BY Zenon, <1>16, <2>2 DEF LoadPreempt, DeadStaysDead, task_vars
<1>17. CASE LoadDead(c)
  <2>1. current[c] \in Threads /\ Unqueue(c, current[c], state)
    BY Zenon, <1>17, ReapedIsListed DEF LoadDead, Reap
  <2> QED BY SMTT(30), <2>1, UnqueueDead
<1>18. CASE LoopReapDying(c)
  <2> DEFINE st == [state EXCEPT ![sel[c]] = "DEAD"]
  <2>1. sel[c] \in Threads /\ In(sel[c], list[c]) /\ Unqueue(c, sel[c], st)
    BY Zenon, <1>18, ReapedIsListed DEF LoopReapDying, Reap
  <2>2. \A x \in Threads : st[x] = state[x] \/ (state[x] # "freed" /\ st[x] = "DEAD")
    BY Zenon, <2>1 DEF ThreadTypes, LinkedLive, Linked, Queued
  <2> HIDE DEF st
  <2> QED BY Zenon, <2>1, <2>2, UnqueueDead
<1>19. CASE LoopReapDead(c)
  <2>1. sel[c] \in Threads /\ Unqueue(c, sel[c], state)
    BY Zenon, <1>19, ReapedIsListed DEF LoopReapDead, Reap
  <2> QED BY <2>1, UnqueueDead
<1>20. CASE LoopSkip(c)
  <2>1. UNCHANGED <<state, tstate>>
    BY Zenon, <1>20 DEF LoopSkip, thread_vars, task_vars
  <2> QED BY <2>1 DEF DeadStaysDead
<1>21. CASE LoopSwitch(c)
  <2>1. \A x \in Threads : state[x] \in {"DEAD", "freed"} => state'[x] \in {state[x], "freed"}
    BY Zenon, <1>21 DEF LoopSwitch, RunThread, FreeAll, ThreadTypes
  <2> QED BY Zenon, <1>21, <2>1 DEF LoopSwitch, DeadStaysDead, task_vars
<1>22. CASE Uncount(c)
  <2>1. \A x \in Threads : state'[x] \in {state[x], "freed"}
    BY Zenon, <1>22 DEF Uncount, PickNone, FreeAll
  <2> QED BY Zenon, <1>22, <2>1 DEF Uncount, DeadStaysDead, task_vars
<1>23. CASE Other(c)
  <2>1. UNCHANGED <<state, tstate>>
    BY Zenon, <1>23 DEF Other, thread_vars, task_vars
  <2> QED BY <2>1 DEF DeadStaysDead
<1>24. CASE Yield(c)
  <2>1. UNCHANGED <<state, tstate>>
    BY Zenon, <1>24 DEF Yield, thread_vars, task_vars
  <2> QED BY <2>1 DEF DeadStaysDead
<1>25. CASE Exit(c)
  <2>1. CurrentTask(c) \in Tasks /\ tstate[CurrentTask(c)] # "DEAD"
    BY Zenon, <1>25, CurrentTaskLive DEF Exit
  <2> QED BY Zenon, <1>25, <2>1 DEF Exit, DeadStaysDead, TaskTypes, thread_vars
<1>26. CASE Fault(c)
  <2>1. CurrentTask(c) \in Tasks /\ tstate[CurrentTask(c)] # "DEAD"
    BY Zenon, <1>26, CurrentTaskLive DEF Fault
  <2> QED BY Zenon, <1>26, <2>1 DEF Fault, DeadStaysDead, TaskTypes, thread_vars
<1>27. CASE SyscallSpawn(c)
  BY Zenon, <1>27, SpawnChooseDead DEF SyscallSpawn
<1>28. ASSUME NEW t \in Threads, Kill(c, t) PROVE DeadStaysDead
  <2>1. CurrentTask(c) \in Tasks
    BY Zenon, <1>28, CurrentTaskLive DEF Kill
  <2>2. \A x \in Threads : In(x, refs[CurrentTask(c)]) => state[x] # "freed"
    BY Zenon, <2>1 DEF RefsLinked, LinkedLive
  <2>3. \A x \in Threads : state'[x] = state[x] \/ (state[x] # "freed" /\ state'[x] = "DEAD")
    BY Zenon, <1>28, <2>2 DEF Kill, ThreadTypes
  <2> QED BY Zenon, <1>28, <2>3 DEF Kill, DeadStaysDead, task_vars
<1>29. CASE Trap(c)
  <2>1. UNCHANGED <<state, tstate>>
    BY Zenon, <1>29 DEF Trap, thread_vars, task_vars
  <2> QED BY <2>1 DEF DeadStaysDead
<1>30. CASE TimerTrap(c)
  <2>1. UNCHANGED <<state, tstate>>
    BY Zenon, <1>30 DEF TimerTrap, thread_vars, task_vars
  <2> QED BY <2>1 DEF DeadStaysDead
<1>31. CASE TimerNested(c)
  <2>1. UNCHANGED <<state, tstate>>
    BY Zenon, <1>31 DEF TimerNested, thread_vars, task_vars
  <2> QED BY <2>1 DEF DeadStaysDead
<1> QED BY Zenon, <1>1, <1>2, <1>3, <1>4, <1>5, <1>6, <1>7, <1>8, <1>9, <1>10, <1>11, <1>12,
         <1>13, <1>14, <1>15, <1>16, <1>17, <1>18, <1>19, <1>20, <1>21, <1>22, <1>23,
         <1>24, <1>25, <1>26, <1>27, <1>28, <1>29, <1>30, <1>31
  DEF Step, Kernel, Spawning, Waiting, Loading, Handling, SystemCall, TimerInterrupt

(* A thread or task that died stays dead, and what was freed stays freed:  *)
(* no step of schedule(), schedule_thread or the system calls sets an      *)
(* older state.                                                            *)
THEOREM SchedulerDeathIsFinal == Spec => DeathIsFinal
<1>1. SInv /\ [Next]_vars => [DeadStaysDead]_vars
  <2>1. ASSUME SInv, Next PROVE DeadStaysDead \/ UNCHANGED vars
    BY <2>1, NextStep, DeadStaysDeadStep
  <2> QED BY <2>1
<1> QED BY <1>1, SchedulerInvariant, PTL DEF Spec, DeathIsFinal
=============================================================================
