------------------------ MODULE SchedulerTypesProofs ------------------------
(***************************************************************************)
(* Proofs about Scheduler, first part: the invariant SInv that the other   *)
(* parts rest on, facts about the lists of a runqueue, and the conjuncts   *)
(* of SInv about types, locks, threads being spawned and boot.             *)
(* SchedulerProofs has the other conjuncts and the theorems.               *)
(*                                                                         *)
(* Everything holds for any number of CPUs, threads, tasks and workloads.  *)
(***************************************************************************)
EXTENDS Scheduler, TLAPS

(* Types.  The states of a thread, and the places of the code, by what the *)
(* CPU holds there.                                                        *)
ThreadStates == {"none", "NEW", "READY", "RUNNING", "DEAD", "freed"}
InsertLabels == {"sp_try", "sp_move", "sp_acquire", "sp_insert"}
SpawnLabels == InsertLabels \cup {"sp_count", "sp_ready"}
LockLabels == {"wait", "pick", "pick_uncount", "kernel", "load", "loop", "uncount"}
Labels == SpawnLabels \cup LockLabels
            \cup {"boot", "start", "enter", "sleep", "user", "exited"}

(* The types of the variables, by what they belong to. *)
ThreadTypes ==
    /\ state \in [Threads -> ThreadStates]
    /\ owner \in [Threads -> Tasks]
    /\ sched_cpu \in [Threads -> CPUS \cup {NoCpu}]
    /\ next_uid \in Nat \ {0}
TaskTypes ==
    /\ tstate \in [Tasks -> {"NEW", "DYING", "DEAD"}]
    /\ refs \in [Tasks -> Seq(Threads)]
    /\ per_cpu \in [Tasks -> [CPUS -> Int]]
QueueTypes ==
    /\ list \in [CPUS -> Seq(Threads)]
    /\ counts \in [CPUS -> Int]
TimerTypes ==
    /\ required \in [CPUS -> BOOLEAN]
    /\ pend \in [CPUS -> Nat]
    /\ handle \in [CPUS -> BOOLEAN]
LoopTypes ==
    /\ sel \in [CPUS -> Threads \cup {NoThread}]
    /\ start \in [CPUS -> Threads \cup {NoThread}]
    /\ tofree \in [CPUS -> SUBSET Threads]
    /\ entered \in [CPUS -> BOOLEAN]
    /\ mapping \in [CPUS -> Tasks \cup {NoTask}]
SpawnTypes ==
    spawn \in [CPUS -> [th : Threads \cup {NoThread}, rq : CPUS \cup {NoCpu}, boot : BOOLEAN]]
CpuTypes ==
    /\ current \in [CPUS -> Threads \cup {NoThread}]
    /\ lock \in [CPUS -> CPUS \cup {NoCpu}]
    /\ pc \in [CPUS -> Labels]
    /\ ready \in SUBSET CPUS
    /\ total \in Int
    /\ load \in Workloads

TypeOK == /\ ThreadTypes /\ TaskTypes /\ QueueTypes /\ TimerTypes /\ LoopTypes /\ SpawnTypes
          /\ CpuTypes

(* CPU c runs a thread, in user mode or in a system call. *)
InThread(c) == pc[c] \in {"user", "kernel", "load"} \/ (pc[c] \in SpawnLabels /\ ~spawn[c].boot)

(* Who holds which runqueue lock: schedule() and a system call hold the    *)
(* lock of the own CPU, and schedule_thread that of the runqueue it        *)
(* inserts into.  A runqueue is changed under its lock only, which is what *)
(* keeps it the same under the feet of a loop over it.                     *)
LocksHeld ==
    \A c \in CPUS :
        /\ pc[c] \in LockLabels => lock[c] = c
        /\ pc[c] \in SpawnLabels /\ ~spawn[c].boot => lock[c] = c
        /\ pc[c] = "sp_insert" => lock[spawn[c].rq] = c

(* A thread being spawned belongs to one CPU, which has chosen a runqueue  *)
(* for it; schedule_thread waits only for the lock of its own CPU          *)
(* ("sp_acquire") and gives up on others ("sp_move").                      *)
SpawnsApart ==
    /\ \A c \in CPUS : IF pc[c] \in SpawnLabels
                       THEN spawn[c].th \in Threads /\ spawn[c].rq \in CPUS
                       ELSE spawn[c] = NoSpawn
    /\ \A c \in CPUS : /\ pc[c] = "sp_acquire" => spawn[c].rq = c
                       /\ pc[c] = "sp_move" => spawn[c].rq # c
    /\ \A c, d \in CPUS : spawn[c].th = spawn[d].th /\ spawn[c].th # NoThread => c = d

(* Thread t is in a runqueue or on its way into one. *)
Linked(t) == Queued(t) \/ InFlight(t)

(* No two nodes of a list are the same thread. *)
Unique(s) == \A i, j \in DOMAIN s : s[i] = s[j] => i = j

(* A thread is linked once, in the runqueue its sched_cpu names; one on    *)
(* its way into a runqueue is in none.                                     *)
ListsOnce ==
    /\ \A c \in CPUS : Unique(list[c])
    /\ \A t \in Threads, c \in CPUS : In(t, list[c]) => sched_cpu[t] = c
    /\ \A t \in Threads : InFlight(t) => ~Queued(t)

(* The references of a task are its threads that are linked, once each; a  *)
(* dead task has none left.                                                *)
RefsLinked ==
    /\ \A k \in Tasks : Unique(refs[k])
    /\ \A t \in Threads, k \in Tasks : In(t, refs[k]) <=> Linked(t) /\ owner[t] = k
    /\ \A k \in Tasks : tstate[k] = "DEAD" => refs[k] = <<>>

(* A linked thread is allocated, ids not given out are unused, and what    *)
(* schedule() is going to free is dead and linked nowhere.                 *)
LinkedLive ==
    /\ \A t \in Threads : Linked(t) => state[t] \notin {"none", "freed"}
    /\ \A t \in Threads : state[t] = "none" <=> t >= next_uid
    /\ \A c \in CPUS : \A t \in tofree[c] : state[t] \in {"DEAD", "freed"} /\ ~Linked(t)
    /\ \A c \in CPUS : spawn[c].th < next_uid

(* The current thread of CPU c is in its runqueue.  While the CPU runs it, *)
(* it is running or was killed; once schedule() looks for another, it is   *)
(* not running.                                                            *)
CurrentAt(c) ==
    /\ current[c] # NoThread =>
          In(current[c], list[c]) /\ (InThread(c) \/ pc[c] \in {"loop", "uncount"})
    /\ InThread(c) => current[c] # NoThread /\ state[current[c]] \in {"RUNNING", "DEAD"}
    /\ pc[c] \in {"loop", "uncount"} /\ current[c] # NoThread => state[current[c]] # "RUNNING"

(* Every CPU is so, and a running thread is the current one of a CPU. *)
CurrentRuns ==
    /\ \A c \in CPUS : CurrentAt(c)
    /\ \A t \in Threads : state[t] = "RUNNING" => \E c \in CPUS : current[c] = t

(* The node a loop over runqueue c looks at is in the list. *)
SelAt(c) ==
    /\ pc[c] \in {"pick", "loop"} => In(sel[c], list[c])
    /\ pc[c] = "uncount" /\ list[c] # <<>> => In(sel[c], list[c])
    /\ pc[c] = "pick_uncount" /\ sel[c] # NoThread => In(sel[c], list[c])
SelLinked == \A c \in CPUS : SelAt(c)

(* Until CPU 0 is ready, it starts the first threads and the others wait;  *)
(* no task is dead before.                                                 *)
BootFirst ==
    /\ \A c \in CPUS : pc[c] = "boot" \/ spawn[c].boot => c = 0 /\ 0 \notin ready
    /\ pc[0] = "start" => 0 \notin ready
    /\ 0 \notin ready => /\ pc[0] \in {"boot", "start"} \/ spawn[0].boot
                         /\ \A c \in CPUS \ {0} : pc[c] \in {"start", "enter"}
                         /\ \A k \in Tasks : tstate[k] # "DEAD"

(* The inductive invariant.  The properties are in it                      *)
(* (HandleNamesPendingEvent, OwnAddressSpace) or follow from it; the other *)
(* conjuncts are what their proofs need.                                   *)
SInv == /\ TypeOK /\ LocksHeld /\ SpawnsApart /\ ListsOnce /\ RefsLinked /\ LinkedLive
        /\ CurrentRuns /\ SelLinked /\ BootFirst /\ HandleNamesPendingEvent /\ OwnAddressSpace

---------------------------------------------------------------------------
(* What SchedulerAssumption says of the sets and of the workloads, in the  *)
(* form the proofs use.                                                    *)
LEMMA Constants ==
    /\ 0 \in CPUS /\ CPUS \subseteq Int /\ NoCpu \notin CPUS /\ NoCpu \in Int
    /\ Threads \subseteq Nat \ {0} /\ NoThread \notin Threads /\ NoThread = 0
    /\ \A w \in Workloads : /\ w.threads \in Nat
                            /\ \A t \in 1 .. w.threads : t \in Threads
                            /\ 1 \in 1 .. Len(w.tasks)
                            /\ Len(w.tasks) \in Nat
                            /\ \A i \in 1 .. Len(w.tasks) : w.tasks[i] \in Tasks
<1>1. 0 \in CPUS /\ CPUS \subseteq Int /\ NoCpu \notin CPUS /\ NoCpu \in Int
  BY SchedulerAssumption DEF CPUS, NoCpu
<1>2. Threads \subseteq Nat \ {0} /\ NoThread \notin Threads /\ NoThread = 0
  BY SchedulerAssumption DEF Threads, NoThread
<1>3. ASSUME NEW w \in Workloads
      PROVE  /\ w.threads \in Nat
             /\ \A t \in 1 .. w.threads : t \in Threads
             /\ 1 \in 1 .. Len(w.tasks)
             /\ Len(w.tasks) \in Nat
             /\ \A i \in 1 .. Len(w.tasks) : w.tasks[i] \in Tasks
  <2>1. w.threads \in Nat /\ \A t \in 1 .. w.threads : t \in Threads
    BY Zenon, SchedulerAssumption DEF Threads
  <2>2. PICK S : w.tasks \in Seq(S)
    BY Zenon, SchedulerAssumption
  <2>3. Len(w.tasks) \in Nat /\ DOMAIN w.tasks = 1 .. Len(w.tasks)
    BY <2>2
  <2>4. \A i \in 1 .. Len(w.tasks) : w.tasks[i] \in Tasks
    BY <2>3 DEF Tasks
  <2>5. Len(w.tasks) \in 1 .. w.threads
    BY Zenon, SchedulerAssumption
  <2>6. 1 \in 1 .. Len(w.tasks)
    BY <2>1, <2>3, <2>5
  <2> QED BY <2>1, <2>3, <2>4, <2>6
<1> QED BY <1>1, <1>2, <1>3

(* Position finds a thread that is in a list. *)
LEMMA PositionIn ==
    ASSUME NEW S, NEW s \in Seq(S), NEW t, In(t, s)
    PROVE  Position(s, t) \in 1 .. Len(s) /\ s[Position(s, t)] = t
BY DEF In, Position

(* Unlinking a node (unqueue_thread) keeps the other nodes, each once. *)
LEMMA WithoutProperties ==
    ASSUME NEW S, NEW s \in Seq(S), NEW t
    PROVE  /\ Without(s, t) \in Seq(S)
           /\ Len(Without(s, t)) = IF In(t, s) THEN Len(s) - 1 ELSE Len(s)
           /\ Unique(s) => Unique(Without(s, t))
           /\ Unique(s) => \A e : In(e, Without(s, t)) <=> In(e, s) /\ e # t
<1>1. CASE ~In(t, s)
  BY <1>1 DEF Without, In
<1>2. CASE In(t, s)
  <2> DEFINE i == Position(s, t)
             r == Without(s, t)
  <2>1. i \in 1 .. Len(s) /\ s[i] = t
    BY <1>2, PositionIn
  <2>2. r = SubSeq(s, 1, i - 1) \o SubSeq(s, i + 1, Len(s))
    BY Zenon, <1>2 DEF Without
  <2> HIDE DEF r, i
  <2> DEFINE a == SubSeq(s, 1, i - 1)
             b == SubSeq(s, i + 1, Len(s))
  <2>a. /\ a \in Seq(S) /\ Len(a) = i - 1
        /\ \A j \in 1 .. i - 1 : a[j] = s[j]
    BY <2>1
  <2>b. /\ b \in Seq(S) /\ Len(b) = Len(s) - i
        /\ \A j \in 1 .. Len(s) - i : b[j] = s[j + i]
    BY <2>1
  <2> HIDE DEF a, b
  <2>c. r = a \o b
    BY <2>2 DEF a, b
  <2>3. r \in Seq(S) /\ Len(r) = Len(s) - 1
    BY <2>1, <2>a, <2>b, <2>c
  <2>4. \A j \in 1 .. Len(r) : r[j] = s[IF j < i THEN j ELSE j + 1]
    BY SMTT(30), <2>1, <2>3, <2>a, <2>b, <2>c
  <2>5. ASSUME Unique(s) PROVE Unique(r)
    <3>1. SUFFICES ASSUME NEW p \in 1 .. Len(r), NEW q \in 1 .. Len(r), r[p] = r[q]
                   PROVE  p = q
      BY <2>3 DEF Unique
    <3> DEFINE from(j) == IF j < i THEN j ELSE j + 1
    <3>2. from(p) \in DOMAIN s /\ from(q) \in DOMAIN s /\ s[from(p)] = s[from(q)]
      BY <2>1, <2>3, <2>4, <3>1
    <3>3. from(p) = from(q)
      BY ONLY <2>5, <3>2 DEF Unique
    <3> QED BY <3>3, <2>1, <2>3
  <2>6. ASSUME Unique(s), NEW e
        PROVE  In(e, r) <=> In(e, s) /\ e # t
    <3>1. ASSUME In(e, r) PROVE In(e, s) /\ e # t
      BY SMTT(30), <2>1, <2>3, <2>4, <2>6, <3>1 DEF Unique, In
    <3>2. ASSUME In(e, s), e # t PROVE In(e, r)
      <4>1. PICK j \in 1 .. Len(s) : s[j] = e
        BY <3>2 DEF In
      <4>2. j # i
        BY <4>1, <3>2, <2>1
      <4>3. CASE j < i
        <5>1. j \in 1 .. Len(r) /\ r[j] = e
          BY <4>1, <4>3, <2>1, <2>3, <2>4
        <5> QED BY <5>1, <2>3 DEF In
      <4>4. CASE j > i
        <5>1. j - 1 \in 1 .. Len(r) /\ r[j - 1] = e
          BY SMTT(30), <4>1, <4>4, <2>1, <2>3, <2>4
        <5> QED BY <5>1, <2>3 DEF In
      <4> QED BY <4>2, <4>3, <4>4, <2>1
    <3> QED BY <3>1, <3>2
  <2> QED BY <1>2, <2>3, <2>5, <2>6 DEF r
<1> QED BY <1>1, <1>2

(* Linking a node at the end of a list (schedule_thread) adds this thread  *)
(* only.                                                                   *)
LEMMA AppendIn ==
    ASSUME NEW S, NEW s \in Seq(S), NEW t \in S
    PROVE  /\ Append(s, t) \in Seq(S)
           /\ Append(s, t) # <<>>
           /\ Len(Append(s, t)) = Len(s) + 1
           /\ \A e : In(e, Append(s, t)) <=> In(e, s) \/ e = t
           /\ Unique(s) /\ ~In(t, s) => Unique(Append(s, t))
<1>1. /\ Append(s, t) \in Seq(S) /\ Len(Append(s, t)) = Len(s) + 1
      /\ \A i \in 1 .. Len(s) + 1 : Append(s, t)[i] = IF i = Len(s) + 1 THEN t ELSE s[i]
  OBVIOUS
<1>2. \A e : In(e, Append(s, t)) <=> In(e, s) \/ e = t
  BY <1>1 DEF In
<1>3. Unique(s) /\ ~In(t, s) => Unique(Append(s, t))
  BY <1>1 DEF In, Unique
<1> QED BY <1>1, <1>2, <1>3

(* Linking a node at the head of a list (the references of a task) adds    *)
(* this thread only.                                                       *)
LEMMA ConsIn ==
    ASSUME NEW S, NEW s \in Seq(S), NEW t \in S
    PROVE  /\ <<t>> \o s \in Seq(S)
           /\ \A e : In(e, <<t>> \o s) <=> In(e, s) \/ e = t
           /\ Unique(s) /\ ~In(t, s) => Unique(<<t>> \o s)
<1> DEFINE r == <<t>> \o s
<1>1. /\ r \in Seq(S) /\ Len(r) = Len(s) + 1
      /\ \A i \in 1 .. Len(s) + 1 : r[i] = IF i = 1 THEN t ELSE s[i - 1]
  OBVIOUS
<1> HIDE DEF r
<1>2. r[1] = t /\ \A i \in 1 .. Len(s) : r[i + 1] = s[i]
  BY <1>1
<1>3. \A e : In(e, r) <=> In(e, s) \/ e = t
  <2>1. ASSUME NEW e, In(e, s) PROVE In(e, r)
    <3>1. PICK i \in 1 .. Len(s) : s[i] = e
      BY <2>1 DEF In
    <3>2. i + 1 \in DOMAIN r /\ r[i + 1] = e
      BY <3>1, <1>1, <1>2
    <3> QED BY <3>2 DEF In
  <2>2. In(t, r)
    BY <1>1, <1>2 DEF In
  <2>3. ASSUME NEW e, In(e, r) PROVE In(e, s) \/ e = t
    <3>1. PICK i \in 1 .. Len(s) + 1 : r[i] = e
      BY <2>3, <1>1 DEF In
    <3>2. CASE i = 1
      BY <3>1, <3>2, <1>2
    <3>3. CASE i # 1
      <4>1. i - 1 \in DOMAIN s /\ s[i - 1] = e
        BY <3>1, <3>3, <1>1
      <4> QED BY <4>1 DEF In
    <3> QED BY <3>2, <3>3
  <2> QED BY <2>1, <2>2, <2>3
<1>4. ASSUME Unique(s), ~In(t, s) PROVE Unique(r)
  <2>1. SUFFICES ASSUME NEW p \in 1 .. Len(s) + 1, NEW q \in 1 .. Len(s) + 1, r[p] = r[q], p < q
                 PROVE  FALSE
    BY <1>1 DEF Unique
  <2>2. q - 1 \in DOMAIN s /\ s[q - 1] = r[q]
    BY <2>1, <1>1
  <2>3. p # 1
    BY <2>1, <2>2, <1>2, <1>4 DEF In
  <2>4. p - 1 \in DOMAIN s /\ s[p - 1] = r[p]
    BY <2>1, <2>3, <1>1
  <2> QED BY <2>1, <2>2, <2>4, <1>4 DEF Unique
<1> QED BY <1>1, <1>3, <1>4 DEF r

(* The next node of a runqueue, around its end, is a node of it. *)
LEMMA NextNodeIn ==
    ASSUME NEW S, NEW s \in Seq(S), NEW t, In(t, s)
    PROVE  In(NextNode(s, t), s) /\ NextNode(s, t) \in S
<1> DEFINE i == Position(s, t)
<1>1. i \in 1 .. Len(s)
  BY PositionIn
<1> HIDE DEF i
<1>2. (i % Len(s)) + 1 \in 1 .. Len(s)
  BY <1>1
<1>3. NextNode(s, t) = s[(i % Len(s)) + 1]
  BY DEF NextNode, i
<1> QED BY <1>2, <1>3 DEF In

(* The first node of a list is in it. *)
LEMMA HeadIn ==
    ASSUME NEW S, NEW s \in Seq(S), s # <<>>
    PROVE  In(Head(s), s) /\ Head(s) \in S
<1>1. Len(s) \in Nat \ {0} /\ Head(s) = s[1]
  OBVIOUS
<1> QED BY <1>1 DEF In

---------------------------------------------------------------------------
(* unqueue_thread *)

(* unqueue_thread as seen from the lists: either t leaves runqueue c ... *)
Keeps(c, t) == list' = [list EXCEPT ![c] = Without(@, t)] /\ UNCHANGED sched_cpu

(* ... and nothing else happens, or try_balance_task also moves thread w   *)
(* from runqueue v to c.  It holds the lock of v, and w is not the current *)
(* thread of v.                                                            *)
Moves(c, t, v, w) ==
    /\ v # c /\ lock[v] = NoCpu /\ current[v] # w /\ In(w, list[v])
    /\ list' = [list EXCEPT ![c] = Append(Without(list[c], t), w), ![v] = Without(list[v], w)]
    /\ sched_cpu' = [sched_cpu EXCEPT ![w] = c]

(* unqueue_thread does one of the two: what find_thread_to_balance names   *)
(* is taken only under the lock of its runqueue and not while it runs.     *)
LEMMA UnqueueCases ==
    ASSUME QueueTypes, NEW c \in CPUS, NEW t, NEW st, lock[c] = c, Unqueue(c, t, st)
    PROVE  Keeps(c, t) \/ \E v \in CPUS, w \in Threads : Moves(c, t, v, w)
<1> DEFINE k == owner[t]
           rs == Without(refs[k], t)
           ls == [list EXCEPT ![c] = Without(@, t)]
           n == [per_cpu[k] EXCEPT ![sched_cpu[t]] = @ - 1]
           steals(v, w) == /\ n[v] - n[c] > 1 /\ VictimFree(v)
                           /\ w # NoThread /\ Stealable(v, w, st)
                           /\ In(w, list[v])
<1>1. PICK v \in CPUS, w \in Threads \cup {NoThread} :
         IF steals(v, w)
         THEN /\ list' = [ls EXCEPT ![v] = Without(@, w), ![c] = Append(@, w)]
              /\ sched_cpu' = [sched_cpu EXCEPT ![w] = c]
         ELSE list' = ls /\ UNCHANGED sched_cpu
  BY ZenonT(30) DEF Unqueue
<1> HIDE DEF n, rs
<1>2. CASE ~steals(v, w)
  BY <1>1, <1>2 DEF Keeps
<1>3. CASE steals(v, w)
  <2>1. v # c /\ w \in Threads /\ current[v] # w /\ lock[v] = NoCpu
    BY <1>3, Constants DEF VictimFree, Stealable
  <2>2. list' = [list EXCEPT ![c] = Append(Without(list[c], t), w), ![v] = Without(list[v], w)]
    BY <1>1, <1>3, <2>1 DEF QueueTypes
  <2>3. Moves(c, t, v, w)
    BY <1>1, <1>3, <2>1, <2>2 DEF Moves
  <2> QED BY <2>1, <2>3
<1> QED BY <1>2, <1>3

(* After unqueue_thread every thread but t is in one runqueue, the one its *)
(* sched_cpu names; runqueues that another CPU has locked, and the place   *)
(* of a current thread, are kept.                                          *)
LEMMA UnqueueLists ==
    ASSUME ThreadTypes, QueueTypes, ListsOnce, NEW c \in CPUS, NEW t \in Threads, In(t, list[c]),
           Keeps(c, t) \/ \E v \in CPUS, w \in Threads : Moves(c, t, v, w)
    PROVE  /\ list' \in [CPUS -> Seq(Threads)]
           /\ sched_cpu' \in [Threads -> CPUS \cup {NoCpu}]
           /\ \A d \in CPUS : Unique(list'[d])
           /\ \A x \in Threads, d \in CPUS : In(x, list'[d]) => x # t /\ sched_cpu'[x] = d
           /\ \A x \in Threads : Queued(x)' <=> Queued(x) /\ x # t
           /\ \A x \in Threads : In(x, list[c]) /\ x # t => In(x, list'[c])
           /\ \A d \in CPUS \ {c} : lock[d] # NoCpu => list'[d] = list[d]
           /\ \A d \in CPUS \ {c} :
                 current[d] \in Threads /\ In(current[d], list[d]) => In(current[d], list'[d])
<1>1. /\ list \in [CPUS -> Seq(Threads)]
      /\ sched_cpu \in [Threads -> CPUS \cup {NoCpu}]
      /\ \A d \in CPUS : Unique(list[d])
      /\ \A x \in Threads, d \in CPUS : In(x, list[d]) => sched_cpu[x] = d
  BY DEF ThreadTypes, QueueTypes, ListsOnce
<1> DEFINE lc == Without(list[c], t)
<1>2. /\ lc \in Seq(Threads) /\ Unique(lc)
      /\ \A x \in Threads : In(x, lc) <=> In(x, list[c]) /\ x # t
  BY <1>1, WithoutProperties
<1> HIDE DEF lc
<1>3. CASE Keeps(c, t)
  <2>1. sched_cpu' = sched_cpu /\ list' \in [CPUS -> Seq(Threads)]
    BY <1>1, <1>2, <1>3 DEF Keeps, lc
  <2>2. \A d \in CPUS : list'[d] = IF d = c THEN lc ELSE list[d]
    BY <1>1, <1>3 DEF Keeps, lc
  <2>3. \A d \in CPUS : Unique(list'[d])
    BY <1>1, <1>2, <2>2
  <2>4. \A x \in Threads, d \in CPUS : In(x, list'[d]) <=> In(x, list[d]) /\ x # t
    BY <1>1, <1>2, <2>2
  <2>5. \A x \in Threads : Queued(x)' <=> Queued(x) /\ x # t
    BY <2>4 DEF Queued
  <2>6. \A d \in CPUS \ {c} : list'[d] = list[d]
    BY <2>2
  <2> QED BY <1>1, <2>1, <2>3, <2>4, <2>5, <2>6
<1>4. ASSUME NEW v \in CPUS, NEW w \in Threads, Moves(c, t, v, w)
      PROVE  /\ list' \in [CPUS -> Seq(Threads)]
             /\ sched_cpu' \in [Threads -> CPUS \cup {NoCpu}]
             /\ \A d \in CPUS : Unique(list'[d])
             /\ \A x \in Threads, d \in CPUS : In(x, list'[d]) => x # t /\ sched_cpu'[x] = d
             /\ \A x \in Threads : Queued(x)' <=> Queued(x) /\ x # t
             /\ \A x \in Threads : In(x, list[c]) /\ x # t => In(x, list'[c])
             /\ \A d \in CPUS \ {c} : lock[d] # NoCpu => list'[d] = list[d]
             /\ \A d \in CPUS \ {c} :
                   current[d] \in Threads /\ In(current[d], list[d]) => In(current[d], list'[d])
  <2> DEFINE lv == Without(list[v], w)
             lw == Append(lc, w)
  <2>1. v # c /\ In(w, list[v]) /\ sched_cpu' = [sched_cpu EXCEPT ![w] = c]
    BY <1>4 DEF Moves
  <2>2. w # t /\ ~In(w, list[c])
    BY <1>1, <2>1
  <2>3. /\ lv \in Seq(Threads) /\ Unique(lv)
        /\ \A x \in Threads : In(x, lv) <=> In(x, list[v]) /\ x # w
    BY <1>1, WithoutProperties
  <2>4. /\ lw \in Seq(Threads) /\ Unique(lw)
        /\ \A x \in Threads : In(x, lw) <=> In(x, lc) \/ x = w
    BY <1>2, <2>2, AppendIn
  <2> HIDE DEF lv, lw
  <2>a. list' = [list EXCEPT ![c] = lw, ![v] = lv]
    BY <1>4 DEF Moves, lc, lv, lw
  <2>5. /\ list' \in [CPUS -> Seq(Threads)]
        /\ list'[c] = lw /\ list'[v] = lv
        /\ \A d \in CPUS \ {c, v} : list'[d] = list[d]
    BY <1>1, <2>1, <2>3, <2>4, <2>a
  <2>6. ASSUME NEW d \in CPUS PROVE Unique(list'[d])
    <3>1. CASE d \in {c, v}
      BY <2>3, <2>4, <2>5, <3>1
    <3>2. CASE d \notin {c, v}
      BY <1>1, <2>5, <3>2
    <3> QED BY <3>1, <3>2
  <2>7. ASSUME NEW x \in Threads, NEW d \in CPUS
        PROVE  In(x, list'[d]) <=> IF x = w THEN d = c ELSE In(x, list[d]) /\ x # t
    <3>1. CASE d = c
      BY <1>2, <2>2, <2>4, <2>5, <3>1
    <3>2. CASE d = v
      BY <1>1, <2>1, <2>2, <2>3, <2>5, <3>2
    <3>3. CASE d \notin {c, v}
      BY <1>1, <2>1, <2>5, <3>3
    <3> QED BY <3>1, <3>2, <3>3
  <2>8. \A x \in Threads : Queued(x)' <=> Queued(x) /\ x # t
    BY <2>1, <2>2, <2>7 DEF Queued
  <2>9. \A x \in Threads : sched_cpu'[x] = IF x = w THEN c ELSE sched_cpu[x]
    BY <1>1, <2>1
  <2>10. \A d \in CPUS \ {c} : lock[d] # NoCpu => list'[d] = list[d]
    BY Zenon, <1>4, <2>5 DEF Moves
  <2>11. \A d \in CPUS \ {c} :
           current[d] \in Threads /\ In(current[d], list[d]) => In(current[d], list'[d])
    <3>1. current[v] # w
      BY SMTT(30), <1>4 DEF Moves
    <3>2. ASSUME NEW d \in CPUS \ {c}, current[d] \in Threads, In(current[d], list[d])
          PROVE  In(current[d], list'[d])
      <4>1. current[d] # t
        BY <1>1, <3>2
      <4>2. current[d] # w
        BY <1>1, <2>1, <3>1, <3>2
      <4> QED BY <2>7, <3>2, <4>1, <4>2
    <3> QED BY <3>2
  <2>12. \A x \in Threads : In(x, list[c]) /\ x # t => In(x, list'[c])
    BY <2>7
  <2>13. \A x \in Threads, d \in CPUS : In(x, list'[d]) => x # t /\ sched_cpu'[x] = d
    BY <1>1, <2>2, <2>7, <2>9
  <2>14. sched_cpu' \in [Threads -> CPUS \cup {NoCpu}]
    BY <1>1, <2>1
  <2> QED BY Zenon, <2>5, <2>6, <2>8, <2>10, <2>11, <2>12, <2>13, <2>14
<1> QED BY Zenon, <1>3, <1>4

---------------------------------------------------------------------------
(* The steps preserve the invariant. *)

(* A step of the code that CPU c runs. *)
Step(c) == Kernel(c) \/ SystemCall(c) \/ TimerInterrupt(c)

(* The thread schedule() reaps is in the runqueue of the CPU, whose lock   *)
(* is held: current, or the node the loop looks at.                        *)
LEMMA ReapedIsListed ==
    ASSUME SInv, NEW c \in CPUS
    PROVE  /\ pc[c] \in {"pick", "loop"} =>
                 sel[c] \in Threads /\ In(sel[c], list[c]) /\ lock[c] = c /\ sched_cpu[sel[c]] = c
           /\ pc[c] = "load" =>
                 current[c] \in Threads /\ In(current[c], list[c]) /\ lock[c] = c /\ sched_cpu[current[c]] = c
<1>1. \A x : In(x, list[c]) => x \in Threads
  BY DEF SInv, TypeOK, QueueTypes, In
<1> QED BY ZenonT(30), <1>1 DEF SInv, SelLinked, SelAt, CurrentRuns, CurrentAt, LocksHeld, LockLabels, ListsOnce, InThread

(* unqueue_thread keeps the types of threads, tasks and runqueues. *)
LEMMA UnqueueTypes ==
    ASSUME SInv, NEW c \in CPUS, NEW t \in Threads, In(t, list[c]), lock[c] = c, sched_cpu[t] = c,
           NEW st \in [Threads -> ThreadStates], Unqueue(c, t, st), UNCHANGED <<owner, next_uid>>
    PROVE  ThreadTypes' /\ TaskTypes' /\ QueueTypes'
<1> DEFINE k == owner[t]
           n == [per_cpu[k] EXCEPT ![sched_cpu[t]] = @ - 1]
           g == [counts EXCEPT ![c] = @ - 1]
<1> USE DEF SInv, TypeOK
<1>1. list' \in [CPUS -> Seq(Threads)] /\ sched_cpu' \in [Threads -> CPUS \cup {NoCpu}]
  BY Zenon, UnqueueCases, UnqueueLists
<1>2. k \in Tasks
  BY DEF ThreadTypes
<1>3. n \in [CPUS -> Int] /\ g \in [CPUS -> Int]
  BY SMTT(30), <1>2 DEF TaskTypes, QueueTypes
<1>4. Without(refs[k], t) \in Seq(Threads)
  BY SMTT(30), <1>2, WithoutProperties DEF TaskTypes
<1>5. /\ state' = st
      /\ refs' = [refs EXCEPT ![k] = Without(refs[k], t)]
      /\ tstate' = [tstate EXCEPT ![k] = IF Without(refs[k], t) = <<>> THEN "DEAD" ELSE @]
  BY Zenon DEF Unqueue
<1>6. PICK v \in CPUS :
         \/ /\ counts' = [g EXCEPT ![v] = @ - 1, ![c] = @ + 1]
            /\ per_cpu' = [per_cpu EXCEPT ![k] = [n EXCEPT ![v] = @ - 1, ![c] = @ + 1]]
         \/ counts' = g /\ per_cpu' = [per_cpu EXCEPT ![k] = n]
  BY ZenonT(30) DEF Unqueue
<1> HIDE DEF n, g, k
<1>7. counts' \in [CPUS -> Int] /\ per_cpu' \in [Tasks -> [CPUS -> Int]]
  <2>1. per_cpu \in [Tasks -> [CPUS -> Int]]
    BY SMTT(30) DEF TaskTypes
  <2> QED BY ONLY SMTT(30), <1>2, <1>3, <1>6, <2>1, c \in CPUS
<1>8. tstate' \in [Tasks -> {"NEW", "DYING", "DEAD"}] /\ refs' \in [Tasks -> Seq(Threads)]
  BY Zenon, <1>2, <1>4, <1>5 DEF TaskTypes
<1>9. ThreadTypes'
  BY Zenon, <1>1, <1>5 DEF ThreadTypes
<1> QED BY Zenon, <1>1, <1>7, <1>8, <1>9 DEF TaskTypes, QueueTypes

(* thread_create and the choice of a runqueue keep the types. *)
LEMMA SpawnChooseTypes ==
    ASSUME SInv, NEW c \in CPUS, NEW k \in Tasks, NEW b, SpawnChoose(c, k, b)
    PROVE  ThreadTypes' /\ TaskTypes' /\ QueueTypes'
<1> USE DEF SInv, TypeOK
<1>1. next_uid \in Threads
  BY SMTT(30), Constants DEF SpawnChoose, CpuTypes, ThreadTypes
<1>2. PICK i \in CPUS : /\ sched_cpu' = [sched_cpu EXCEPT ![next_uid] = i]
                        /\ per_cpu' = [per_cpu EXCEPT ![k][i] = @ + 1]
  BY Zenon DEF SpawnChoose
<1>3. ThreadTypes'
  BY SMTT(30), <1>1, <1>2 DEF SpawnChoose, ThreadTypes, ThreadStates
<1>4. refs' \in [Tasks -> Seq(Threads)]
  <2>1. refs' = [refs EXCEPT ![k] = <<next_uid>> \o refs[k]] /\ refs \in [Tasks -> Seq(Threads)]
    BY Zenon DEF SpawnChoose, TaskTypes
  <2>2. <<next_uid>> \o refs[k] \in Seq(Threads)
    BY <2>1, <1>1, ConsIn
  <2> QED BY <2>1, <2>2
<1>5. per_cpu' \in [Tasks -> [CPUS -> Int]]
  BY <1>2 DEF TaskTypes
<1>6. TaskTypes' /\ QueueTypes'
  BY Zenon, <1>4, <1>5 DEF SpawnChoose, TaskTypes, QueueTypes, queue_vars
<1> QED BY <1>3, <1>6

(* Every step keeps the types of threads, tasks and runqueues. *)
LEMMA ListTypesInv ==
    ASSUME SInv, NEW c \in CPUS, Step(c)
    PROVE  ThreadTypes' /\ TaskTypes' /\ QueueTypes'
<1> USE DEF SInv, TypeOK
<1>1. CASE SpawnTry(c)
  BY Zenon, <1>1 DEF SpawnTry,
         ThreadTypes, TaskTypes, QueueTypes, ThreadStates, FreeAll, thread_vars, task_vars, queue_vars
<1>2. CASE SpawnMove(c)
  <2>1. spawn[c].th \in Threads /\ spawn[c].rq \in CPUS
    BY Zenon, <1>2 DEF SpawnMove, SpawnsApart, SpawnLabels, InsertLabels
  <2>2. owner[spawn[c].th] \in Tasks
    BY <2>1 DEF ThreadTypes
  <2>3. per_cpu' \in [Tasks -> [CPUS -> Int]]
    <3> DEFINE k == owner[spawn[c].th]
    <3>1. /\ per_cpu' = [per_cpu EXCEPT ![k][spawn[c].rq] = @ - 1, ![k][c] = @ + 1]
          /\ per_cpu \in [Tasks -> [CPUS -> Int]]
      BY Zenon, <1>2 DEF SpawnMove, TaskTypes
    <3>2. k \in Tasks
      BY <2>2
    <3> HIDE DEF k
    <3> QED BY ONLY SMTT(30), <2>1, <3>1, <3>2, c \in CPUS
  <2> QED BY Zenon, <1>2, <2>3
      DEF SpawnMove, ThreadTypes, TaskTypes, QueueTypes, thread_vars, queue_vars
<1>3. CASE SpawnAcquire(c)
  BY Zenon, <1>3 DEF SpawnAcquire,
         ThreadTypes, TaskTypes, QueueTypes, ThreadStates, FreeAll, thread_vars, task_vars, queue_vars
<1>4. CASE SpawnInsert(c)
  <2>1. spawn[c].th \in Threads /\ spawn[c].rq \in CPUS
    BY Zenon, <1>4 DEF SpawnInsert, SpawnsApart, SpawnLabels, InsertLabels
  <2>2. Append(list[spawn[c].rq], spawn[c].th) \in Seq(Threads)
    BY ZenonT(30), <2>1, AppendIn DEF QueueTypes
  <2>3. QueueTypes'
    BY SMTT(30), <1>4, <2>1, <2>2 DEF SpawnInsert, QueueTypes
  <2>4. ThreadTypes' /\ TaskTypes'
    BY Zenon, <1>4, <2>1 DEF SpawnInsert, ThreadTypes, TaskTypes, task_vars
  <2> QED BY <2>3, <2>4
<1>5. CASE SpawnCount(c)
  BY <1>5 DEF SpawnCount,
         ThreadTypes, TaskTypes, QueueTypes, ThreadStates, FreeAll, thread_vars, task_vars, queue_vars
<1>6. CASE SpawnReady(c)
  <2>1. ThreadTypes'
    BY Zenon, <1>6 DEF SpawnReady, ThreadTypes, ThreadStates
  <2> QED BY <1>6, <2>1 DEF SpawnReady, TaskTypes, QueueTypes, task_vars, queue_vars
<1>7. CASE BootNext(c)
  <2>1. CASE next_uid <= Len(load.tasks)
    <3>1. load.tasks[next_uid] \in Tasks
      BY <2>1, Constants DEF CpuTypes, ThreadTypes
    <3> QED BY Zenon, <1>7, <2>1, <3>1, SpawnChooseTypes DEF BootNext
  <2>2. CASE ~(next_uid <= Len(load.tasks))
    BY Zenon, <1>7, <2>2 DEF BootNext, ThreadTypes, TaskTypes, QueueTypes, thread_vars, task_vars, queue_vars
  <2> QED BY <2>1, <2>2
<1>8. CASE EnterMark(c)
  BY <1>8 DEF EnterMark,
         ThreadTypes, TaskTypes, QueueTypes, ThreadStates, FreeAll, thread_vars, task_vars, queue_vars
<1>9. CASE WaitAcquire(c)
  BY Zenon, <1>9 DEF WaitAcquire,
         ThreadTypes, TaskTypes, QueueTypes, ThreadStates, FreeAll, thread_vars, task_vars, queue_vars
<1>10. CASE WaitCheck(c)
  BY Zenon, <1>10 DEF WaitCheck,
         ThreadTypes, TaskTypes, QueueTypes, ThreadStates, FreeAll, thread_vars, task_vars, queue_vars
<1>11. CASE PickReady(c)
  BY Zenon, <1>11 DEF PickReady, RunThread,
         ThreadTypes, TaskTypes, QueueTypes, ThreadStates, FreeAll, thread_vars, task_vars, queue_vars
<1>12. CASE PickDead(c)
  BY Zenon, <1>12, UnqueueTypes, ReapedIsListed DEF PickDead, ThreadTypes
<1>13. CASE PickUncount(c)
  BY ZenonT(30), <1>13 DEF PickUncount, PickNone,
         ThreadTypes, TaskTypes, QueueTypes, ThreadStates, FreeAll, thread_vars, task_vars, queue_vars
<1>14. CASE PickSkip(c)
  BY ZenonT(30), <1>14 DEF PickSkip, PickNone,
         ThreadTypes, TaskTypes, QueueTypes, ThreadStates, FreeAll, thread_vars, task_vars, queue_vars
<1>15. CASE LoadResume(c)
  BY Zenon, <1>15 DEF LoadResume,
         ThreadTypes, TaskTypes, QueueTypes, ThreadStates, FreeAll, thread_vars, task_vars, queue_vars
<1>16. CASE LoadPreempt(c)
  <2>1. ThreadTypes'
    BY Zenon, <1>16 DEF LoadPreempt, ThreadTypes, ThreadStates
  <2> QED BY Zenon, <1>16, <2>1 DEF LoadPreempt, TaskTypes, QueueTypes, task_vars, queue_vars
<1>17. CASE LoadDead(c)
  BY Zenon, <1>17, UnqueueTypes, ReapedIsListed DEF LoadDead, Reap, ThreadTypes
<1>18. CASE LoopReapDying(c)
  <2>1. [state EXCEPT ![sel[c]] = "DEAD"] \in [Threads -> ThreadStates]
    BY Zenon DEF ThreadTypes, ThreadStates
  <2> QED BY Zenon, <1>18, <2>1, UnqueueTypes, ReapedIsListed DEF LoopReapDying, Reap
<1>19. CASE LoopReapDead(c)
  BY Zenon, <1>19, UnqueueTypes, ReapedIsListed DEF LoopReapDead, Reap, ThreadTypes
<1>20. CASE LoopSkip(c)
  BY Zenon, <1>20 DEF LoopSkip,
         ThreadTypes, TaskTypes, QueueTypes, ThreadStates, FreeAll, thread_vars, task_vars, queue_vars
<1>21. CASE LoopSwitch(c)
  BY Zenon, <1>21 DEF LoopSwitch, RunThread,
         ThreadTypes, TaskTypes, QueueTypes, ThreadStates, FreeAll, thread_vars, task_vars, queue_vars
<1>22. CASE Uncount(c)
  BY Zenon, <1>22 DEF Uncount,
         ThreadTypes, TaskTypes, QueueTypes, ThreadStates, FreeAll, thread_vars, task_vars, queue_vars
<1>23. CASE Other(c)
  BY Zenon, <1>23 DEF Other,
         ThreadTypes, TaskTypes, QueueTypes, ThreadStates, FreeAll, thread_vars, task_vars, queue_vars
<1>24. CASE Yield(c)
  BY Zenon, <1>24 DEF Yield,
         ThreadTypes, TaskTypes, QueueTypes, ThreadStates, FreeAll, thread_vars, task_vars, queue_vars
<1>25. CASE Exit(c)
  <2>1. TaskTypes'
    BY Zenon, <1>25 DEF Exit, TaskTypes
  <2> QED BY Zenon, <1>25, <2>1 DEF Exit, ThreadTypes, QueueTypes, thread_vars, queue_vars
<1>26. CASE Fault(c)
  <2>1. TaskTypes'
    BY Zenon, <1>26 DEF Fault, TaskTypes
  <2> QED BY Zenon, <1>26, <2>1 DEF Fault, ThreadTypes, QueueTypes, thread_vars, queue_vars
<1>27. CASE SyscallSpawn(c)
  <2>1. CurrentTask(c) \in Tasks
    BY SMTT(30), <1>27 DEF SyscallSpawn, CurrentTask, CpuTypes, CurrentRuns, CurrentAt, InThread, ThreadTypes
  <2> QED BY Zenon, <1>27, <2>1, SpawnChooseTypes DEF SyscallSpawn
<1>28. ASSUME NEW t \in Threads, Kill(c, t) PROVE ThreadTypes' /\ TaskTypes' /\ QueueTypes'
  BY Zenon, <1>28 DEF Kill,
         ThreadTypes, TaskTypes, QueueTypes, ThreadStates, FreeAll, thread_vars, task_vars, queue_vars
<1>29. CASE Trap(c)
  BY Zenon, <1>29 DEF Trap,
         ThreadTypes, TaskTypes, QueueTypes, ThreadStates, FreeAll, thread_vars, task_vars, queue_vars
<1>30. CASE TimerTrap(c)
  BY Zenon, <1>30 DEF TimerTrap,
         ThreadTypes, TaskTypes, QueueTypes, ThreadStates, FreeAll, thread_vars, task_vars, queue_vars
<1>31. CASE TimerNested(c)
  BY Zenon, <1>31 DEF TimerNested,
         ThreadTypes, TaskTypes, QueueTypes, ThreadStates, FreeAll, thread_vars, task_vars, queue_vars
<1> QED BY Zenon, <1>1, <1>2, <1>3, <1>4, <1>5, <1>6, <1>7, <1>8, <1>9, <1>10, <1>11, <1>12,
         <1>13, <1>14, <1>15, <1>16, <1>17, <1>18, <1>19, <1>20, <1>21, <1>22, <1>23,
         <1>24, <1>25, <1>26, <1>27, <1>28, <1>29, <1>30, <1>31
  DEF Step, Kernel, Spawning, Waiting, Loading, Handling, SystemCall, TimerInterrupt

(* Every step keeps the types of the preemptive event, and its handle      *)
(* names an event that is pending: schedule() cancels and forgets it       *)
(* together.                                                               *)
LEMMA TimerTypesInv ==
    ASSUME SInv, NEW c \in CPUS, Step(c)
    PROVE  TimerTypes' /\ HandleNamesPendingEvent'
<1> USE DEF SInv, TypeOK
<1>1. CASE SpawnTry(c)
  BY Zenon, <1>1 DEF SpawnTry, TimerTypes, HandleNamesPendingEvent, timer_vars
<1>2. CASE SpawnMove(c)
  BY Zenon, <1>2 DEF SpawnMove, TimerTypes, HandleNamesPendingEvent, timer_vars
<1>3. CASE SpawnAcquire(c)
  BY <1>3 DEF SpawnAcquire, TimerTypes, HandleNamesPendingEvent, timer_vars
<1>4. CASE SpawnInsert(c)
  BY Zenon, <1>4 DEF SpawnInsert, TimerTypes, HandleNamesPendingEvent, timer_vars
<1>5. CASE SpawnCount(c)
  BY <1>5 DEF SpawnCount, TimerTypes, HandleNamesPendingEvent, timer_vars
<1>6. CASE SpawnReady(c)
  BY <1>6 DEF SpawnReady, TimerTypes, HandleNamesPendingEvent, timer_vars
<1>7. CASE BootNext(c)
  BY Zenon, <1>7 DEF BootNext, SpawnChoose, TimerTypes, HandleNamesPendingEvent, timer_vars
<1>8. CASE EnterMark(c)
  BY Zenon, <1>8 DEF EnterMark, TimerTypes, HandleNamesPendingEvent, timer_vars
<1>9. CASE WaitAcquire(c)
  BY Zenon, <1>9 DEF WaitAcquire, TimerTypes, HandleNamesPendingEvent, timer_vars
<1>10. CASE WaitCheck(c)
  BY Zenon, <1>10 DEF WaitCheck, TimerTypes, HandleNamesPendingEvent, timer_vars
<1>11. CASE PickReady(c)
  <2>1. UNCHANGED timer_vars \/ CreateEvent(c)
    BY Zenon, <1>11 DEF PickReady
  <2>2. CASE UNCHANGED timer_vars
    BY Zenon, <2>2 DEF TimerTypes, HandleNamesPendingEvent, timer_vars
  <2>3. CASE CreateEvent(c)
    BY <2>3 DEF CreateEvent, TimerTypes, HandleNamesPendingEvent
  <2> QED BY <2>1, <2>2, <2>3
<1>12. CASE PickDead(c)
  BY Zenon, <1>12 DEF PickDead, TimerTypes, HandleNamesPendingEvent, timer_vars
<1>13. CASE PickUncount(c)
  BY Zenon, <1>13 DEF PickUncount, TimerTypes, HandleNamesPendingEvent, timer_vars
<1>14. CASE PickSkip(c)
  BY Zenon, <1>14 DEF PickSkip, TimerTypes, HandleNamesPendingEvent, timer_vars
<1>15. CASE LoadResume(c)
  BY Zenon, <1>15 DEF LoadResume, TimerTypes, HandleNamesPendingEvent, timer_vars
<1>16. CASE LoadPreempt(c)
  BY Zenon, <1>16 DEF LoadPreempt, TimerTypes, HandleNamesPendingEvent, timer_vars
<1>17. CASE LoadDead(c)
  BY Zenon, <1>17 DEF LoadDead, Reap, TimerTypes, HandleNamesPendingEvent, timer_vars
<1>18. CASE LoopReapDying(c)
  BY Zenon, <1>18 DEF LoopReapDying, Reap, TimerTypes, HandleNamesPendingEvent, timer_vars
<1>19. CASE LoopReapDead(c)
  BY Zenon, <1>19 DEF LoopReapDead, Reap, TimerTypes, HandleNamesPendingEvent, timer_vars
<1>20. CASE LoopSkip(c)
  BY Zenon, <1>20 DEF LoopSkip, TimerTypes, HandleNamesPendingEvent, timer_vars
<1>21. CASE LoopSwitch(c)
  <2>1. CreateEvent(c)
    BY Zenon, <1>21 DEF LoopSwitch
  <2> QED BY <2>1 DEF CreateEvent, TimerTypes, HandleNamesPendingEvent, timer_vars
<1>22. CASE Uncount(c)
  BY Zenon, <1>22 DEF Uncount, TimerTypes, HandleNamesPendingEvent, timer_vars
<1>23. CASE Other(c)
  BY Zenon, <1>23 DEF Other, TimerTypes, HandleNamesPendingEvent, timer_vars
<1>24. CASE Yield(c)
  BY SMTT(30), <1>24 DEF Yield, Schedule, TimerTypes, HandleNamesPendingEvent, timer_vars
<1>25. CASE Exit(c)
  BY SMTT(30), <1>25 DEF Exit, Schedule, TimerTypes, HandleNamesPendingEvent, timer_vars
<1>26. CASE Fault(c)
  BY Zenon, <1>26 DEF Fault, TimerTypes, HandleNamesPendingEvent, timer_vars
<1>27. CASE SyscallSpawn(c)
  BY Zenon, <1>27 DEF SyscallSpawn, SpawnChoose, TimerTypes, HandleNamesPendingEvent, timer_vars
<1>28. ASSUME NEW t \in Threads, Kill(c, t) PROVE TimerTypes' /\ HandleNamesPendingEvent'
  BY Zenon, <1>28 DEF Kill, TimerTypes, HandleNamesPendingEvent, timer_vars
<1>29. CASE Trap(c)
  BY Zenon, <1>29 DEF Trap, TimerTypes, HandleNamesPendingEvent, timer_vars
<1>30. CASE TimerTrap(c)
  <2>1. EventFires(c)
    BY Zenon, <1>30 DEF TimerTrap
  <2> QED BY <2>1 DEF EventFires, TimerTypes, HandleNamesPendingEvent, timer_vars
<1>31. CASE TimerNested(c)
  <2>1. EventFires(c)
    BY Zenon, <1>31 DEF TimerNested
  <2> QED BY <2>1 DEF EventFires, TimerTypes, HandleNamesPendingEvent, timer_vars
<1> QED BY Zenon, <1>1, <1>2, <1>3, <1>4, <1>5, <1>6, <1>7, <1>8, <1>9, <1>10, <1>11, <1>12,
         <1>13, <1>14, <1>15, <1>16, <1>17, <1>18, <1>19, <1>20, <1>21, <1>22, <1>23,
         <1>24, <1>25, <1>26, <1>27, <1>28, <1>29, <1>30, <1>31
  DEF Step, Kernel, Spawning, Waiting, Loading, Handling, SystemCall, TimerInterrupt

(* What reaping leaves to the loop and for freeing is threads. *)
LEMMA ReapSel ==
    ASSUME SInv, NEW c \in CPUS, NEW t \in Threads, In(t, list[c]), list' \in [CPUS -> Seq(Threads)], NEW st, Reap(c, t, st)
    PROVE  /\ sel' \in [CPUS -> Threads \cup {NoThread}]
           /\ tofree' \in [CPUS -> SUBSET Threads]
<1> USE DEF SInv, TypeOK, LoopTypes
<1>1. NextNode(list[c], t) \in Threads
  BY NextNodeIn DEF QueueTypes
<1>2. list'[c] # <<>> => Head(list'[c]) \in Threads
  BY Zenon, HeadIn
<1>3. sel' \in [CPUS -> Threads \cup {NoThread}]
  BY Zenon, <1>1, <1>2 DEF Reap
<1>4. tofree' = [tofree EXCEPT ![c] = @ \cup {t}]
  BY Zenon DEF Reap, Unqueue
<1> QED BY Zenon, <1>3, <1>4

(* Every step keeps the types of what the loops over a runqueue hold. *)
LEMMA LoopTypesInv ==
    ASSUME SInv, NEW c \in CPUS, Step(c)
    PROVE  LoopTypes'
<1> USE DEF SInv, TypeOK
<1>1. CASE SpawnTry(c)
  BY Zenon, <1>1 DEF SpawnTry, LoopTypes, local_vars
<1>2. CASE SpawnMove(c)
  BY Zenon, <1>2 DEF SpawnMove, LoopTypes, local_vars
<1>3. CASE SpawnAcquire(c)
  BY Zenon, <1>3 DEF SpawnAcquire, LoopTypes, local_vars
<1>4. CASE SpawnInsert(c)
  BY Zenon, <1>4 DEF SpawnInsert, LoopTypes, local_vars
<1>5. CASE SpawnCount(c)
  BY Zenon, <1>5 DEF SpawnCount, LoopTypes, local_vars
<1>6. CASE SpawnReady(c)
  BY <1>6 DEF SpawnReady, LoopTypes, local_vars
<1>7. CASE BootNext(c)
  BY Zenon, <1>7 DEF BootNext, SpawnChoose, LoopTypes, local_vars
<1>8. CASE EnterMark(c)
  BY Zenon, <1>8 DEF EnterMark, LoopTypes, local_vars
<1>9. CASE WaitAcquire(c)
  BY Zenon, <1>9 DEF WaitAcquire, LoopTypes, local_vars
<1>10. CASE WaitCheck(c)
  <2>1. list[c] # <<>> => Head(list[c]) \in Threads
    BY HeadIn DEF QueueTypes
  <2> QED BY ZenonT(30), <1>10, <2>1 DEF WaitCheck, LoopTypes
<1>11. CASE PickReady(c)
  <2>1. owner[sel[c]] \in Tasks
    BY Zenon, <1>11, ReapedIsListed DEF PickReady, ThreadTypes
  <2> QED BY Zenon, <1>11, <2>1 DEF PickReady, RunThread, set_thread_mapping, LoopTypes
<1>12. CASE PickDead(c)
  <2>1. tofree' = [tofree EXCEPT ![c] = @ \cup {sel[c]}]
    BY <1>12, Zenon DEF PickDead, Unqueue
  <2>2. NextNode(list[c], sel[c]) \in Threads /\ sel[c] \in Threads
    BY Zenon, <1>12, NextNodeIn, ReapedIsListed DEF PickDead, QueueTypes
  <2> QED BY Zenon, <1>12, <2>1, <2>2 DEF PickDead, LoopTypes
<1>13. CASE PickUncount(c)
  BY ZenonT(30), <1>13 DEF PickUncount, PickNone, LoopTypes, local_vars
<1>14. CASE PickSkip(c)
  <2>1. NextNode(list[c], sel[c]) \in Threads
    BY Zenon, <1>14, NextNodeIn, ReapedIsListed DEF PickSkip, QueueTypes
  <2> QED BY ZenonT(30), <1>14, <2>1 DEF PickSkip, PickNone, LoopTypes
<1>15. CASE LoadResume(c)
  <2>1. owner[current[c]] \in Tasks
    BY Zenon, <1>15, ReapedIsListed DEF LoadResume, ThreadTypes
  <2> QED BY Zenon, <1>15, <2>1 DEF LoadResume, set_thread_mapping, LoopTypes
<1>16. CASE LoadPreempt(c)
  <2>1. NextNode(list[c], current[c]) \in Threads
    BY Zenon, <1>16, NextNodeIn, ReapedIsListed DEF LoadPreempt, QueueTypes
  <2> QED BY Zenon, <1>16, <2>1 DEF LoadPreempt, LoopTypes
<1>17. CASE LoadDead(c)
  <2>1. list' \in [CPUS -> Seq(Threads)]
    BY ListTypesInv DEF QueueTypes
  <2>2. sel' \in [CPUS -> Threads \cup {NoThread}] /\ tofree' \in [CPUS -> SUBSET Threads]
    BY Zenon, <1>17, <2>1, ReapedIsListed, ReapSel DEF LoadDead
  <2> QED BY Zenon, <1>17, <2>2 DEF LoadDead, Reap, LoopTypes
<1>18. CASE LoopReapDying(c)
  <2>1. list' \in [CPUS -> Seq(Threads)]
    BY ListTypesInv DEF QueueTypes
  <2>2. sel' \in [CPUS -> Threads \cup {NoThread}] /\ tofree' \in [CPUS -> SUBSET Threads]
    BY Zenon, <1>18, <2>1, ReapedIsListed, ReapSel DEF LoopReapDying
  <2> QED BY Zenon, <1>18, <2>2 DEF LoopReapDying, Reap, LoopTypes
<1>19. CASE LoopReapDead(c)
  <2>1. list' \in [CPUS -> Seq(Threads)]
    BY ListTypesInv DEF QueueTypes
  <2>2. sel' \in [CPUS -> Threads \cup {NoThread}] /\ tofree' \in [CPUS -> SUBSET Threads]
    BY Zenon, <1>19, <2>1, ReapedIsListed, ReapSel DEF LoopReapDead
  <2> QED BY Zenon, <1>19, <2>2 DEF LoopReapDead, Reap, LoopTypes
<1>20. CASE LoopSkip(c)
  <2>1. NextNode(list[c], sel[c]) \in Threads
    BY Zenon, <1>20, NextNodeIn, ReapedIsListed DEF LoopSkip, QueueTypes
  <2> QED BY Zenon, <1>20, <2>1 DEF LoopSkip, LoopTypes
<1>21. CASE LoopSwitch(c)
  <2>1. owner[sel[c]] \in Tasks
    BY Zenon, <1>21, ReapedIsListed DEF LoopSwitch, ThreadTypes
  <2> QED BY Zenon, <1>21, <2>1 DEF LoopSwitch, RunThread, set_thread_mapping, LoopTypes
<1>22. CASE Uncount(c)
  BY Zenon, <1>22 DEF Uncount, LoopTypes, local_vars
<1>23. CASE Other(c)
  BY <1>23 DEF Other, LoopTypes, local_vars
<1>24. CASE Yield(c)
  BY Zenon, <1>24 DEF Yield, LoopTypes, local_vars
<1>25. CASE Exit(c)
  BY Zenon, <1>25 DEF Exit, LoopTypes, local_vars
<1>26. CASE Fault(c)
  BY Zenon, <1>26 DEF Fault, LoopTypes, local_vars
<1>27. CASE SyscallSpawn(c)
  BY Zenon, <1>27 DEF SyscallSpawn, SpawnChoose, LoopTypes, local_vars
<1>28. ASSUME NEW t \in Threads, Kill(c, t) PROVE LoopTypes'
  BY Zenon, <1>28 DEF Kill, LoopTypes, local_vars
<1>29. CASE Trap(c)
  BY Zenon, <1>29 DEF Trap, LoopTypes, local_vars
<1>30. CASE TimerTrap(c)
  BY Zenon, <1>30 DEF TimerTrap, LoopTypes, local_vars
<1>31. CASE TimerNested(c)
  BY Zenon, <1>31 DEF TimerNested, LoopTypes, local_vars
<1> QED BY Zenon, <1>1, <1>2, <1>3, <1>4, <1>5, <1>6, <1>7, <1>8, <1>9, <1>10, <1>11, <1>12,
         <1>13, <1>14, <1>15, <1>16, <1>17, <1>18, <1>19, <1>20, <1>21, <1>22, <1>23,
         <1>24, <1>25, <1>26, <1>27, <1>28, <1>29, <1>30, <1>31
  DEF Step, Kernel, Spawning, Waiting, Loading, Handling, SystemCall, TimerInterrupt

(* unqueue_thread of the current thread leaves none. *)
LEMMA UnqueueCurrent ==
    ASSUME SInv, NEW c \in CPUS, NEW t, NEW st, Unqueue(c, t, st)
    PROVE  /\ current' = [current EXCEPT ![c] = IF @ = t THEN NoThread ELSE @]
           /\ current' \in [CPUS -> Threads \cup {NoThread}]
<1>1. current' = [current EXCEPT ![c] = IF @ = t THEN NoThread ELSE @]
  BY Zenon DEF Unqueue
<1>2. current \in [CPUS -> Threads \cup {NoThread}]
  BY DEF SInv, TypeOK, CpuTypes
<1> QED BY <1>1, <1>2

(* Every step keeps the types of the state of a CPU. *)
LEMMA CpuTypesInv ==
    ASSUME SInv, NEW c \in CPUS, Step(c)
    PROVE  CpuTypes'
<1> USE DEF SInv, TypeOK
<1> UNCHANGED load
  BY DEF Step, Kernel, SystemCall, TimerInterrupt
<1>1. CASE SpawnTry(c)
  <2>1. spawn[c].rq \in CPUS
    BY Zenon, <1>1 DEF SpawnTry, SpawnsApart, SpawnLabels, InsertLabels
  <2> QED BY ZenonT(30), <1>1, <2>1 DEF SpawnTry, CpuTypes, Goto, Labels, SpawnLabels, InsertLabels
<1>2. CASE SpawnMove(c)
  BY Zenon, <1>2 DEF SpawnMove, CpuTypes, Goto, Labels, InsertLabels, SpawnLabels, LockLabels
<1>3. CASE SpawnAcquire(c)
  BY Zenon, <1>3 DEF SpawnAcquire, CpuTypes, Goto, Labels, InsertLabels, SpawnLabels, LockLabels
<1>4. CASE SpawnInsert(c)
  BY Zenon, <1>4, Constants DEF SpawnInsert, CpuTypes, Goto, Labels, SpawnLabels, InsertLabels
<1>5. CASE SpawnCount(c)
  BY SMTT(30), <1>5 DEF SpawnCount, CpuTypes, Goto, Labels, InsertLabels, SpawnLabels, LockLabels
<1>6. CASE SpawnReady(c)
  BY <1>6 DEF SpawnReady, CpuTypes, Goto, Labels, InsertLabels, SpawnLabels, LockLabels
<1>7. CASE BootNext(c)
  BY ZenonT(30), <1>7 DEF BootNext, SpawnChoose, CpuTypes, Goto, Labels, InsertLabels, SpawnLabels, LockLabels
<1>8. CASE EnterMark(c)
  BY Zenon, <1>8 DEF EnterMark, CpuTypes, Goto, Labels, InsertLabels, SpawnLabels, LockLabels
<1>9. CASE WaitAcquire(c)
  BY Zenon, <1>9 DEF WaitAcquire, CpuTypes, Goto, Labels, InsertLabels, SpawnLabels, LockLabels
<1>10. CASE WaitCheck(c)
  BY SMTT(30), <1>10 DEF WaitCheck, CpuTypes, Goto, Labels, InsertLabels, SpawnLabels, LockLabels
<1>11. CASE PickReady(c)
  BY Zenon, <1>11, ReapedIsListed DEF PickReady, RunThread, CpuTypes, Goto, Labels
<1>12. CASE PickDead(c)
  BY Zenon, <1>12, UnqueueCurrent DEF PickDead, CpuTypes, Goto, Labels, LockLabels
<1>13. CASE PickUncount(c)
  BY SMTT(30), <1>13 DEF PickUncount, PickNone, CpuTypes, Goto, Labels, InsertLabels, SpawnLabels, LockLabels
<1>14. CASE PickSkip(c)
  BY ZenonT(30), <1>14 DEF PickSkip, PickNone, CpuTypes, Goto, Labels, InsertLabels, SpawnLabels, LockLabels
<1>15. CASE LoadResume(c)
  BY Zenon, <1>15 DEF LoadResume, CpuTypes, Goto, Labels, InsertLabels, SpawnLabels, LockLabels
<1>16. CASE LoadPreempt(c)
  BY Zenon, <1>16 DEF LoadPreempt, CpuTypes, Goto, Labels, InsertLabels, SpawnLabels, LockLabels
<1>17. CASE LoadDead(c)
  BY Zenon, <1>17, UnqueueCurrent DEF LoadDead, Reap, CpuTypes, Goto, Labels, LockLabels
<1>18. CASE LoopReapDying(c)
  BY Zenon, <1>18, UnqueueCurrent DEF LoopReapDying, Reap, CpuTypes, Goto, Labels, LockLabels
<1>19. CASE LoopReapDead(c)
  BY Zenon, <1>19, UnqueueCurrent DEF LoopReapDead, Reap, CpuTypes, Goto, Labels, LockLabels
<1>20. CASE LoopSkip(c)
  BY Zenon, <1>20 DEF LoopSkip, CpuTypes, Goto, Labels, InsertLabels, SpawnLabels, LockLabels
<1>21. CASE LoopSwitch(c)
  BY Zenon, <1>21, ReapedIsListed DEF LoopSwitch, RunThread, CpuTypes, Goto, Labels
<1>22. CASE Uncount(c)
  BY SMTT(30), <1>22 DEF Uncount, CpuTypes, Goto, Labels, InsertLabels, SpawnLabels, LockLabels
<1>23. CASE Other(c)
  BY Zenon, <1>23 DEF Other, CpuTypes, Goto, Labels, InsertLabels, SpawnLabels, LockLabels
<1>24. CASE Yield(c)
  BY Zenon, <1>24 DEF Yield, CpuTypes, Goto, Labels, InsertLabels, SpawnLabels, LockLabels
<1>25. CASE Exit(c)
  BY Zenon, <1>25 DEF Exit, CpuTypes, Goto, Labels, InsertLabels, SpawnLabels, LockLabels
<1>26. CASE Fault(c)
  BY Zenon, <1>26 DEF Fault, CpuTypes, Goto, Labels, InsertLabels, SpawnLabels, LockLabels
<1>27. CASE SyscallSpawn(c)
  BY Zenon, <1>27 DEF SyscallSpawn, SpawnChoose, CpuTypes, Goto, Labels, InsertLabels, SpawnLabels, LockLabels
<1>28. ASSUME NEW t \in Threads, Kill(c, t) PROVE CpuTypes'
  BY Zenon, <1>28 DEF Kill, CpuTypes, Goto, Labels, InsertLabels, SpawnLabels, LockLabels
<1>29. CASE Trap(c)
  BY Zenon, <1>29 DEF Trap, CpuTypes, Goto, Labels, InsertLabels, SpawnLabels, LockLabels
<1>30. CASE TimerTrap(c)
  BY Zenon, <1>30 DEF TimerTrap, CpuTypes, Goto, Labels, InsertLabels, SpawnLabels, LockLabels
<1>31. CASE TimerNested(c)
  BY Zenon, <1>31 DEF TimerNested, CpuTypes, Goto, Labels, InsertLabels, SpawnLabels, LockLabels
<1> QED BY Zenon, <1>1, <1>2, <1>3, <1>4, <1>5, <1>6, <1>7, <1>8, <1>9, <1>10, <1>11, <1>12,
         <1>13, <1>14, <1>15, <1>16, <1>17, <1>18, <1>19, <1>20, <1>21, <1>22, <1>23,
         <1>24, <1>25, <1>26, <1>27, <1>28, <1>29, <1>30, <1>31
  DEF Step, Kernel, Spawning, Waiting, Loading, Handling, SystemCall, TimerInterrupt

(* thread_create gives a thread that no other CPU is spawning. *)
LEMMA SpawnChooseApart ==
    ASSUME SInv, NEW c \in CPUS, NEW k, NEW b \in BOOLEAN, SpawnChoose(c, k, b)
    PROVE  SpawnTypes' /\ SpawnsApart'
<1> USE DEF SInv, TypeOK
<1>1. next_uid \in Threads
  BY SMTT(30), Constants DEF SpawnChoose, CpuTypes, ThreadTypes
<1>2. PICK i \in CPUS : spawn' = [spawn EXCEPT ![c] = [th |-> next_uid, rq |-> i, boot |-> b]]
  BY Zenon DEF SpawnChoose
<1>3. SpawnTypes'
  BY Zenon, <1>1, <1>2 DEF SpawnTypes
<1>4. \A d \in CPUS : spawn[d].th # next_uid
  BY SMTT(30), <1>1, Constants DEF LinkedLive, SpawnTypes
<1>5. pc' = [pc EXCEPT ![c] = "sp_try"] /\ pc \in [CPUS -> Labels]
  BY Zenon DEF SpawnChoose, Goto, CpuTypes
<1>6. \A d \in CPUS : IF pc'[d] \in SpawnLabels
                      THEN spawn'[d].th \in Threads /\ spawn'[d].rq \in CPUS
                      ELSE spawn'[d] = NoSpawn
  BY Zenon, <1>1, <1>2, <1>5 DEF SpawnTypes, SpawnsApart, SpawnLabels, InsertLabels
<1>7. \A d, e \in CPUS : spawn'[d].th = spawn'[e].th /\ spawn'[d].th # NoThread => d = e
  BY Zenon, <1>1, <1>2, <1>4 DEF SpawnTypes, SpawnsApart
<1>8. \A d \in CPUS : /\ pc'[d] = "sp_acquire" => spawn'[d].rq = d
                      /\ pc'[d] = "sp_move" => spawn'[d].rq # d
  BY Zenon, <1>2, <1>5 DEF SpawnTypes, SpawnsApart
<1> QED BY Zenon, <1>3, <1>6, <1>7, <1>8 DEF SpawnsApart

(* What thread_create and the choice of a runqueue do for the CPU that     *)
(* calls it.                                                               *)
LEMMA SpawnChooseCpu ==
    ASSUME SInv, NEW c \in CPUS, NEW k, NEW b \in BOOLEAN, SpawnChoose(c, k, b)
    PROVE  /\ UNCHANGED <<lock, ready, tstate, list, current, sel>>
           /\ pc' = [pc EXCEPT ![c] = "sp_try"]
           /\ spawn'[c].boot = b /\ \A d \in CPUS \ {c} : spawn'[d] = spawn[d]
<1>1. PICK i \in CPUS : spawn' = [spawn EXCEPT ![c] = [th |-> next_uid, rq |-> i, boot |-> b]]
  BY Zenon DEF SpawnChoose
<1>2. spawn \in [CPUS -> [th : Threads \cup {NoThread}, rq : CPUS \cup {NoCpu}, boot : BOOLEAN]]
  BY DEF SInv, TypeOK, SpawnTypes
<1>3. spawn'[c].boot = b /\ \A d \in CPUS \ {c} : spawn'[d] = spawn[d]
  BY Zenon, <1>1, <1>2
<1> QED BY Zenon, <1>3 DEF SpawnChoose, Goto, queue_vars

(* A CPU that spawns nothing names no thread and no runqueue. *)
LEMMA NoSpawnFields == NoSpawn.th = NoThread /\ NoSpawn.rq = NoCpu /\ NoSpawn.boot = FALSE
BY DEF NoSpawn

(* What a CPU has to itself: no step of another CPU changes where it is or *)
(* which thread it is inserting, or releases a lock it holds.              *)
Kept(d) ==
    /\ pc'[d] = pc[d] /\ spawn'[d] = spawn[d]
    /\ \A x \in CPUS : lock[x] = d => lock'[x] = d

(* A step that only takes a free lock, or releases one of its own, leaves  *)
(* the others what they have.                                              *)
LEMMA LockKept ==
    ASSUME SInv, NEW c \in CPUS,
           \A d \in CPUS \ {c} : pc'[d] = pc[d] /\ spawn'[d] = spawn[d],
           \/ UNCHANGED lock
           \/ \E i \in CPUS, h \in CPUS \cup {NoCpu} :
                 lock' = [lock EXCEPT ![i] = h] /\ lock[i] \in {c, NoCpu}
    PROVE  \A d \in CPUS \ {c} : Kept(d)
<1>1. lock \in [CPUS -> CPUS \cup {NoCpu}] /\ NoCpu \notin CPUS
  BY SMTT(30), Constants DEF SInv, TypeOK, CpuTypes
<1> QED BY <1>1 DEF Kept

(* No step of CPU c changes what another CPU has to itself: locks are      *)
(* released by their owners.                                               *)
LEMMA OthersKept ==
    ASSUME SInv, NEW c \in CPUS, Step(c)
    PROVE  \A d \in CPUS \ {c} : Kept(d)
<1> USE DEF SInv, TypeOK
<1>1. CASE SpawnTry(c)
  <2>1. \A d \in CPUS \ {c} : pc'[d] = pc[d] /\ spawn'[d] = spawn[d]
    BY Zenon, <1>1 DEF SpawnTry, CpuTypes, SpawnTypes, Goto, local_vars
  <2>2. spawn[c].rq \in CPUS
    BY Zenon, <1>1 DEF SpawnTry, SpawnsApart, SpawnLabels, InsertLabels
  <2>3. \/ UNCHANGED lock
        \/ lock' = [lock EXCEPT ![spawn[c].rq] = c] /\ lock[spawn[c].rq] \in {c, NoCpu}
    BY Zenon, <1>1 DEF SpawnTry
  <2> QED BY Zenon, <2>1, <2>2, <2>3, LockKept
<1>2. CASE SpawnMove(c)
  <2>1. \A d \in CPUS \ {c} : pc'[d] = pc[d] /\ spawn'[d] = spawn[d]
    BY Zenon, <1>2 DEF SpawnMove, CpuTypes, SpawnTypes, Goto, local_vars
  <2>2. UNCHANGED lock
    BY Zenon, <1>2 DEF SpawnMove
  <2> QED BY Zenon, <2>1, <2>2, LockKept
<1>3. CASE SpawnAcquire(c)
  <2>1. \A d \in CPUS \ {c} : pc'[d] = pc[d] /\ spawn'[d] = spawn[d]
    BY Zenon, <1>3 DEF SpawnAcquire, CpuTypes, SpawnTypes, Goto, local_vars
  <2>2. lock[c] \in {c, NoCpu}
    BY Zenon, <1>3 DEF SpawnAcquire, LocksHeld, LockLabels
  <2>3. \/ UNCHANGED lock
        \/ \E h \in CPUS \cup {NoCpu} : lock' = [lock EXCEPT ![c] = h]
    BY Zenon, <1>3 DEF SpawnAcquire
  <2> QED BY Zenon, <2>1, <2>2, <2>3, LockKept
<1>4. CASE SpawnInsert(c)
  <2>1. \A d \in CPUS \ {c} : pc'[d] = pc[d] /\ spawn'[d] = spawn[d]
    BY Zenon, <1>4 DEF SpawnInsert, CpuTypes, SpawnTypes, Goto, local_vars
  <2>2. lock[spawn[c].rq] = c /\ spawn[c].rq \in CPUS
    BY Zenon, <1>4 DEF SpawnInsert, LocksHeld, SpawnsApart, SpawnLabels, InsertLabels
  <2>3. \E h \in CPUS \cup {NoCpu} : lock' = [lock EXCEPT ![spawn[c].rq] = h]
    BY Zenon, <1>4 DEF SpawnInsert
  <2> QED BY Zenon, <2>1, <2>2, <2>3, LockKept
<1>5. CASE SpawnCount(c)
  <2>1. \A d \in CPUS \ {c} : pc'[d] = pc[d] /\ spawn'[d] = spawn[d]
    BY Zenon, <1>5 DEF SpawnCount, CpuTypes, SpawnTypes, Goto, local_vars
  <2>2. UNCHANGED lock
    BY Zenon, <1>5 DEF SpawnCount
  <2> QED BY Zenon, <2>1, <2>2, LockKept
<1>6. CASE SpawnReady(c)
  <2>1. \A d \in CPUS \ {c} : pc'[d] = pc[d] /\ spawn'[d] = spawn[d]
    BY Zenon, <1>6 DEF SpawnReady, CpuTypes, SpawnTypes, Goto, local_vars
  <2>2. UNCHANGED lock
    BY Zenon, <1>6 DEF SpawnReady
  <2> QED BY Zenon, <2>1, <2>2, LockKept
<1>7. CASE BootNext(c)
  <2>1. CASE next_uid <= Len(load.tasks)
    <3>1. UNCHANGED lock /\ \A d \in CPUS \ {c} : pc'[d] = pc[d] /\ spawn'[d] = spawn[d]
      BY Zenon, <1>7, <2>1, SpawnChooseCpu DEF BootNext, CpuTypes
    <3> QED BY Zenon, <3>1, LockKept
  <2>2. CASE ~(next_uid <= Len(load.tasks))
    <3>1. UNCHANGED lock /\ \A d \in CPUS \ {c} : pc'[d] = pc[d] /\ spawn'[d] = spawn[d]
      BY Zenon, <1>7, <2>2 DEF BootNext, CpuTypes, Goto, local_vars
    <3> QED BY Zenon, <3>1, LockKept
  <2> QED BY <2>1, <2>2
<1>8. CASE EnterMark(c)
  <2>1. \A d \in CPUS \ {c} : pc'[d] = pc[d] /\ spawn'[d] = spawn[d]
    BY Zenon, <1>8 DEF EnterMark, CpuTypes, SpawnTypes, Goto, local_vars
  <2>2. UNCHANGED lock
    BY Zenon, <1>8 DEF EnterMark
  <2> QED BY Zenon, <2>1, <2>2, LockKept
<1>9. CASE WaitAcquire(c)
  <2>1. \A d \in CPUS \ {c} : pc'[d] = pc[d] /\ spawn'[d] = spawn[d]
    BY Zenon, <1>9 DEF WaitAcquire, CpuTypes, SpawnTypes, Goto, local_vars
  <2>2. lock[c] \in {c, NoCpu}
    BY Zenon, <1>9 DEF WaitAcquire, LocksHeld, LockLabels
  <2>3. \/ UNCHANGED lock
        \/ \E h \in CPUS \cup {NoCpu} : lock' = [lock EXCEPT ![c] = h]
    BY Zenon, <1>9 DEF WaitAcquire
  <2> QED BY Zenon, <2>1, <2>2, <2>3, LockKept
<1>10. CASE WaitCheck(c)
  <2>1. \A d \in CPUS \ {c} : pc'[d] = pc[d] /\ spawn'[d] = spawn[d]
    BY Zenon, <1>10 DEF WaitCheck, CpuTypes, SpawnTypes, Goto, local_vars
  <2>2. lock[c] \in {c, NoCpu}
    BY Zenon, <1>10 DEF WaitCheck, LocksHeld, LockLabels
  <2>3. \/ UNCHANGED lock
        \/ \E h \in CPUS \cup {NoCpu} : lock' = [lock EXCEPT ![c] = h]
    BY Zenon, <1>10 DEF WaitCheck
  <2> QED BY Zenon, <2>1, <2>2, <2>3, LockKept
<1>11. CASE PickReady(c)
  <2>1. \A d \in CPUS \ {c} : pc'[d] = pc[d] /\ spawn'[d] = spawn[d]
    BY Zenon, <1>11 DEF PickReady, CpuTypes, SpawnTypes, Goto, local_vars, RunThread
  <2>2. lock[c] \in {c, NoCpu}
    BY Zenon, <1>11 DEF PickReady, LocksHeld, LockLabels
  <2>3. \/ UNCHANGED lock
        \/ \E h \in CPUS \cup {NoCpu} : lock' = [lock EXCEPT ![c] = h]
    BY Zenon, <1>11 DEF PickReady, RunThread
  <2> QED BY Zenon, <2>1, <2>2, <2>3, LockKept
<1>12. CASE PickDead(c)
  <2>1. \A d \in CPUS \ {c} : pc'[d] = pc[d] /\ spawn'[d] = spawn[d]
    BY Zenon, <1>12 DEF PickDead, CpuTypes, SpawnTypes, Goto, local_vars
  <2>2. UNCHANGED lock
    BY Zenon, <1>12 DEF PickDead
  <2> QED BY Zenon, <2>1, <2>2, LockKept
<1>13. CASE PickUncount(c)
  <2>1. \A d \in CPUS \ {c} : pc'[d] = pc[d] /\ spawn'[d] = spawn[d]
    BY Zenon, <1>13 DEF PickUncount, CpuTypes, SpawnTypes, Goto, local_vars, PickNone
  <2>2. lock[c] \in {c, NoCpu}
    BY Zenon, <1>13 DEF PickUncount, LocksHeld, LockLabels
  <2>3. \/ UNCHANGED lock
        \/ \E h \in CPUS \cup {NoCpu} : lock' = [lock EXCEPT ![c] = h]
    BY Zenon, <1>13 DEF PickUncount, PickNone
  <2> QED BY Zenon, <2>1, <2>2, <2>3, LockKept
<1>14. CASE PickSkip(c)
  <2>1. \A d \in CPUS \ {c} : pc'[d] = pc[d] /\ spawn'[d] = spawn[d]
    BY Zenon, <1>14 DEF PickSkip, CpuTypes, SpawnTypes, Goto, local_vars, PickNone
  <2>2. lock[c] \in {c, NoCpu}
    BY Zenon, <1>14 DEF PickSkip, LocksHeld, LockLabels
  <2>3. \/ UNCHANGED lock
        \/ \E h \in CPUS \cup {NoCpu} : lock' = [lock EXCEPT ![c] = h]
    BY Zenon, <1>14 DEF PickSkip, PickNone
  <2> QED BY Zenon, <2>1, <2>2, <2>3, LockKept
<1>15. CASE LoadResume(c)
  <2>1. \A d \in CPUS \ {c} : pc'[d] = pc[d] /\ spawn'[d] = spawn[d]
    BY Zenon, <1>15 DEF LoadResume, CpuTypes, SpawnTypes, Goto, local_vars
  <2>2. lock[c] \in {c, NoCpu}
    BY Zenon, <1>15 DEF LoadResume, LocksHeld, LockLabels
  <2>3. \/ UNCHANGED lock
        \/ \E h \in CPUS \cup {NoCpu} : lock' = [lock EXCEPT ![c] = h]
    BY Zenon, <1>15 DEF LoadResume
  <2> QED BY Zenon, <2>1, <2>2, <2>3, LockKept
<1>16. CASE LoadPreempt(c)
  <2>1. \A d \in CPUS \ {c} : pc'[d] = pc[d] /\ spawn'[d] = spawn[d]
    BY Zenon, <1>16 DEF LoadPreempt, CpuTypes, SpawnTypes, Goto, local_vars
  <2>2. UNCHANGED lock
    BY Zenon, <1>16 DEF LoadPreempt
  <2> QED BY Zenon, <2>1, <2>2, LockKept
<1>17. CASE LoadDead(c)
  <2>1. \A d \in CPUS \ {c} : pc'[d] = pc[d] /\ spawn'[d] = spawn[d]
    BY Zenon, <1>17 DEF LoadDead, CpuTypes, SpawnTypes, Goto, local_vars, Reap
  <2>2. UNCHANGED lock
    BY Zenon, <1>17 DEF LoadDead, Reap
  <2> QED BY Zenon, <2>1, <2>2, LockKept
<1>18. CASE LoopReapDying(c)
  <2>1. \A d \in CPUS \ {c} : pc'[d] = pc[d] /\ spawn'[d] = spawn[d]
    BY Zenon, <1>18 DEF LoopReapDying, CpuTypes, SpawnTypes, Goto, local_vars, Reap
  <2>2. UNCHANGED lock
    BY Zenon, <1>18 DEF LoopReapDying, Reap
  <2> QED BY Zenon, <2>1, <2>2, LockKept
<1>19. CASE LoopReapDead(c)
  <2>1. \A d \in CPUS \ {c} : pc'[d] = pc[d] /\ spawn'[d] = spawn[d]
    BY Zenon, <1>19 DEF LoopReapDead, CpuTypes, SpawnTypes, Goto, local_vars, Reap
  <2>2. UNCHANGED lock
    BY Zenon, <1>19 DEF LoopReapDead, Reap
  <2> QED BY Zenon, <2>1, <2>2, LockKept
<1>20. CASE LoopSkip(c)
  <2>1. \A d \in CPUS \ {c} : pc'[d] = pc[d] /\ spawn'[d] = spawn[d]
    BY Zenon, <1>20 DEF LoopSkip, CpuTypes, SpawnTypes, Goto, local_vars
  <2>2. UNCHANGED lock
    BY Zenon, <1>20 DEF LoopSkip
  <2> QED BY Zenon, <2>1, <2>2, LockKept
<1>21. CASE LoopSwitch(c)
  <2>1. \A d \in CPUS \ {c} : pc'[d] = pc[d] /\ spawn'[d] = spawn[d]
    BY Zenon, <1>21 DEF LoopSwitch, CpuTypes, SpawnTypes, Goto, local_vars, RunThread
  <2>2. lock[c] \in {c, NoCpu}
    BY Zenon, <1>21 DEF LoopSwitch, LocksHeld, LockLabels
  <2>3. \/ UNCHANGED lock
        \/ \E h \in CPUS \cup {NoCpu} : lock' = [lock EXCEPT ![c] = h]
    BY Zenon, <1>21 DEF LoopSwitch, RunThread
  <2> QED BY Zenon, <2>1, <2>2, <2>3, LockKept
<1>22. CASE Uncount(c)
  <2>1. \A d \in CPUS \ {c} : pc'[d] = pc[d] /\ spawn'[d] = spawn[d]
    BY Zenon, <1>22 DEF Uncount, CpuTypes, SpawnTypes, Goto, local_vars
  <2>2. UNCHANGED lock
    BY Zenon, <1>22 DEF Uncount
  <2> QED BY Zenon, <2>1, <2>2, LockKept
<1>23. CASE Other(c)
  <2>1. \A d \in CPUS \ {c} : pc'[d] = pc[d] /\ spawn'[d] = spawn[d]
    BY Zenon, <1>23 DEF Other, CpuTypes, SpawnTypes, Goto, local_vars
  <2>2. UNCHANGED lock
    BY Zenon, <1>23 DEF Other
  <2> QED BY Zenon, <2>1, <2>2, LockKept
<1>24. CASE Yield(c)
  <2>1. \A d \in CPUS \ {c} : pc'[d] = pc[d] /\ spawn'[d] = spawn[d]
    BY Zenon, <1>24 DEF Yield, CpuTypes, SpawnTypes, Goto, local_vars
  <2>2. UNCHANGED lock
    BY Zenon, <1>24 DEF Yield
  <2> QED BY Zenon, <2>1, <2>2, LockKept
<1>25. CASE Exit(c)
  <2>1. \A d \in CPUS \ {c} : pc'[d] = pc[d] /\ spawn'[d] = spawn[d]
    BY Zenon, <1>25 DEF Exit, CpuTypes, SpawnTypes, Goto, local_vars
  <2>2. UNCHANGED lock
    BY Zenon, <1>25 DEF Exit
  <2> QED BY Zenon, <2>1, <2>2, LockKept
<1>26. CASE Fault(c)
  <2>1. \A d \in CPUS \ {c} : pc'[d] = pc[d] /\ spawn'[d] = spawn[d]
    BY Zenon, <1>26 DEF Fault, CpuTypes, SpawnTypes, Goto, local_vars
  <2>2. UNCHANGED lock
    BY Zenon, <1>26 DEF Fault
  <2> QED BY Zenon, <2>1, <2>2, LockKept
<1>27. CASE SyscallSpawn(c)
  <2>1. UNCHANGED lock /\ \A d \in CPUS \ {c} : pc'[d] = pc[d] /\ spawn'[d] = spawn[d]
    BY Zenon, <1>27, SpawnChooseCpu DEF SyscallSpawn, CpuTypes
  <2> QED BY Zenon, <2>1, LockKept
<1>28. ASSUME NEW t \in Threads, Kill(c, t) PROVE \A d \in CPUS \ {c} : Kept(d)
  <2>1. \A d \in CPUS \ {c} : pc'[d] = pc[d] /\ spawn'[d] = spawn[d]
    BY Zenon, <1>28 DEF Kill, CpuTypes, SpawnTypes, Goto, local_vars
  <2>2. UNCHANGED lock
    BY Zenon, <1>28 DEF Kill
  <2> QED BY Zenon, <2>1, <2>2, LockKept
<1>29. CASE Trap(c)
  <2>1. \A d \in CPUS \ {c} : pc'[d] = pc[d] /\ spawn'[d] = spawn[d]
    BY Zenon, <1>29 DEF Trap, CpuTypes, SpawnTypes, Goto, local_vars
  <2>2. lock[c] \in {c, NoCpu}
    BY Zenon, <1>29 DEF Trap, LocksHeld, LockLabels
  <2>3. \/ UNCHANGED lock
        \/ \E h \in CPUS \cup {NoCpu} : lock' = [lock EXCEPT ![c] = h]
    BY Zenon, <1>29 DEF Trap
  <2> QED BY Zenon, <2>1, <2>2, <2>3, LockKept
<1>30. CASE TimerTrap(c)
  <2>1. \A d \in CPUS \ {c} : pc'[d] = pc[d] /\ spawn'[d] = spawn[d]
    BY Zenon, <1>30 DEF TimerTrap, CpuTypes, SpawnTypes, Goto, local_vars
  <2>2. lock[c] \in {c, NoCpu}
    BY Zenon, <1>30 DEF TimerTrap, LocksHeld, LockLabels
  <2>3. \/ UNCHANGED lock
        \/ \E h \in CPUS \cup {NoCpu} : lock' = [lock EXCEPT ![c] = h]
    BY Zenon, <1>30 DEF TimerTrap
  <2> QED BY Zenon, <2>1, <2>2, <2>3, LockKept
<1>31. CASE TimerNested(c)
  <2>1. \A d \in CPUS \ {c} : pc'[d] = pc[d] /\ spawn'[d] = spawn[d]
    BY Zenon, <1>31 DEF TimerNested, CpuTypes, SpawnTypes, Goto, local_vars
  <2>2. UNCHANGED lock
    BY Zenon, <1>31 DEF TimerNested
  <2> QED BY Zenon, <2>1, <2>2, LockKept
<1> QED BY Zenon, <1>1, <1>2, <1>3, <1>4, <1>5, <1>6, <1>7, <1>8, <1>9, <1>10, <1>11, <1>12,
         <1>13, <1>14, <1>15, <1>16, <1>17, <1>18, <1>19, <1>20, <1>21, <1>22, <1>23,
         <1>24, <1>25, <1>26, <1>27, <1>28, <1>29, <1>30, <1>31
  DEF Step, Kernel, Spawning, Waiting, Loading, Handling, SystemCall, TimerInterrupt

(* A step that spawns on, or does not spawn, keeps the spawns apart. *)
LEMMA SpawnStep ==
    ASSUME SInv, NEW c \in CPUS, Step(c), spawn' = spawn, pc'[c] \in SpawnLabels <=> pc[c] \in SpawnLabels,
           pc'[c] = "sp_acquire" => spawn[c].rq = c, pc'[c] = "sp_move" => spawn[c].rq # c
    PROVE  SpawnTypes' /\ SpawnsApart'
<1> USE DEF SInv, TypeOK
<1>1. SpawnTypes'
  BY SMTT(30) DEF SpawnTypes
<1>2. \A d \in CPUS \ {c} : pc'[d] = pc[d]
  BY SMTT(30), OthersKept DEF Kept
<1>3. \A d \in CPUS : IF pc'[d] \in SpawnLabels
                      THEN spawn'[d].th \in Threads /\ spawn'[d].rq \in CPUS
                      ELSE spawn'[d] = NoSpawn
  BY Zenon, <1>2 DEF SpawnsApart
<1>4. \A d \in CPUS : /\ pc'[d] = "sp_acquire" => spawn'[d].rq = d
                      /\ pc'[d] = "sp_move" => spawn'[d].rq # d
  BY Zenon, <1>2 DEF SpawnsApart
<1>5. \A d, e \in CPUS : spawn'[d].th = spawn'[e].th /\ spawn'[d].th # NoThread => d = e
  BY Zenon DEF SpawnsApart
<1> QED BY Zenon, <1>1, <1>3, <1>4, <1>5 DEF SpawnsApart

(* Every step keeps the spawned threads apart: schedule_thread never has   *)
(* the same thread in flight on two CPUs.                                  *)
LEMMA SpawnTypesInv ==
    ASSUME SInv, NEW c \in CPUS, Step(c)
    PROVE  SpawnTypes' /\ SpawnsApart'
<1> USE DEF SInv, TypeOK
<1>1. CASE SpawnTry(c)
  <2>1. /\ spawn' = spawn /\ pc[c] \in SpawnLabels /\ pc'[c] \in SpawnLabels
        /\ pc'[c] = "sp_acquire" => spawn[c].rq = c
        /\ pc'[c] = "sp_move" => spawn[c].rq # c
    BY Zenon, <1>1 DEF SpawnTry, CpuTypes, Goto, local_vars, SpawnLabels, InsertLabels
  <2> QED BY Zenon, <2>1, SpawnStep
<1>2. CASE SpawnMove(c)
  <2>1. /\ spawn' = [spawn EXCEPT ![c].rq = c] /\ pc[c] \in SpawnLabels
        /\ pc'[c] \in SpawnLabels /\ pc'[c] = "sp_acquire"
    BY Zenon, <1>2 DEF SpawnMove, Goto, CpuTypes, SpawnLabels, InsertLabels
  <2>2. SpawnTypes'
    BY <2>1 DEF SpawnTypes
  <2>3. spawn'[c].rq = c /\ \A d \in CPUS : spawn'[d].th = spawn[d].th
    BY <2>1 DEF SpawnTypes
  <2>4. \A d \in CPUS \ {c} : spawn'[d] = spawn[d] /\ pc'[d] = pc[d]
    BY Zenon, OthersKept DEF Kept
  <2>5. \A d \in CPUS : IF pc'[d] \in SpawnLabels
                        THEN spawn'[d].th \in Threads /\ spawn'[d].rq \in CPUS
                        ELSE spawn'[d] = NoSpawn
    <3>1. spawn[c].th \in Threads
      BY Zenon, <2>1 DEF SpawnsApart
    <3> QED BY <2>1, <2>3, <2>4, <3>1 DEF SpawnsApart
  <2>6. \A d \in CPUS : /\ pc'[d] = "sp_acquire" => spawn'[d].rq = d
                        /\ pc'[d] = "sp_move" => spawn'[d].rq # d
    BY Zenon, <2>1, <2>3, <2>4 DEF SpawnsApart
  <2>7. \A d, e \in CPUS : spawn'[d].th = spawn'[e].th /\ spawn'[d].th # NoThread => d = e
    BY SMTT(30), <2>3 DEF SpawnsApart
  <2> QED BY Zenon, <2>2, <2>5, <2>6, <2>7 DEF SpawnsApart
<1>3. CASE SpawnAcquire(c)
  <2>1. /\ spawn' = spawn /\ pc'[c] \notin {"sp_acquire", "sp_move"}
        /\ pc'[c] \in SpawnLabels <=> pc[c] \in SpawnLabels
    BY Zenon, <1>3 DEF SpawnAcquire, CpuTypes, Goto, local_vars, SpawnLabels, InsertLabels
  <2> QED BY Zenon, <2>1, SpawnStep
<1>4. CASE SpawnInsert(c)
  <2>1. /\ spawn' = spawn /\ pc'[c] \notin {"sp_acquire", "sp_move"}
        /\ pc'[c] \in SpawnLabels <=> pc[c] \in SpawnLabels
    BY Zenon, <1>4 DEF SpawnInsert, CpuTypes, Goto, local_vars, SpawnLabels, InsertLabels
  <2> QED BY Zenon, <2>1, SpawnStep
<1>5. CASE SpawnCount(c)
  <2>1. /\ spawn' = spawn /\ pc'[c] \notin {"sp_acquire", "sp_move"}
        /\ pc'[c] \in SpawnLabels <=> pc[c] \in SpawnLabels
    BY Zenon, <1>5 DEF SpawnCount, CpuTypes, Goto, local_vars, SpawnLabels, InsertLabels
  <2> QED BY Zenon, <2>1, SpawnStep
<1>6. CASE SpawnReady(c)
  <2>1. /\ spawn' = [spawn EXCEPT ![c] = NoSpawn]
        /\ pc'[c] \notin SpawnLabels /\ pc'[c] \notin {"sp_acquire", "sp_move"}
    BY Zenon, <1>6 DEF SpawnReady, Goto, CpuTypes, SpawnLabels, InsertLabels
  <2>2. /\ NoSpawn.th = NoThread
        /\ NoSpawn \in [th : Threads \cup {NoThread}, rq : CPUS \cup {NoCpu}, boot : BOOLEAN]
    BY DEF NoSpawn
  <2>3. SpawnTypes' /\ spawn'[c] = NoSpawn
    BY <2>1, <2>2 DEF SpawnTypes
  <2>4. \A d \in CPUS \ {c} : spawn'[d] = spawn[d] /\ pc'[d] = pc[d]
    BY Zenon, OthersKept DEF Kept
  <2>5. \A d \in CPUS : IF pc'[d] \in SpawnLabels
                        THEN spawn'[d].th \in Threads /\ spawn'[d].rq \in CPUS
                        ELSE spawn'[d] = NoSpawn
    BY Zenon, <2>1, <2>3, <2>4 DEF SpawnsApart
  <2>6. \A d \in CPUS : /\ pc'[d] = "sp_acquire" => spawn'[d].rq = d
                        /\ pc'[d] = "sp_move" => spawn'[d].rq # d
    BY ZenonT(30), <2>1, <2>3, <2>4 DEF SpawnsApart
  <2>7. \A d, e \in CPUS : spawn'[d].th = spawn'[e].th /\ spawn'[d].th # NoThread => d = e
    <3>1. \A d \in CPUS : spawn'[d].th = spawn[d].th \/ spawn'[d].th = NoThread
      BY Zenon, <2>2, <2>3, <2>4
    <3> QED BY SMTT(30), <3>1 DEF SpawnsApart
  <2> QED BY Zenon, <2>3, <2>5, <2>6, <2>7 DEF SpawnsApart
<1>7. CASE BootNext(c)
  <2>1. CASE next_uid <= Len(load.tasks)
    BY Zenon, <1>7, <2>1, SpawnChooseApart DEF BootNext
  <2>2. CASE ~(next_uid <= Len(load.tasks))
    <3>1. spawn' = spawn /\ pc'[c] = "start" /\ pc[c] \notin SpawnLabels /\ pc'[c] \notin SpawnLabels
      BY Zenon, <1>7, <2>2 DEF BootNext, CpuTypes, Goto, local_vars, SpawnLabels, InsertLabels
    <3> QED BY Zenon, <3>1, SpawnStep
  <2> QED BY <2>1, <2>2
<1>8. CASE EnterMark(c)
  <2>1. /\ spawn' = spawn /\ pc'[c] \notin {"sp_acquire", "sp_move"}
        /\ pc'[c] \in SpawnLabels <=> pc[c] \in SpawnLabels
    BY Zenon, <1>8 DEF EnterMark, CpuTypes, Goto, local_vars, SpawnLabels, InsertLabels
  <2> QED BY Zenon, <2>1, SpawnStep
<1>9. CASE WaitAcquire(c)
  <2>1. /\ spawn' = spawn /\ pc'[c] \notin {"sp_acquire", "sp_move"}
        /\ pc'[c] \in SpawnLabels <=> pc[c] \in SpawnLabels
    BY Zenon, <1>9 DEF WaitAcquire, CpuTypes, Goto, local_vars, SpawnLabels, InsertLabels
  <2> QED BY Zenon, <2>1, SpawnStep
<1>10. CASE WaitCheck(c)
  <2>1. /\ spawn' = spawn /\ pc'[c] \notin {"sp_acquire", "sp_move"}
        /\ pc'[c] \in SpawnLabels <=> pc[c] \in SpawnLabels
    BY Zenon, <1>10 DEF WaitCheck, CpuTypes, Goto, local_vars, SpawnLabels, InsertLabels
  <2> QED BY Zenon, <2>1, SpawnStep
<1>11. CASE PickReady(c)
  <2>1. /\ spawn' = spawn /\ pc'[c] \notin {"sp_acquire", "sp_move"}
        /\ pc'[c] \in SpawnLabels <=> pc[c] \in SpawnLabels
    BY Zenon, <1>11 DEF PickReady, CpuTypes, Goto, local_vars, RunThread, SpawnLabels, InsertLabels
  <2> QED BY Zenon, <2>1, SpawnStep
<1>12. CASE PickDead(c)
  <2>1. /\ spawn' = spawn /\ pc'[c] \notin {"sp_acquire", "sp_move"}
        /\ pc'[c] \in SpawnLabels <=> pc[c] \in SpawnLabels
    BY Zenon, <1>12 DEF PickDead, CpuTypes, Goto, local_vars, SpawnLabels, InsertLabels
  <2> QED BY Zenon, <2>1, SpawnStep
<1>13. CASE PickUncount(c)
  <2>1. /\ spawn' = spawn /\ pc'[c] \notin {"sp_acquire", "sp_move"}
        /\ pc'[c] \in SpawnLabels <=> pc[c] \in SpawnLabels
    BY Zenon, <1>13 DEF PickUncount, CpuTypes, Goto, local_vars, PickNone, SpawnLabels, InsertLabels
  <2> QED BY Zenon, <2>1, SpawnStep
<1>14. CASE PickSkip(c)
  <2>1. /\ spawn' = spawn /\ pc'[c] \notin {"sp_acquire", "sp_move"}
        /\ pc'[c] \in SpawnLabels <=> pc[c] \in SpawnLabels
    BY Zenon, <1>14 DEF PickSkip, CpuTypes, Goto, local_vars, PickNone, SpawnLabels, InsertLabels
  <2> QED BY Zenon, <2>1, SpawnStep
<1>15. CASE LoadResume(c)
  <2>1. /\ spawn' = spawn /\ pc'[c] \notin {"sp_acquire", "sp_move"}
        /\ pc'[c] \in SpawnLabels <=> pc[c] \in SpawnLabels
    BY Zenon, <1>15 DEF LoadResume, CpuTypes, Goto, local_vars, SpawnLabels, InsertLabels
  <2> QED BY Zenon, <2>1, SpawnStep
<1>16. CASE LoadPreempt(c)
  <2>1. /\ spawn' = spawn /\ pc'[c] \notin {"sp_acquire", "sp_move"}
        /\ pc'[c] \in SpawnLabels <=> pc[c] \in SpawnLabels
    BY Zenon, <1>16 DEF LoadPreempt, CpuTypes, Goto, local_vars, SpawnLabels, InsertLabels
  <2> QED BY Zenon, <2>1, SpawnStep
<1>17. CASE LoadDead(c)
  <2>1. /\ spawn' = spawn /\ pc'[c] \notin {"sp_acquire", "sp_move"}
        /\ pc'[c] \in SpawnLabels <=> pc[c] \in SpawnLabels
    BY Zenon, <1>17 DEF LoadDead, CpuTypes, Goto, local_vars, Reap, SpawnLabels, InsertLabels
  <2> QED BY Zenon, <2>1, SpawnStep
<1>18. CASE LoopReapDying(c)
  <2>1. /\ spawn' = spawn /\ pc'[c] \notin {"sp_acquire", "sp_move"}
        /\ pc'[c] \in SpawnLabels <=> pc[c] \in SpawnLabels
    BY Zenon, <1>18 DEF LoopReapDying, CpuTypes, Goto, local_vars, Reap, SpawnLabels, InsertLabels
  <2> QED BY Zenon, <2>1, SpawnStep
<1>19. CASE LoopReapDead(c)
  <2>1. /\ spawn' = spawn /\ pc'[c] \notin {"sp_acquire", "sp_move"}
        /\ pc'[c] \in SpawnLabels <=> pc[c] \in SpawnLabels
    BY Zenon, <1>19 DEF LoopReapDead, CpuTypes, Goto, local_vars, Reap, SpawnLabels, InsertLabels
  <2> QED BY Zenon, <2>1, SpawnStep
<1>20. CASE LoopSkip(c)
  <2>1. /\ spawn' = spawn /\ pc'[c] \notin {"sp_acquire", "sp_move"}
        /\ pc'[c] \in SpawnLabels <=> pc[c] \in SpawnLabels
    BY Zenon, <1>20 DEF LoopSkip, CpuTypes, Goto, local_vars, SpawnLabels, InsertLabels
  <2> QED BY Zenon, <2>1, SpawnStep
<1>21. CASE LoopSwitch(c)
  <2>1. /\ spawn' = spawn /\ pc'[c] \notin {"sp_acquire", "sp_move"}
        /\ pc'[c] \in SpawnLabels <=> pc[c] \in SpawnLabels
    BY Zenon, <1>21 DEF LoopSwitch, CpuTypes, Goto, local_vars, RunThread, SpawnLabels, InsertLabels
  <2> QED BY Zenon, <2>1, SpawnStep
<1>22. CASE Uncount(c)
  <2>1. /\ spawn' = spawn /\ pc'[c] \notin {"sp_acquire", "sp_move"}
        /\ pc'[c] \in SpawnLabels <=> pc[c] \in SpawnLabels
    BY Zenon, <1>22 DEF Uncount, CpuTypes, Goto, local_vars, SpawnLabels, InsertLabels
  <2> QED BY Zenon, <2>1, SpawnStep
<1>23. CASE Other(c)
  <2>1. /\ spawn' = spawn /\ pc'[c] \notin {"sp_acquire", "sp_move"}
        /\ pc'[c] \in SpawnLabels <=> pc[c] \in SpawnLabels
    BY Zenon, <1>23 DEF Other, CpuTypes, Goto, local_vars, SpawnLabels, InsertLabels
  <2> QED BY Zenon, <2>1, SpawnStep
<1>24. CASE Yield(c)
  <2>1. /\ spawn' = spawn /\ pc'[c] \notin {"sp_acquire", "sp_move"}
        /\ pc'[c] \in SpawnLabels <=> pc[c] \in SpawnLabels
    BY Zenon, <1>24 DEF Yield, CpuTypes, Goto, local_vars, SpawnLabels, InsertLabels
  <2> QED BY Zenon, <2>1, SpawnStep
<1>25. CASE Exit(c)
  <2>1. /\ spawn' = spawn /\ pc'[c] \notin {"sp_acquire", "sp_move"}
        /\ pc'[c] \in SpawnLabels <=> pc[c] \in SpawnLabels
    BY Zenon, <1>25 DEF Exit, CpuTypes, Goto, local_vars, SpawnLabels, InsertLabels
  <2> QED BY Zenon, <2>1, SpawnStep
<1>26. CASE Fault(c)
  <2>1. /\ spawn' = spawn /\ pc'[c] \notin {"sp_acquire", "sp_move"}
        /\ pc'[c] \in SpawnLabels <=> pc[c] \in SpawnLabels
    BY Zenon, <1>26 DEF Fault, CpuTypes, Goto, local_vars, SpawnLabels, InsertLabels
  <2> QED BY Zenon, <2>1, SpawnStep
<1>27. CASE SyscallSpawn(c)
  BY Zenon, <1>27, SpawnChooseApart DEF SyscallSpawn
<1>28. ASSUME NEW t \in Threads, Kill(c, t) PROVE SpawnTypes' /\ SpawnsApart'
  <2>1. /\ spawn' = spawn /\ pc'[c] \notin {"sp_acquire", "sp_move"}
        /\ pc'[c] \in SpawnLabels <=> pc[c] \in SpawnLabels
    BY Zenon, <1>28 DEF Kill, CpuTypes, Goto, local_vars, SpawnLabels, InsertLabels
  <2> QED BY Zenon, <2>1, SpawnStep
<1>29. CASE Trap(c)
  <2>1. /\ spawn' = spawn /\ pc'[c] \notin {"sp_acquire", "sp_move"}
        /\ pc'[c] \in SpawnLabels <=> pc[c] \in SpawnLabels
    BY Zenon, <1>29 DEF Trap, CpuTypes, Goto, local_vars, SpawnLabels, InsertLabels
  <2> QED BY Zenon, <2>1, SpawnStep
<1>30. CASE TimerTrap(c)
  <2>1. /\ spawn' = spawn /\ pc'[c] \notin {"sp_acquire", "sp_move"}
        /\ pc'[c] \in SpawnLabels <=> pc[c] \in SpawnLabels
    BY Zenon, <1>30 DEF TimerTrap, CpuTypes, Goto, local_vars, SpawnLabels, InsertLabels
  <2> QED BY Zenon, <2>1, SpawnStep
<1>31. CASE TimerNested(c)
  <2>1. /\ spawn' = spawn /\ pc'[c] \notin {"sp_acquire", "sp_move"}
        /\ pc'[c] \in SpawnLabels <=> pc[c] \in SpawnLabels
    BY Zenon, <1>31 DEF TimerNested, CpuTypes, Goto, local_vars, SpawnLabels, InsertLabels
  <2> QED BY Zenon, <2>1, SpawnStep
<1> QED BY Zenon, <1>1, <1>2, <1>3, <1>4, <1>5, <1>6, <1>7, <1>8, <1>9, <1>10, <1>11, <1>12,
         <1>13, <1>14, <1>15, <1>16, <1>17, <1>18, <1>19, <1>20, <1>21, <1>22, <1>23,
         <1>24, <1>25, <1>26, <1>27, <1>28, <1>29, <1>30, <1>31
  DEF Step, Kernel, Spawning, Waiting, Loading, Handling, SystemCall, TimerInterrupt

(* Only the locks of the CPU that takes the step need a look. *)
LEMMA LocksStep ==
    ASSUME SInv, NEW c \in CPUS, Step(c),
           pc'[c] \in LockLabels => lock'[c] = c,
           pc'[c] \in SpawnLabels /\ ~spawn'[c].boot => lock'[c] = c,
           pc'[c] = "sp_insert" => lock'[spawn'[c].rq] = c
    PROVE  LocksHeld'
<1>1. ASSUME NEW d \in CPUS \ {c}
      PROVE  /\ pc'[d] \in LockLabels => lock'[d] = d
             /\ pc'[d] \in SpawnLabels /\ ~spawn'[d].boot => lock'[d] = d
             /\ pc'[d] = "sp_insert" => lock'[spawn'[d].rq] = d
  <2>1. Kept(d)
    BY SMTT(30), OthersKept
  <2>2. pc[d] = "sp_insert" => spawn[d].rq \in CPUS
    BY Zenon DEF SInv, SpawnsApart, SpawnLabels, InsertLabels
  <2> QED BY ZenonT(30), <2>1, <2>2 DEF SInv, LocksHeld, Kept
<1> QED BY Zenon, <1>1 DEF LocksHeld

(* Every step keeps the locks: schedule(), schedule_thread and the system  *)
(* calls hold what they rely on.                                           *)
LEMMA LocksHeldInv ==
    ASSUME SInv, NEW c \in CPUS, Step(c)
    PROVE  LocksHeld'
<1> USE DEF SInv, TypeOK
<1>1. CASE SpawnTry(c)
  <2>1. /\ spawn' = spawn /\ spawn[c].rq \in CPUS /\ pc[c] \in SpawnLabels
        /\ pc'[c] \notin LockLabels
    BY ZenonT(30), <1>1 DEF SpawnTry, SpawnsApart, CpuTypes, Goto, local_vars, SpawnLabels, InsertLabels, LockLabels
  <2>2. CASE lock[spawn[c].rq] \in {NoCpu, c}
    <3>1. lock' = [lock EXCEPT ![spawn[c].rq] = c]
      BY Zenon, <1>1, <2>2 DEF SpawnTry
    <3>2. lock'[spawn[c].rq] = c /\ (lock[c] = c => lock'[c] = c)
      BY Zenon, <2>1, <3>1 DEF CpuTypes
    <3> QED BY Zenon, <2>1, <3>2, LocksStep DEF LocksHeld
  <2>3. CASE lock[spawn[c].rq] \notin {NoCpu, c}
    <3>1. lock' = lock /\ pc'[c] # "sp_insert"
      BY Zenon, <1>1, <2>3 DEF SpawnTry, Goto, CpuTypes
    <3> QED BY Zenon, <2>1, <3>1, LocksStep DEF LocksHeld
  <2> QED BY SMTT(30), <2>2, <2>3
<1>2. CASE SpawnMove(c)
  <2>1. lock' = lock /\ spawn'[c].boot = spawn[c].boot /\ pc[c] \in SpawnLabels
    BY SMTT(30), <1>2 DEF SpawnMove, SpawnTypes, SpawnLabels, InsertLabels
  <2>2. pc'[c] \notin LockLabels /\ pc'[c] # "sp_insert"
    BY Zenon, <1>2 DEF SpawnMove, CpuTypes, Goto, LockLabels
  <2> QED BY Zenon, <2>1, <2>2, LocksStep DEF LocksHeld
<1>3. CASE SpawnAcquire(c)
  <2>1. spawn' = spawn /\ spawn[c].rq = c
    BY Zenon, <1>3 DEF SpawnAcquire, SpawnsApart, local_vars
  <2>2. lock'[c] = c
    BY Zenon, <1>3 DEF SpawnAcquire, CpuTypes
  <2> QED BY Zenon, <2>1, <2>2, LocksStep
<1>4. CASE SpawnInsert(c)
  <2>1. /\ spawn' = spawn /\ pc[c] \in SpawnLabels
        /\ pc'[c] \notin LockLabels /\ pc'[c] # "sp_insert"
    BY Zenon, <1>4 DEF SpawnInsert, CpuTypes, Goto, local_vars, SpawnLabels, InsertLabels, LockLabels
  <2>2. ~spawn[c].boot /\ lock[c] = c => lock'[c] = c
    BY Zenon, <1>4 DEF SpawnInsert, CpuTypes
  <2> QED BY Zenon, <2>1, <2>2, LocksStep DEF LocksHeld
<1>5. CASE SpawnCount(c)
  <2>1. lock' = lock /\ spawn' = spawn /\ pc[c] \in SpawnLabels
    BY Zenon, <1>5 DEF SpawnCount, local_vars, SpawnLabels, InsertLabels
  <2>2. pc'[c] \notin LockLabels /\ pc'[c] # "sp_insert"
    BY Zenon, <1>5 DEF SpawnCount, CpuTypes, Goto, LockLabels
  <2> QED BY Zenon, <2>1, <2>2, LocksStep DEF LocksHeld
<1>6. CASE SpawnReady(c)
  <2>1. lock' = lock /\ pc[c] \in SpawnLabels /\ pc'[c] \notin SpawnLabels
    BY Zenon, <1>6 DEF SpawnReady, CpuTypes, Goto, SpawnLabels, InsertLabels
  <2>2. pc'[c] \in LockLabels => ~spawn[c].boot
    BY Zenon, <1>6 DEF SpawnReady, CpuTypes, Goto, LockLabels
  <2> QED BY Zenon, <2>1, <2>2, LocksStep DEF LocksHeld, SpawnLabels, InsertLabels
<1>7. CASE BootNext(c)
  <2>1. CASE next_uid <= Len(load.tasks)
    <3>1. pc'[c] = "sp_try" /\ spawn'[c].boot = TRUE
      BY Zenon, <1>7, <2>1, SpawnChooseCpu DEF BootNext, CpuTypes
    <3> QED BY Zenon, <3>1, LocksStep DEF LockLabels
  <2>2. CASE ~(next_uid <= Len(load.tasks))
    <3>1. pc'[c] = "start"
      BY Zenon, <1>7, <2>2 DEF BootNext, CpuTypes, Goto
    <3> QED BY Zenon, <3>1, LocksStep DEF LockLabels, SpawnLabels, InsertLabels
  <2> QED BY <2>1, <2>2
<1>8. CASE EnterMark(c)
  <2>1. pc'[c] \notin LockLabels /\ pc'[c] \notin SpawnLabels
    BY Zenon, <1>8 DEF EnterMark, CpuTypes, Goto, SpawnLabels, InsertLabels, LockLabels
  <2> QED BY Zenon, <2>1, LocksStep DEF SpawnLabels, InsertLabels
<1>9. CASE WaitAcquire(c)
  <2>1. lock'[c] = c /\ pc'[c] \notin SpawnLabels
    BY Zenon, <1>9 DEF WaitAcquire, CpuTypes, Goto, SpawnLabels, InsertLabels
  <2> QED BY Zenon, <2>1, LocksStep DEF SpawnLabels, InsertLabels
<1>10. CASE WaitCheck(c)
  <2>1. lock[c] = c
    BY Zenon, <1>10 DEF WaitCheck, LocksHeld, LockLabels
  <2>2. pc'[c] \notin SpawnLabels /\ (pc'[c] \notin LockLabels \/ lock' = lock)
    BY ZenonT(30), <1>10 DEF WaitCheck, CpuTypes, Goto, SpawnLabels, InsertLabels, LockLabels
  <2> QED BY Zenon, <2>1, <2>2, LocksStep DEF SpawnLabels, InsertLabels
<1>11. CASE PickReady(c)
  <2>1. pc'[c] \notin LockLabels /\ pc'[c] \notin SpawnLabels
    BY Zenon, <1>11 DEF PickReady, CpuTypes, Goto, SpawnLabels, InsertLabels, LockLabels, RunThread
  <2> QED BY Zenon, <2>1, LocksStep DEF SpawnLabels, InsertLabels
<1>12. CASE PickDead(c)
  <2>1. lock[c] = c
    BY Zenon, <1>12 DEF PickDead, LocksHeld, LockLabels
  <2>2. lock' = lock /\ pc'[c] \notin SpawnLabels
    BY Zenon, <1>12 DEF PickDead, CpuTypes, Goto, SpawnLabels, InsertLabels
  <2> QED BY Zenon, <2>1, <2>2, LocksStep DEF SpawnLabels, InsertLabels
<1>13. CASE PickUncount(c)
  <2>1. lock[c] = c
    BY Zenon, <1>13 DEF PickUncount, LocksHeld, LockLabels
  <2>2. pc'[c] \notin SpawnLabels /\ (pc'[c] \notin LockLabels \/ lock' = lock)
    BY Zenon, <1>13 DEF PickUncount, PickNone, CpuTypes, Goto, SpawnLabels, InsertLabels, LockLabels
  <2> QED BY Zenon, <2>1, <2>2, LocksStep DEF SpawnLabels, InsertLabels
<1>14. CASE PickSkip(c)
  <2>1. lock[c] = c
    BY Zenon, <1>14 DEF PickSkip, LocksHeld, LockLabels
  <2>2. pc'[c] \notin SpawnLabels /\ (pc'[c] \notin LockLabels \/ lock' = lock)
    BY Zenon, <1>14 DEF PickSkip, PickNone, CpuTypes, Goto, SpawnLabels, InsertLabels, LockLabels
  <2> QED BY Zenon, <2>1, <2>2, LocksStep DEF SpawnLabels, InsertLabels
<1>15. CASE LoadResume(c)
  <2>1. pc'[c] \notin LockLabels /\ pc'[c] \notin SpawnLabels
    BY Zenon, <1>15 DEF LoadResume, CpuTypes, Goto, SpawnLabels, InsertLabels, LockLabels
  <2> QED BY Zenon, <2>1, LocksStep DEF SpawnLabels, InsertLabels
<1>16. CASE LoadPreempt(c)
  <2>1. lock[c] = c
    BY Zenon, <1>16 DEF LoadPreempt, LocksHeld, LockLabels
  <2>2. lock' = lock /\ pc'[c] \notin SpawnLabels
    BY Zenon, <1>16 DEF LoadPreempt, CpuTypes, Goto, SpawnLabels, InsertLabels
  <2> QED BY Zenon, <2>1, <2>2, LocksStep DEF SpawnLabels, InsertLabels
<1>17. CASE LoadDead(c)
  <2>1. lock[c] = c
    BY Zenon, <1>17 DEF LoadDead, LocksHeld, LockLabels
  <2>2. lock' = lock /\ pc'[c] \notin SpawnLabels
    BY Zenon, <1>17 DEF LoadDead, CpuTypes, Goto, SpawnLabels, InsertLabels, Reap
  <2> QED BY Zenon, <2>1, <2>2, LocksStep DEF SpawnLabels, InsertLabels
<1>18. CASE LoopReapDying(c)
  <2>1. lock[c] = c
    BY Zenon, <1>18 DEF LoopReapDying, LocksHeld, LockLabels
  <2>2. lock' = lock /\ pc'[c] \notin SpawnLabels
    BY Zenon, <1>18 DEF LoopReapDying, CpuTypes, Goto, SpawnLabels, InsertLabels, Reap
  <2> QED BY Zenon, <2>1, <2>2, LocksStep DEF SpawnLabels, InsertLabels
<1>19. CASE LoopReapDead(c)
  <2>1. lock[c] = c
    BY Zenon, <1>19 DEF LoopReapDead, LocksHeld, LockLabels
  <2>2. lock' = lock /\ pc'[c] \notin SpawnLabels
    BY Zenon, <1>19 DEF LoopReapDead, CpuTypes, Goto, SpawnLabels, InsertLabels, Reap
  <2> QED BY Zenon, <2>1, <2>2, LocksStep DEF SpawnLabels, InsertLabels
<1>20. CASE LoopSkip(c)
  <2>1. lock[c] = c
    BY Zenon, <1>20 DEF LoopSkip, LocksHeld, LockLabels
  <2>2. lock' = lock /\ pc'[c] \notin SpawnLabels
    BY Zenon, <1>20 DEF LoopSkip, CpuTypes, Goto, SpawnLabels, InsertLabels
  <2> QED BY Zenon, <2>1, <2>2, LocksStep DEF SpawnLabels, InsertLabels
<1>21. CASE LoopSwitch(c)
  <2>1. pc'[c] \notin LockLabels /\ pc'[c] \notin SpawnLabels
    BY Zenon, <1>21 DEF LoopSwitch, CpuTypes, Goto, SpawnLabels, InsertLabels, LockLabels, RunThread
  <2> QED BY Zenon, <2>1, LocksStep DEF SpawnLabels, InsertLabels
<1>22. CASE Uncount(c)
  <2>1. lock[c] = c
    BY Zenon, <1>22 DEF Uncount, LocksHeld, LockLabels
  <2>2. lock' = lock /\ pc'[c] \notin SpawnLabels
    BY Zenon, <1>22 DEF Uncount, CpuTypes, Goto, SpawnLabels, InsertLabels
  <2> QED BY Zenon, <2>1, <2>2, LocksStep DEF SpawnLabels, InsertLabels
<1>23. CASE Other(c)
  <2>1. lock[c] = c
    BY Zenon, <1>23 DEF Other, LocksHeld, LockLabels
  <2>2. lock' = lock /\ pc'[c] \notin SpawnLabels
    BY Zenon, <1>23 DEF Other, CpuTypes, Goto, SpawnLabels, InsertLabels
  <2> QED BY Zenon, <2>1, <2>2, LocksStep DEF SpawnLabels, InsertLabels
<1>24. CASE Yield(c)
  <2>1. lock[c] = c
    BY Zenon, <1>24 DEF Yield, LocksHeld, LockLabels
  <2>2. lock' = lock /\ pc'[c] \notin SpawnLabels
    BY Zenon, <1>24 DEF Yield, CpuTypes, Goto, SpawnLabels, InsertLabels
  <2> QED BY Zenon, <2>1, <2>2, LocksStep DEF SpawnLabels, InsertLabels
<1>25. CASE Exit(c)
  <2>1. lock[c] = c
    BY Zenon, <1>25 DEF Exit, LocksHeld, LockLabels
  <2>2. lock' = lock /\ pc'[c] \notin SpawnLabels
    BY Zenon, <1>25 DEF Exit, CpuTypes, Goto, SpawnLabels, InsertLabels
  <2> QED BY Zenon, <2>1, <2>2, LocksStep DEF SpawnLabels, InsertLabels
<1>26. CASE Fault(c)
  <2>1. lock[c] = c
    BY Zenon, <1>26 DEF Fault, LocksHeld, LockLabels
  <2>2. lock' = lock /\ pc'[c] \notin SpawnLabels
    BY Zenon, <1>26 DEF Fault, CpuTypes, Goto, SpawnLabels, InsertLabels
  <2> QED BY Zenon, <2>1, <2>2, LocksStep DEF SpawnLabels, InsertLabels
<1>27. CASE SyscallSpawn(c)
  <2>1. lock[c] = c
    BY Zenon, <1>27 DEF SyscallSpawn, LocksHeld, LockLabels
  <2>2. pc'[c] = "sp_try" /\ lock' = lock
    BY Zenon, <1>27, SpawnChooseCpu DEF SyscallSpawn, CpuTypes
  <2> QED BY Zenon, <2>1, <2>2, LocksStep DEF LockLabels
<1>28. ASSUME NEW t \in Threads, Kill(c, t) PROVE LocksHeld'
  <2>1. lock[c] = c
    BY Zenon, <1>28 DEF Kill, LocksHeld, LockLabels
  <2>2. lock' = lock /\ pc'[c] \notin SpawnLabels
    BY Zenon, <1>28 DEF Kill, CpuTypes, Goto, SpawnLabels, InsertLabels
  <2> QED BY Zenon, <2>1, <2>2, LocksStep DEF SpawnLabels, InsertLabels
<1>29. CASE Trap(c)
  <2>1. lock'[c] = c /\ pc'[c] \notin SpawnLabels
    BY Zenon, <1>29 DEF Trap, CpuTypes, Goto, SpawnLabels, InsertLabels
  <2> QED BY Zenon, <2>1, LocksStep DEF SpawnLabels, InsertLabels
<1>30. CASE TimerTrap(c)
  <2>1. lock'[c] = c /\ pc'[c] \notin SpawnLabels
    BY Zenon, <1>30 DEF TimerTrap, CpuTypes, Goto, SpawnLabels, InsertLabels
  <2> QED BY Zenon, <2>1, LocksStep DEF SpawnLabels, InsertLabels
<1>31. CASE TimerNested(c)
  <2>1. lock' = lock /\ pc' = pc /\ pc[c] \notin SpawnLabels
    BY Zenon, <1>31 DEF TimerNested, SpawnLabels, InsertLabels
  <2> QED BY Zenon, <2>1, LocksStep DEF LocksHeld, SpawnLabels, InsertLabels
<1> QED BY Zenon, <1>1, <1>2, <1>3, <1>4, <1>5, <1>6, <1>7, <1>8, <1>9, <1>10, <1>11, <1>12,
         <1>13, <1>14, <1>15, <1>16, <1>17, <1>18, <1>19, <1>20, <1>21, <1>22, <1>23,
         <1>24, <1>25, <1>26, <1>27, <1>28, <1>29, <1>30, <1>31
  DEF Step, Kernel, Spawning, Waiting, Loading, Handling, SystemCall, TimerInterrupt

(* A CPU that schedules knows that boot is over. *)
LEMMA PastBoot ==
    ASSUME SInv, NEW c \in CPUS, pc[c] \in LockLabels \cup {"sleep", "user"}
    PROVE  0 \in ready /\ spawn[c] = NoSpawn
<1>1. spawn[c] = NoSpawn
  BY SMTT(30) DEF SInv, SpawnsApart, SpawnLabels, InsertLabels, LockLabels
<1>2. c = 0 => 0 \in ready
  BY <1>1, NoSpawnFields DEF SInv, BootFirst, LockLabels
<1>3. c # 0 => 0 \in ready
  BY DEF SInv, BootFirst, LockLabels
<1> QED BY <1>1, <1>2, <1>3

(* Once CPU 0 is ready, boot does not come back. *)
LEMMA BootOver ==
    ASSUME SInv, NEW c \in CPUS, Step(c), 0 \in ready, ready' = ready,
           pc'[c] \notin {"boot", "start"}, ~spawn'[c].boot
    PROVE  BootFirst'
<1>1. \A d \in CPUS \ {c} : pc'[d] = pc[d] /\ spawn'[d] = spawn[d]
  BY Zenon, OthersKept DEF Kept
<1>2. \A d \in CPUS : pc'[d] # "boot" /\ ~spawn'[d].boot
  BY Zenon, <1>1 DEF SInv, BootFirst
<1>3. pc'[0] # "start"
  BY Zenon, <1>1, Constants DEF SInv, BootFirst
<1> QED BY Zenon, <1>2, <1>3 DEF BootFirst

(* schedule_thread goes on in or after boot, as it began. *)
LEMMA BootSpawns ==
    ASSUME SInv, NEW c \in CPUS, Step(c), UNCHANGED <<ready, tstate>>, spawn'[c].boot = spawn[c].boot,
           pc[c] \in SpawnLabels, pc'[c] \in SpawnLabels
    PROVE  BootFirst'
<1>1. \A d \in CPUS \ {c} : pc'[d] = pc[d] /\ spawn'[d] = spawn[d]
  BY Zenon, OthersKept DEF Kept
<1>2. \A d \in CPUS : spawn'[d].boot = spawn[d].boot
  BY Zenon, <1>1
<1>3. pc[c] \notin {"boot", "start", "enter"} /\ pc'[c] \notin {"boot", "start", "enter"}
  BY Zenon DEF SpawnLabels, InsertLabels
<1>4. \A d \in CPUS : pc'[d] \in {"boot", "start", "enter"} \/ pc[d] \in {"boot", "start", "enter"} => pc'[d] = pc[d]
  BY Zenon, <1>1, <1>3
<1> QED BY Zenon, <1>2, <1>4, Constants DEF SInv, BootFirst

(* Every step keeps the order of boot: nothing is scheduled before CPU 0   *)
(* is ready.                                                               *)
LEMMA BootFirstInv ==
    ASSUME SInv, NEW c \in CPUS, Step(c)
    PROVE  BootFirst'
<1> USE DEF SInv, TypeOK
<1>1. CASE SpawnTry(c)
  <2>1. /\ UNCHANGED <<ready, tstate, spawn>>
        /\ pc[c] \in SpawnLabels /\ pc'[c] \in SpawnLabels
    BY Zenon, <1>1 DEF SpawnTry, CpuTypes, Goto, local_vars, task_vars, SpawnLabels, InsertLabels
  <2> QED BY Zenon, <2>1, BootSpawns
<1>2. CASE SpawnMove(c)
  <2>1. spawn'[c].boot = spawn[c].boot
    BY SMTT(30), <1>2 DEF SpawnMove, SpawnTypes
  <2>2. UNCHANGED <<ready, tstate>> /\ pc[c] \in SpawnLabels /\ pc'[c] \in SpawnLabels
    BY Zenon, <1>2 DEF SpawnMove, CpuTypes, Goto, SpawnLabels, InsertLabels
  <2> QED BY Zenon, <2>1, <2>2, BootSpawns
<1>3. CASE SpawnAcquire(c)
  <2>1. /\ UNCHANGED <<ready, tstate, spawn>>
        /\ pc[c] \in SpawnLabels /\ pc'[c] \in SpawnLabels
    BY Zenon, <1>3 DEF SpawnAcquire, CpuTypes, Goto, local_vars, task_vars, SpawnLabels, InsertLabels
  <2> QED BY Zenon, <2>1, BootSpawns
<1>4. CASE SpawnInsert(c)
  <2>1. /\ UNCHANGED <<ready, tstate, spawn>>
        /\ pc[c] \in SpawnLabels /\ pc'[c] \in SpawnLabels
    BY Zenon, <1>4 DEF SpawnInsert, CpuTypes, Goto, local_vars, task_vars, SpawnLabels, InsertLabels
  <2> QED BY Zenon, <2>1, BootSpawns
<1>5. CASE SpawnCount(c)
  <2>1. /\ UNCHANGED <<ready, tstate, spawn>>
        /\ pc[c] \in SpawnLabels /\ pc'[c] \in SpawnLabels
    BY Zenon, <1>5 DEF SpawnCount, CpuTypes, Goto, local_vars, task_vars, SpawnLabels, InsertLabels
  <2> QED BY Zenon, <2>1, BootSpawns
<1>6. CASE SpawnReady(c)
  <2>1. UNCHANGED <<ready, tstate>> /\ ~spawn'[c].boot
    BY Zenon, <1>6, NoSpawnFields DEF SpawnReady, SpawnTypes, task_vars
  <2>2. CASE spawn[c].boot
    <3>1. c = 0 /\ 0 \notin ready /\ pc'[c] = "boot"
      BY Zenon, <1>6, <2>2 DEF SpawnReady, BootFirst, Goto, CpuTypes
    <3>2. \A d \in CPUS \ {c} : pc'[d] = pc[d] /\ spawn'[d] = spawn[d]
      BY Zenon, OthersKept DEF Kept
    <3> QED BY Zenon, <2>1, <3>1, <3>2 DEF BootFirst
  <2>3. CASE ~spawn[c].boot
    <3>1. pc'[c] = "load" /\ pc[c] = "sp_ready"
      BY Zenon, <1>6, <2>3 DEF SpawnReady, Goto, CpuTypes
    <3>2. 0 \in ready
      BY Zenon, <2>3, <3>1 DEF BootFirst
    <3> QED BY Zenon, <2>1, <3>1, <3>2, BootOver
  <2> QED BY <2>2, <2>3
<1>7. CASE BootNext(c)
  <2>1. c = 0 /\ 0 \notin ready
    BY Zenon, <1>7 DEF BootNext, BootFirst
  <2>2. UNCHANGED <<ready, tstate>> /\ (pc'[c] = "start" \/ spawn'[c].boot)
    <3>1. CASE next_uid <= Len(load.tasks)
      BY Zenon, <1>7, <3>1, SpawnChooseCpu DEF BootNext
    <3>2. CASE ~(next_uid <= Len(load.tasks))
      BY Zenon, <1>7, <3>2 DEF BootNext, CpuTypes, Goto, task_vars
    <3> QED BY SMTT(30), <3>1, <3>2
  <2>3. \A d \in CPUS \ {c} : pc'[d] = pc[d] /\ spawn'[d] = spawn[d]
    BY Zenon, OthersKept DEF Kept
  <2> QED BY Zenon, <2>1, <2>2, <2>3 DEF BootFirst
<1>8. CASE EnterMark(c)
  <2>1. /\ ready' = ready \cup {c} /\ pc[c] = "start" /\ pc'[c] = "enter"
        /\ UNCHANGED <<spawn, tstate>>
    BY Zenon, <1>8 DEF EnterMark, Goto, CpuTypes, local_vars, task_vars
  <2>2. ~spawn[c].boot
    BY Zenon, <2>1, NoSpawnFields DEF SpawnsApart, SpawnLabels, InsertLabels
  <2>3. \A d \in CPUS \ {c} : pc'[d] = pc[d]
    BY Zenon, OthersKept DEF Kept
  <2>4. \A d \in CPUS : pc[d] = "boot" \/ spawn[d].boot => d = 0
    BY Zenon DEF BootFirst
  <2>5. CASE c = 0
    BY Zenon, <2>1, <2>2, <2>3, <2>4, <2>5 DEF BootFirst
  <2>6. CASE c # 0
    BY Zenon, <2>1, <2>3, <2>6, Constants DEF BootFirst
  <2> QED BY <2>5, <2>6
<1>9. CASE WaitAcquire(c)
  <2>1. ready' = ready /\ spawn' = spawn /\ pc'[c] = "wait"
    BY Zenon, <1>9 DEF WaitAcquire, CpuTypes, Goto, local_vars
  <2>2. ~spawn[c].boot
    BY Zenon, <1>9, NoSpawnFields DEF WaitAcquire, SpawnsApart, SpawnLabels, InsertLabels
  <2>3. 0 \in ready
    BY Zenon, <1>9, PastBoot, Constants DEF WaitAcquire
  <2> QED BY Zenon, <2>1, <2>2, <2>3, BootOver
<1>10. CASE WaitCheck(c)
  <2>1. 0 \in ready /\ ~spawn[c].boot
    BY Zenon, <1>10, PastBoot, NoSpawnFields DEF WaitCheck, LockLabels
  <2>2. ready' = ready /\ spawn' = spawn /\ pc'[c] \notin {"boot", "start"}
    BY Zenon, <1>10 DEF WaitCheck, CpuTypes, Goto, local_vars
  <2> QED BY Zenon, <2>1, <2>2, BootOver
<1>11. CASE PickReady(c)
  <2>1. 0 \in ready /\ ~spawn[c].boot
    BY Zenon, <1>11, PastBoot, NoSpawnFields DEF PickReady, LockLabels
  <2>2. ready' = ready /\ spawn' = spawn /\ pc'[c] \notin {"boot", "start"}
    BY Zenon, <1>11 DEF PickReady, CpuTypes, Goto, local_vars, RunThread
  <2> QED BY Zenon, <2>1, <2>2, BootOver
<1>12. CASE PickDead(c)
  <2>1. 0 \in ready /\ ~spawn[c].boot
    BY Zenon, <1>12, PastBoot, NoSpawnFields DEF PickDead, LockLabels
  <2>2. ready' = ready /\ spawn' = spawn /\ pc'[c] \notin {"boot", "start"}
    BY Zenon, <1>12 DEF PickDead, CpuTypes, Goto, local_vars
  <2> QED BY Zenon, <2>1, <2>2, BootOver
<1>13. CASE PickUncount(c)
  <2>1. 0 \in ready /\ ~spawn[c].boot
    BY Zenon, <1>13, PastBoot, NoSpawnFields DEF PickUncount, LockLabels
  <2>2. ready' = ready /\ spawn' = spawn /\ pc'[c] \notin {"boot", "start"}
    BY Zenon, <1>13 DEF PickUncount, CpuTypes, Goto, local_vars, PickNone
  <2> QED BY Zenon, <2>1, <2>2, BootOver
<1>14. CASE PickSkip(c)
  <2>1. 0 \in ready /\ ~spawn[c].boot
    BY Zenon, <1>14, PastBoot, NoSpawnFields DEF PickSkip, LockLabels
  <2>2. ready' = ready /\ spawn' = spawn /\ pc'[c] \notin {"boot", "start"}
    BY Zenon, <1>14 DEF PickSkip, CpuTypes, Goto, local_vars, PickNone
  <2> QED BY Zenon, <2>1, <2>2, BootOver
<1>15. CASE LoadResume(c)
  <2>1. 0 \in ready /\ ~spawn[c].boot
    BY Zenon, <1>15, PastBoot, NoSpawnFields DEF LoadResume, LockLabels
  <2>2. ready' = ready /\ spawn' = spawn /\ pc'[c] \notin {"boot", "start"}
    BY Zenon, <1>15 DEF LoadResume, CpuTypes, Goto, local_vars
  <2> QED BY Zenon, <2>1, <2>2, BootOver
<1>16. CASE LoadPreempt(c)
  <2>1. 0 \in ready /\ ~spawn[c].boot
    BY Zenon, <1>16, PastBoot, NoSpawnFields DEF LoadPreempt, LockLabels
  <2>2. ready' = ready /\ spawn' = spawn /\ pc'[c] \notin {"boot", "start"}
    BY Zenon, <1>16 DEF LoadPreempt, CpuTypes, Goto, local_vars
  <2> QED BY Zenon, <2>1, <2>2, BootOver
<1>17. CASE LoadDead(c)
  <2>1. 0 \in ready /\ ~spawn[c].boot
    BY Zenon, <1>17, PastBoot, NoSpawnFields DEF LoadDead, LockLabels
  <2>2. ready' = ready /\ spawn' = spawn /\ pc'[c] \notin {"boot", "start"}
    BY Zenon, <1>17 DEF LoadDead, CpuTypes, Goto, local_vars, Reap
  <2> QED BY Zenon, <2>1, <2>2, BootOver
<1>18. CASE LoopReapDying(c)
  <2>1. 0 \in ready /\ ~spawn[c].boot
    BY Zenon, <1>18, PastBoot, NoSpawnFields DEF LoopReapDying, LockLabels
  <2>2. ready' = ready /\ spawn' = spawn /\ pc'[c] \notin {"boot", "start"}
    BY Zenon, <1>18 DEF LoopReapDying, CpuTypes, Goto, local_vars, Reap
  <2> QED BY Zenon, <2>1, <2>2, BootOver
<1>19. CASE LoopReapDead(c)
  <2>1. 0 \in ready /\ ~spawn[c].boot
    BY Zenon, <1>19, PastBoot, NoSpawnFields DEF LoopReapDead, LockLabels
  <2>2. ready' = ready /\ spawn' = spawn /\ pc'[c] \notin {"boot", "start"}
    BY Zenon, <1>19 DEF LoopReapDead, CpuTypes, Goto, local_vars, Reap
  <2> QED BY Zenon, <2>1, <2>2, BootOver
<1>20. CASE LoopSkip(c)
  <2>1. 0 \in ready /\ ~spawn[c].boot
    BY Zenon, <1>20, PastBoot, NoSpawnFields DEF LoopSkip, LockLabels
  <2>2. ready' = ready /\ spawn' = spawn /\ pc'[c] \notin {"boot", "start"}
    BY Zenon, <1>20 DEF LoopSkip, CpuTypes, Goto, local_vars
  <2> QED BY Zenon, <2>1, <2>2, BootOver
<1>21. CASE LoopSwitch(c)
  <2>1. 0 \in ready /\ ~spawn[c].boot
    BY Zenon, <1>21, PastBoot, NoSpawnFields DEF LoopSwitch, LockLabels
  <2>2. ready' = ready /\ spawn' = spawn /\ pc'[c] \notin {"boot", "start"}
    BY Zenon, <1>21 DEF LoopSwitch, CpuTypes, Goto, local_vars, RunThread
  <2> QED BY Zenon, <2>1, <2>2, BootOver
<1>22. CASE Uncount(c)
  <2>1. 0 \in ready /\ ~spawn[c].boot
    BY Zenon, <1>22, PastBoot, NoSpawnFields DEF Uncount, LockLabels
  <2>2. ready' = ready /\ spawn' = spawn /\ pc'[c] \notin {"boot", "start"}
    BY Zenon, <1>22 DEF Uncount, CpuTypes, Goto, local_vars
  <2> QED BY Zenon, <2>1, <2>2, BootOver
<1>23. CASE Other(c)
  <2>1. 0 \in ready /\ ~spawn[c].boot
    BY Zenon, <1>23, PastBoot, NoSpawnFields DEF Other, LockLabels
  <2>2. ready' = ready /\ spawn' = spawn /\ pc'[c] \notin {"boot", "start"}
    BY Zenon, <1>23 DEF Other, CpuTypes, Goto, local_vars
  <2> QED BY Zenon, <2>1, <2>2, BootOver
<1>24. CASE Yield(c)
  <2>1. 0 \in ready /\ ~spawn[c].boot
    BY Zenon, <1>24, PastBoot, NoSpawnFields DEF Yield, LockLabels
  <2>2. ready' = ready /\ spawn' = spawn /\ pc'[c] \notin {"boot", "start"}
    BY Zenon, <1>24 DEF Yield, CpuTypes, Goto, local_vars
  <2> QED BY Zenon, <2>1, <2>2, BootOver
<1>25. CASE Exit(c)
  <2>1. 0 \in ready /\ ~spawn[c].boot
    BY Zenon, <1>25, PastBoot, NoSpawnFields DEF Exit, LockLabels
  <2>2. ready' = ready /\ spawn' = spawn /\ pc'[c] \notin {"boot", "start"}
    BY Zenon, <1>25 DEF Exit, CpuTypes, Goto, local_vars
  <2> QED BY Zenon, <2>1, <2>2, BootOver
<1>26. CASE Fault(c)
  <2>1. 0 \in ready /\ ~spawn[c].boot
    BY Zenon, <1>26, PastBoot, NoSpawnFields DEF Fault, LockLabels
  <2>2. ready' = ready /\ spawn' = spawn /\ pc'[c] \notin {"boot", "start"}
    BY Zenon, <1>26 DEF Fault, CpuTypes, Goto, local_vars
  <2> QED BY Zenon, <2>1, <2>2, BootOver
<1>27. CASE SyscallSpawn(c)
  <2>1. 0 \in ready
    BY Zenon, <1>27, PastBoot DEF SyscallSpawn, LockLabels
  <2>2. ready' = ready /\ ~spawn'[c].boot /\ pc'[c] = "sp_try"
    BY Zenon, <1>27, SpawnChooseCpu DEF SyscallSpawn, CpuTypes
  <2> QED BY Zenon, <2>1, <2>2, BootOver
<1>28. ASSUME NEW t \in Threads, Kill(c, t) PROVE BootFirst'
  <2>1. 0 \in ready /\ ~spawn[c].boot
    BY Zenon, <1>28, PastBoot, NoSpawnFields DEF Kill, LockLabels
  <2>2. ready' = ready /\ spawn' = spawn /\ pc'[c] \notin {"boot", "start"}
    BY Zenon, <1>28 DEF Kill, CpuTypes, Goto, local_vars
  <2> QED BY Zenon, <2>1, <2>2, BootOver
<1>29. CASE Trap(c)
  <2>1. 0 \in ready /\ ~spawn[c].boot
    BY Zenon, <1>29, PastBoot, NoSpawnFields DEF Trap, LockLabels
  <2>2. ready' = ready /\ spawn' = spawn /\ pc'[c] \notin {"boot", "start"}
    BY Zenon, <1>29 DEF Trap, CpuTypes, Goto, local_vars
  <2> QED BY Zenon, <2>1, <2>2, BootOver
<1>30. CASE TimerTrap(c)
  <2>1. 0 \in ready /\ ~spawn[c].boot
    BY Zenon, <1>30, PastBoot, NoSpawnFields DEF TimerTrap, LockLabels
  <2>2. ready' = ready /\ spawn' = spawn /\ pc'[c] \notin {"boot", "start"}
    BY Zenon, <1>30 DEF TimerTrap, CpuTypes, Goto, local_vars
  <2> QED BY Zenon, <2>1, <2>2, BootOver
<1>31. CASE TimerNested(c)
  <2>1. 0 \in ready /\ ~spawn[c].boot
    BY Zenon, <1>31, PastBoot, NoSpawnFields DEF TimerNested, LockLabels
  <2>2. ready' = ready /\ spawn' = spawn /\ pc'[c] \notin {"boot", "start"}
    BY Zenon, <1>31 DEF TimerNested, CpuTypes, Goto, local_vars
  <2> QED BY Zenon, <2>1, <2>2, BootOver
<1> QED BY Zenon, <1>1, <1>2, <1>3, <1>4, <1>5, <1>6, <1>7, <1>8, <1>9, <1>10, <1>11, <1>12,
         <1>13, <1>14, <1>15, <1>16, <1>17, <1>18, <1>19, <1>20, <1>21, <1>22, <1>23,
         <1>24, <1>25, <1>26, <1>27, <1>28, <1>29, <1>30, <1>31
  DEF Step, Kernel, Spawning, Waiting, Loading, Handling, SystemCall, TimerInterrupt

============================================================================
