----------------------------- MODULE UserAlloc -----------------------------
(***************************************************************************)
(* The user runtime's allocator (userspace/stl/src/alloc) and the threads  *)
(* that share it: arenas of equal slots taken from mmap, a list of         *)
(* allocation records that themselves live in slots, one spinlock around   *)
(* it all, and the block in which thread_create hands its arguments to the *)
(* new thread.  A call is one step while the lock is held; a thread can be *)
(* killed by another one at any point, also with the lock in its hand.     *)
(*                                                                         *)
(* An arena is named by its first page and keeps its place in the list of  *)
(* its class; a slot is <<arena, index>>.  mmap and munmap are modelled by *)
(* their result: the highest free range, as uregion_find_free gives it, or *)
(* none (module UserMemory has the system calls themselves).               *)
(***************************************************************************)
EXTENDS Naturals, FiniteSetsExt, SequencesExt

CONSTANTS StlEntries,   \* [class -> slots of an arena]; a class is a slot size
          StlNode,      \* sizeof(struct MallocNode)
          StlPageSize,  \* bytes of a page, for blocks above the last class
          StlPages,     \* pages mmap can give
          StlWants,     \* sizes the threads ask for
          StlThreads,   \* 1..n; thread 1 is the first one
          StlOps        \* bound on calls of the allocator and kills

VARIABLES stl,          \* arenas, best, records, mapped pages
          stl_lock,     \* the thread that holds STL_ALLOCATOR_LOCK, or 0
          stl_th,       \* the threads: pc, the call in job, blocks they own, args
          stl_failed,   \* "none", or why the task ended
          stl_calls

stlVars == <<stl, stl_lock, stl_th, stl_failed, stl_calls>>

StlClasses == DOMAIN StlEntries
ClassOf(bytes) == Min({c \in StlClasses : c >= bytes})
Cached(bytes) == bytes <= Max(StlClasses)

Full(c, a) == Cardinality(a.used) = StlEntries[c]
PosOf(list, id) == CHOOSE i \in 1..Len(list) : list[i].id = id
Without(list, id) == SelectSeq(list, LAMBDA a : a.id # id)

\* syscall_mmap of n pages without an address: the first page of the range
\* uregion_find_free returns, the highest one that is free, or 0.
FreeRanges(s, n) == {p \in 1..StlPages : (p .. (p + n - 1)) \subseteq (1..StlPages) \ s.mapped}
HighestRange(s, n) == IF FreeRanges(s, n) = {} THEN 0 ELSE Max(FreeRanges(s, n))

----------------------------------------------------------------------------
(* One class of arenas.                                                    *)

\* update_best_fit(tail): the last arena that has room, or none.  The search
\* from another arena looks behind it first, then in front of it.
BestFrom(c, list, at) ==
    LET room == {i \in 1..Len(list) : ~Full(c, list[i])}
        behind == {i \in room : i >= at}
    IN  IF behind # {} THEN list[Min(behind)].id
        ELSE IF room # {} THEN list[Max(room)].id ELSE 0

\* new_tail
NewTail(s, c) ==
    LET p == HighestRange(s, 1)
    IN  [s EXCEPT !.arenas[c] = Append(@, [id |-> p, used |-> {}]), !.mapped = @ \cup {p},
                  !.best[c] = p]

\* push: a slot of the best arena; a full arena goes to the head of the list.
push(s, c) ==
    LET v == IF s.best[c] = 0 THEN NewTail(s, c) ELSE s
        list == v.arenas[c]
        at == PosOf(list, v.best[c])
        slot == Min((0 .. (StlEntries[c] - 1)) \ list[at].used)
        taken == [list EXCEPT ![at].used = @ \cup {slot}]
        headed == <<taken[at]>> \o Without(taken, taken[at].id)
    IN  [v EXCEPT !.arenas[c] = IF Full(c, taken[at]) THEN headed ELSE taken,
                  !.best[c] = IF Full(c, taken[at]) THEN BestFrom(c, headed, Len(headed)) ELSE @,
                  !.pt = <<list[at].id, slot>>]
NoArena(s, c) == s.best[c] = 0 /\ HighestRange(s, 1) = 0

\* pop: an empty arena is unmapped; one that was full goes to the tail.
pop(s, c, pt) ==
    LET list == s.arenas[c]
        at == PosOf(list, pt[1])
        wasFull == Full(c, list[at])
        a == [list[at] EXCEPT !.used = @ \ {pt[2]}]
        rest == Without(list, a.id)
        from == IF at <= Len(rest) THEN at ELSE Len(rest)
        kept == IF wasFull THEN Append(rest, a) ELSE [list EXCEPT ![at] = a]
        better == wasFull /\ (s.best[c] = 0 \/
                    Cardinality(a.used) < Cardinality(list[PosOf(list, s.best[c])].used))
    IN  IF a.used = {}
        THEN [s EXCEPT !.arenas[c] = rest, !.mapped = @ \ {a.id},
                       !.best[c] = IF @ # a.id THEN @ ELSE IF rest = <<>> THEN 0 ELSE BestFrom(c, rest, from)]
        ELSE [s EXCEPT !.arenas[c] = kept, !.best[c] = IF better THEN a.id ELSE @]

\* Bitmap::pop answers false for a slot that is free already.
StlInUse(s, c, pt) == \E i \in 1..Len(s.arenas[c]) : s.arenas[c][i].id = pt[1] /\ pt[2] \in s.arenas[c][i].used

----------------------------------------------------------------------------
(* __stl_malloc and __stl_free.                                            *)

\* The block, then its record in a slot of its own at the head of the list.
StlFail(s, why) == [s EXCEPT !.fail = why]
Record(s, block) ==
    LET c == ClassOf(StlNode)
        v == push(s, c)
    IN  IF NoArena(s, c) THEN StlFail(s, "no memory")
        ELSE [v EXCEPT !.records = <<[block |-> block, node |-> v.pt]>> \o @]

__stl_malloc(s, bytes) ==
    LET c == ClassOf(bytes)
        pages == (bytes + StlPageSize - 1) \div StlPageSize
        v == push(s, c)
        p == HighestRange(s, pages)
    IN  IF Cached(bytes)
        THEN IF NoArena(s, c) THEN StlFail(s, "no memory")
             ELSE Record(v, [pt |-> v.pt, class |-> c, bytes |-> bytes])
        ELSE IF p = 0 THEN StlFail(s, "no memory")
             ELSE Record([s EXCEPT !.mapped = @ \cup (p .. (p + pages - 1))],
                         [pt |-> <<p, 0>>, class |-> 0, bytes |-> bytes])

\* stl_pop_allocation_data, then stl_cache_free or stl_mmap_free.
Matching(s, pt) == {i \in 1..Len(s.records) : s.records[i].block.pt = pt}
FreeBlock(s, b) ==
    IF b.class = 0
    THEN [s EXCEPT !.mapped = @ \ (b.pt[1] .. (b.pt[1] + ((b.bytes + StlPageSize - 1) \div StlPageSize) - 1))]
    ELSE IF StlInUse(s, b.class, b.pt) THEN pop(s, b.class, b.pt) ELSE StlFail(s, "free failed")
__stl_freeKeepsNode(s, pt) ==
    IF Matching(s, pt) = {} THEN StlFail(s, "free failed")
    ELSE LET i == Min(Matching(s, pt))
         IN  FreeBlock([s EXCEPT !.records = RemoveAt(@, i)], s.records[i].block)
__stl_free(s, pt) ==
    IF Matching(s, pt) = {} THEN StlFail(s, "free failed")
    ELSE LET i == Min(Matching(s, pt))
             r == s.records[i]
             v == [s EXCEPT !.records = RemoveAt(@, i)]
             c == ClassOf(StlNode)
         IN  IF ~StlInUse(v, c, r.node) THEN StlFail(v, "free failed") ELSE FreeBlock(pop(v, c, r.node), r.block)
----------------------------------------------------------------------------
(* The threads.                                                            *)
NoThread == [pc |-> "none", job |-> <<>>, mine |-> {}, args |-> <<>>]

StlInit ==
    /\ stl = [arenas |-> [c \in StlClasses |-> <<>>], best |-> [c \in StlClasses |-> 0],
              records |-> <<>>, mapped |-> {}, pt |-> <<>>, fail |-> "none"]
    /\ stl_lock = 0
    /\ stl_th = [i \in StlThreads |-> IF i = 1 THEN [NoThread EXCEPT !.pc = "run"] ELSE NoThread]
    /\ stl_failed = "none" /\ stl_calls = 0

\* A call starts with Spinlock::lock.
StlCalls(i, job) ==
    /\ stl_failed = "none"
    /\ stl_calls < StlOps /\ stl_calls' = stl_calls + 1
    /\ stl_th' = [stl_th EXCEPT ![i].pc = "want", ![i].job = job]
    /\ UNCHANGED <<stl, stl_lock, stl_failed>>

StlAlloc(i) == stl_th[i].pc = "run" /\ \E n \in StlWants : StlCalls(i, [op |-> "alloc", bytes |-> n, then |-> "run"])
StlFree(i) == stl_th[i].pc = "run" /\ \E b \in stl_th[i].mine : StlCalls(i, [op |-> "free", block |-> b, then |-> "run"])

\* thread_create: the block for the arguments of the new thread.
StlThreadCreate(i) ==
    stl_th[i].pc = "run" /\ StlCalls(i, [op |-> "alloc", bytes |-> Min(StlWants), then |-> "spawn"])

\* The compare-and-swap of Spinlock::lock.
StlAcquire(i) ==
    /\ stl_failed = "none" /\ stl_th[i].pc = "want" /\ stl_lock = 0
    /\ stl_lock' = i
    /\ stl_th' = [stl_th EXCEPT ![i].pc = "in"]
    /\ UNCHANGED <<stl, stl_failed, stl_calls>>

\* What the call leaves its thread with.
Returned(th, s) ==
    LET got == s.records[1].block
        done == [th EXCEPT !.pc = th.job.then, !.job = <<>>]
    IN  IF s.fail # "none" THEN done
        ELSE IF th.job.op = "free" THEN [done EXCEPT !.mine = @ \ {th.job.block},
                                                     !.args = IF @ = th.job.block THEN <<>> ELSE @]
        ELSE IF th.job.then = "spawn" THEN [done EXCEPT !.args = got]
        ELSE [done EXCEPT !.mine = @ \cup {got}]

\* The closure under the lock, and the drop of the guard.  A null block and a
\* failed free end the task (assert!, panic!, stl_panic).
StlCall(i) ==
    LET job == stl_th[i].job
        s == IF job.op = "alloc" THEN __stl_malloc(stl, job.bytes) ELSE __stl_free(stl, job.block.pt)
    IN  /\ stl_failed = "none" /\ stl_th[i].pc = "in"
        /\ stl' = [s EXCEPT !.pt = <<>>]
        /\ stl_failed' = s.fail
        /\ stl_lock' = 0
        /\ stl_th' = [stl_th EXCEPT ![i] = Returned(@, s)]
        /\ UNCHANGED stl_calls

\* syscall_spawn: the argument block goes to the new thread, or is freed when
\* the kernel refuses.
StlSpawn(i) ==
    /\ stl_failed = "none" /\ stl_th[i].pc = "spawn"
    /\ \E j \in StlThreads :
         /\ stl_th[j].pc = "none"
         /\ stl_th' = [stl_th EXCEPT ![i].pc = "run", ![i].args = <<>>,
                                     ![j] = [NoThread EXCEPT !.pc = "entry", !.args = stl_th[i].args]]
    /\ UNCHANGED <<stl, stl_lock, stl_failed, stl_calls>>
StlSpawnRefused(i) == stl_th[i].pc = "spawn" /\ StlCalls(i, [op |-> "free", block |-> stl_th[i].args, then |-> "run"])

\* __stl_setup_thread_entry: the new thread frees the block and runs.
StlEntry(i) == stl_th[i].pc = "entry" /\ StlCalls(i, [op |-> "free", block |-> stl_th[i].args, then |-> "run"])

\* syscall_kill, of itself at the end or of another thread wherever that is.
StlKill(i) ==
    /\ stl_failed = "none" /\ stl_th[i].pc = "run"
    /\ stl_calls < StlOps /\ stl_calls' = stl_calls + 1
    /\ \E j \in StlThreads : /\ stl_th[j].pc \notin {"none", "gone"}
                              /\ stl_th' = [stl_th EXCEPT ![j].pc = "gone"]
    /\ UNCHANGED <<stl, stl_lock, stl_failed>>

StlNext == \E i \in StlThreads :
    \/ StlAlloc(i) \/ StlFree(i) \/ StlThreadCreate(i) \/ StlAcquire(i) \/ StlCall(i)
    \/ StlSpawn(i) \/ StlSpawnRefused(i) \/ StlEntry(i) \/ StlKill(i)

----------------------------------------------------------------------------
StlBlocks == UNION {stl_th[i].mine \cup ({stl_th[i].args} \ {<<>>}) : i \in StlThreads}
StlSlots == UNION {UNION {{<<stl.arenas[c][i].id, k>> : k \in stl.arenas[c][i].used}
                          : i \in 1..Len(stl.arenas[c])} : c \in StlClasses}

\* Every slot in use is the block of a thread or the record of one, and every
\* block has a record and a slot of a class that holds it: no slot is handed
\* out twice and none is lost, whichever thread frees a block, and freeing a
\* block that its thread owns never fails.
StlSlotsMatch ==
    LET cached == {b \in StlBlocks : b.class # 0}
        nodes == {stl.records[i].node : i \in 1..Len(stl.records)}
    IN  /\ stl_failed # "free failed"
        /\ stl_failed = "none" =>
             /\ {stl.records[i].block : i \in 1..Len(stl.records)} = StlBlocks
             /\ Cardinality(StlBlocks) = Len(stl.records)
             /\ StlSlots = {b.pt : b \in cached} \cup nodes
             /\ Cardinality(StlSlots) = Cardinality(cached) + Len(stl.records)
             /\ \A b \in cached : b.class >= b.bytes
=============================================================================
