----------------------------- MODULE UserMemory -----------------------------
(***************************************************************************)
(* The user memory of the tasks: the regions a task has reserved, the      *)
(* pages of them that are committed, the page tables of the task, and what *)
(* changes them: elf_load, the system calls mmap, munmap, read, write and  *)
(* spawn, and the faults of user code.                                     *)
(*                                                                         *)
(* An address counts words of half a page.  A region is a record of its    *)
(* first page, its page count, its flags, the committed pages (the         *)
(* bitfield; F_FULL_MAPPED and F_PARTIALLY_MAPPED follow from it) and its  *)
(* physical blocks (physical_data).  Everything done under a task's        *)
(* memory_lock is one step, except munmap: it gives the frames of a block  *)
(* back before it unmaps them, and other CPUs run in between.  raw_kmalloc *)
(* is modelled by what it returns, an aligned block of free frames.        *)
(* Addresses are 64 bits and page counts 32 bits wide: both wrap, at       *)
(* UmSpace and UmCount pages.  Nothing compares an address of a system     *)
(* call with USR_ADDRSPACE_END; pages from UmPages on are addresses the    *)
(* page tables of a task cannot map.                                       *)
(* ASSERT and PANIC end the model; DEBUG_ASSERT does nothing.              *)
(***************************************************************************)
EXTENDS Integers, FiniteSetsExt, SequencesExt

CONSTANTS UmTasks,   \* the tasks kernel_entry loads
          UmCpus,    \* CPUs; each runs at most one user thread
          UmFirst,   \* [UmTasks -> UmCpus]: the CPU of a task's first thread
          UmElf,     \* [UmTasks -> Seq([page, memsz, filesz, flags])]
          UmPages,   \* USR_ADDRSPACE_END, in pages
          UmSpace,   \* the 64-bit address space, in pages
          UmCount,   \* what a 32-bit page count wraps at
          UmFrames,  \* page frames of the physical memory
          UmMmaps,   \* [addr, length, prot, fixed]: the mmap calls, in words
          UmMunmaps, \* [page, pages]: the munmap calls, none above KERNEL_BASE
          UmAddrs,   \* addresses user code and its copies start at, in words
          UmSizes,   \* words a user access or a copy covers
          UmExceptions, \* [ec, dfsc]: exceptions of user code other than those below
          UmOps      \* bound on system calls and exceptions

VARIABLES um,        \* the memory: see UmInit
          um_on,     \* the task whose thread a CPU runs, or "none"
          um_busy,   \* the munmap in progress on a CPU
          um_dead,   \* terminated tasks
          um_taint,  \* frames written through a mapping whose frame was freed
          um_calls   \* how many of these there were

umVars == <<um, um_on, um_busy, um_dead, um_taint, um_calls>>

----------------------------------------------------------------------------
NoMunmap == [task |-> "none"]
NoBlock == [ua |-> 0, pa |-> 0, n |-> 0]

PagesOf(r) == r.start .. (r.start + r.pages - 1)
BlockPages(b) == b.ua .. (b.ua + b.n - 1)
BlockFrames(b) == b.pa .. (b.pa + b.n - 1)

\* align_down(a) and align_up(a + size): no page when the sum wraps.
Wraps(a, size) == a + size + 1 >= 2 * UmSpace
WordPages(a, size) == (a \div 2) .. ((((a + size + 1) % (2 * UmSpace)) \div 2) - 1)
Words(a, size) == {(a + i) % (2 * UmSpace) : i \in 0..(size - 1)}

\* div_ceil(length, PAGE_SIZE), given to a uint32_t.
NPages(length) == (((length + 1) % (2 * UmSpace)) \div 2) % UmCount

\* No region reaches the end of the 64-bit address space: its end would wrap to
\* 0, and what a search of the tree finds would depend on the tree's shape.
ASSUME UmAssumption ==
    /\ UmCount < UmPages /\ UmPages < UmSpace
    /\ \A call \in UmMmaps : (call.addr \div 2) + NPages(call.length) < UmSpace

Running(w) == w.panic = "none"
UmStop(w, why) == [w EXCEPT !.panic = why]
Note(w, cond, what) == IF cond THEN [w EXCEPT !.seen = @ \cup {what}] ELSE w

\* region_find_usrva
RegionsAt(w, t, p) == {r \in w.regions[t] : p \in PagesOf(r)}
Reserved(w, t, p) == RegionsAt(w, t, p) # {}
RegionAt(w, t, p) == CHOOSE r \in w.regions[t] : p \in PagesOf(r)
SetRegion(w, t, old, new) == [w EXCEPT !.regions[t] = (@ \ {old}) \cup {new}]

\* region_insert: refuses a region that is neither below nor above another one.
OverlapsRegion(w, t, p, n) == \E r \in w.regions[t] : p + n > r.start /\ p < r.start + r.pages
node_malloc(p, n, flags) ==
    [start |-> p, pages |-> n, flags |-> flags, committed |-> {}, phys |-> {}]
uregion_reserve(w, t, p, n, flags) ==
    Note([w EXCEPT !.regions[t] = @ \cup {node_malloc(p, n, flags)}], p + n > UmPages, "beyond")

\* uregion_find_free: the first gap of n pages, from the end of the user address
\* space downwards; UmSpace stands for "none".  The gap is unsigned: above a
\* region that ends past USR_ADDRSPACE_END it wraps.
NotFound == UmSpace
Downwards(rs) == SetToSortSeq(rs, LAMBDA r, q : r.start > q.start \/ (r.start = q.start /\ r.pages > q.pages))
FindFree(rs, n, wanted) ==
    LET desc == Downwards(rs)
        prev(i) == IF i = 1 THEN UmPages ELSE desc[i - 1].start
        gap(i) == (prev(i) - (desc[i].start + desc[i].pages)) % UmSpace
        fits == {i \in DOMAIN desc : gap(i) >= wanted}
        top == prev(IF fits = {} THEN Len(desc) + 1 ELSE Min(fits))
    IN  IF n = 0 \/ top < n THEN NotFound ELSE top - n
uregion_find_free(rs, n) == FindFree(rs, n, n)

----------------------------------------------------------------------------
(* Committing.                                                             *)

\* raw_kmalloc of n frames with kmap: an aligned block of free frames.
UmFreeBlocks(w, n) == {f \in w.free : f % n = 0 /\ (f .. (f + n - 1)) \subseteq w.free}

\* usr_mmu_cfg_from_flags has no configuration for the other flags.
HasMmuCfg(flags) == flags \in {{"R", "W"}, {"R"}, {"R", "X"}}

Log2Block(n) == CHOOSE b \in {2^k : k \in 0..n} : b <= n /\ 2 * b > n

\* One round of map_user_region: rbt_insert refuses a block that starts where
\* another one does, but puts one that overlaps another into the tree; mmu_map
\* refuses a range that leaves the lower half (is_in_range).
MapBlock(w, t, r, p, n, zeroed) ==
    IF UmFreeBlocks(w, n) = {} THEN UmStop(w, "out of frames")
    ELSE IF \E b \in r.phys : b.ua = p THEN UmStop(w, "committed twice")
    ELSE IF ~HasMmuCfg(r.flags) THEN UmStop(w, "flags")
    ELSE IF p + n > UmPages THEN UmStop(w, "not in range")
    ELSE LET b == [ua |-> p, pa |-> Min(UmFreeBlocks(w, n)), n |-> n]
             v == SetRegion(w, t, r, [r EXCEPT !.phys = @ \cup {b}])
         IN  [v EXCEPT !.free = @ \ BlockFrames(b),
                       !.mem = [f \in UmFrames |-> IF zeroed /\ f \in BlockFrames(b)
                                                   THEN <<"zero", "zero">> ELSE @[f]],
                       !.map[t] = [q \in 0..(UmPages - 1) |->
                                     IF q \in BlockPages(b)
                                     THEN [frame |-> b.pa + q - p, flags |-> r.flags] ELSE @[q]]]

RECURSIVE map_user_region(_, _, _, _, _, _)
map_user_region(w, t, start, p, rem, zeroed) ==
    IF rem = 0 \/ ~Running(w) THEN w
    ELSE LET n == Log2Block(rem)
         IN  map_user_region(MapBlock(w, t, RegionAt(w, t, start), p, n, zeroed),
                             t, start, p + n, rem - n, zeroed)

committed_set(r, p, n) == [r EXCEPT !.committed = @ \cup (p .. (p + n - 1))]

\* commit: map, then committed_set.  Nothing leaves out the pages of the area
\* that are committed already.
Mixed(w, t, p, n) == (p .. (p + n - 1)) \cap RegionAt(w, t, p).committed # {}
CommitNotSet(w, t, p, n, zeroed) == map_user_region(w, t, p, p, n, zeroed)
commit(w, t, p, n, zeroed) ==
    LET v == map_user_region(Note(w, Mixed(w, t, p, n), "mixed"), t, p, p, n, zeroed)
        r == RegionAt(v, t, p)
    IN  IF Running(v)
        THEN SetRegion(v, t, r, committed_set(r, p, n)) ELSE v

uregion_reserve_static(w, t, p, n, flags) ==
    commit(uregion_reserve(w, t, p, n, flags), t, p, n, FALSE)

----------------------------------------------------------------------------
(* uregions_check_access: the first pass looks at one chunk per region and  *)
(* stops at the first it refuses; the second commits the chunks that are    *)
(* not wholly committed.                                                    *)
ChunkStarts(w, t, P) ==
    {p \in P : p = Min(P) \/ ~Reserved(w, t, p) \/ p = RegionAt(w, t, p).start}
Chunk(w, t, P, p) == {q \in PagesOf(RegionAt(w, t, p)) : q >= p /\ q <= Max(P)}
uregion_is_committed(w, t, P, p) == Chunk(w, t, P, p) \subseteq RegionAt(w, t, p).committed

unode_check_access(w, t, P, p, required, forbidden, demand) ==
    IF ~Reserved(w, t, p) THEN "not reserved"
    ELSE IF ~(required \subseteq RegionAt(w, t, p).flags)
            \/ RegionAt(w, t, p).flags \cap forbidden # {} THEN "no permission"
    ELSE IF ~demand /\ ~uregion_is_committed(w, t, P, p)
         THEN "not committed"
    ELSE "ok"

CheckPass(w, t, P, required, forbidden, demand) ==
    LET refused == {p \in ChunkStarts(w, t, P) :
                      unode_check_access(w, t, P, p, required, forbidden, demand) # "ok"}
    IN  IF refused = {} THEN "ok"
        ELSE unode_check_access(w, t, P, Min(refused), required, forbidden, demand)

CommitPass(w, t, P) ==
    FoldLeft(LAMBDA v, p : IF Running(v) /\ ~uregion_is_committed(w, t, P, p)
                           THEN commit(v, t, p, Cardinality(Chunk(w, t, P, p)), TRUE) ELSE v,
             w, SetToSortSeq(ChunkStarts(w, t, P), <))

\* What follows a check: the memory, with the areas committed when it passed.
Checked(w, t, P, required, forbidden, demand) ==
    IF demand /\ CheckPass(w, t, P, required, forbidden, demand) = "ok" THEN CommitPass(w, t, P) ELSE w

----------------------------------------------------------------------------
(* umemcpy and umemzero: after the check, word by word through the physical *)
(* block of the page; "none" reads the words.  The check sees no page of a  *)
(* range that wraps; the copy then follows the NULL that region_find_usrva  *)
(* returns.                                                                 *)
BlocksAt(w, t, p) == UNION {{b \in r.phys : p \in BlockPages(b)} : r \in RegionsAt(w, t, p)}
FrameOf(w, t, p) == LET b == CHOOSE b \in BlocksAt(w, t, p) : TRUE IN b.pa + p - b.ua

Copy(w, t, a, size, value) ==
    IF \E x \in Words(a, size) : ~Reserved(w, t, x \div 2) THEN UmStop(w, "no region")
    ELSE IF \E x \in Words(a, size) : BlocksAt(w, t, x \div 2) = {} THEN UmStop(w, "no physical block")
    ELSE IF value = "none" THEN w
    ELSE FoldSet(LAMBDA x, v : [v EXCEPT !.mem[FrameOf(w, t, x \div 2)][1 + (x % 2)] = value],
                 w, Words(a, size))

umemcpy(w, t, a, size, required, forbidden, demand, value) ==
    LET P == WordPages(a, size)
        v == Checked(Note(w, Wraps(a, size), "wrapped"), t, P, required, forbidden, demand)
    IN  IF CheckPass(w, t, P, required, forbidden, demand) # "ok" \/ ~Running(v) THEN v
        ELSE Copy(v, t, a, size, value)
umemzero(w, t, a, size) == umemcpy(w, t, a, size, {}, {}, FALSE, "zero")

\* elf_load: every segment is reserved with pages that still hold what their
\* last owner left, then filled from the file and zeroed behind it.
LoadSegmentNoTail(w, t, s) ==
    umemcpy(uregion_reserve_static(w, t, s.page, (s.memsz + 1) \div 2, s.flags),
            t, 2 * s.page, s.filesz, {}, {}, FALSE, t)
LoadSegment(w, t, s) ==
    LET pages == (s.memsz + 1) \div 2
        reserved == uregion_reserve_static(w, t, s.page, pages, s.flags)
        copied == IF s.filesz = 0 THEN reserved
                  ELSE umemcpy(reserved, t, 2 * s.page, s.filesz, {}, {}, FALSE, t)
    IN  IF OverlapsRegion(w, t, s.page, pages) THEN UmStop(w, "segments overlap")
        ELSE IF ~Running(copied) \/ 2 * pages <= s.filesz THEN copied
        ELSE umemzero(copied, t, 2 * s.page + s.filesz, 2 * pages - s.filesz)
elf_load(w, t) == FoldLeft(LAMBDA v, s : IF Running(v) THEN LoadSegment(v, t, s) ELSE v, w, UmElf[t])

----------------------------------------------------------------------------
Unmapped == [frame |-> 0, flags |-> {}]

UmInit ==
    /\ um = [regions |-> [t \in UmTasks |-> {}],
             map |-> [t \in UmTasks |-> [p \in 0..(UmPages - 1) |-> Unmapped]],
             free |-> UmFrames,
             mem |-> [f \in UmFrames |-> <<"old", "old">>],
             seen |-> {},
             panic |-> "none"]
    /\ um_on = [c \in UmCpus |-> "none"]
    /\ um_busy = [c \in UmCpus |-> NoMunmap]
    /\ um_dead = {} /\ um_taint = {} /\ um_calls = 0

\* task_new, elf_load and schedule_ready_thread: CPU 0 loads both tasks before
\* it makes their first threads ready.
Loaded == \E t \in UmTasks : um.regions[t] # {}
UmLoad ==
    /\ ~Loaded /\ Running(um)
    /\ um' = FoldSet(LAMBDA t, w : IF Running(w) THEN elf_load(w, t) ELSE w, um, UmTasks)
    /\ um_on' = [c \in UmCpus |-> IF \E t \in UmTasks : UmFirst[t] = c
                                  THEN CHOOSE t \in UmTasks : UmFirst[t] = c ELSE "none"]
    /\ UNCHANGED <<um_busy, um_dead, um_taint, um_calls>>

\* memory_lock: held by an munmap in progress in a thread of the task.
MemoryLockFree(t) == \A c \in UmCpus : um_busy[c].task # t

\* A system call or a fault of the thread on c that takes the memory_lock.
Enters(c, t) ==
    /\ Running(um) /\ um_on[c] = t /\ t # "none" /\ um_busy[c] = NoMunmap
    /\ MemoryLockFree(t)
\* The calls and exceptions that may change the state are bounded.
Called == um_calls < UmOps /\ um_calls' = um_calls + 1

\* Frames that a step hands out are no longer tainted: they were zeroed.
Taken == um.free \ um'.free

\* mmap: a call without an address, or whose range is taken, gets the range
\* uregion_find_free returns.  The result of that second uregion_reserve is only
\* looked at by a DEBUG_ASSERT.
MmapElsewhere(w, t, n, flags) ==
    LET at == uregion_find_free(w.regions[t], n)
    IN  IF at = NotFound THEN w
        ELSE IF OverlapsRegion(w, t, at, n) THEN Note(w, TRUE, "taken")
        ELSE uregion_reserve(w, t, at, n, flags)
syscall64_mmap(c, t, call) ==
    LET n == NPages(call.length)
        at == call.addr \div 2
    IN  /\ Enters(c, t) /\ Called
        /\ call.length > 0 /\ call.prot # {} /\ ~({"W", "X"} \subseteq call.prot)
        /\ ~(call.fixed /\ call.addr % 2 # 0)
        /\ um' = IF call.addr # 0 /\ ~OverlapsRegion(um, t, at, n)
                 THEN uregion_reserve(um, t, at, n, call.prot)
                 ELSE IF call.addr # 0 /\ call.fixed THEN um
                 ELSE MmapElsewhere(um, t, n, call.prot)
        /\ UNCHANGED <<um_on, um_busy, um_dead, um_taint>>

\* read: what the device returned, which may be nothing, is copied to the user,
\* on demand.
syscall64_read(c, t, a, size) ==
    /\ Enters(c, t) /\ Called
    /\ \E got \in {0, size} : um' = umemcpy(um, t, a, got, {"W"}, {"X"}, TRUE, t)
    /\ um_taint' = um_taint \ Taken
    /\ UNCHANGED <<um_on, um_busy, um_dead>>

\* write: copies from the user; nothing is committed for it.
syscall64_write(c, t, a, size) ==
    /\ Enters(c, t)
    /\ um' = umemcpy(um, t, a, size, {"R"}, {}, FALSE, "none")
    /\ UNCHANGED <<um_on, um_busy, um_dead, um_taint, um_calls>>

\* spawn: the new thread runs on a CPU that has none.
syscall64_spawn(c, t, p, d) ==
    /\ Enters(c, t) /\ Called
    /\ Reserved(um, t, p) /\ "X" \in RegionAt(um, t, p).flags
    /\ um_on[d] = "none"
    /\ um_on' = [um_on EXCEPT ![d] = t]
    /\ UNCHANGED <<um, um_busy, um_dead, um_taint>>

----------------------------------------------------------------------------
(* munmap: uregion_free, then region_destroy block by block.               *)
syscall64_munmap(c, t, p, length) ==
    /\ Enters(c, t) /\ Called
    /\ Reserved(um, t, p)
    /\ LET r == RegionAt(um, t, p)
           n == length % UmCount
           whole == p = r.start /\ n = r.pages
       IN  /\ (p + n) % UmSpace <= r.start + r.pages
           /\ um' = IF whole THEN um ELSE UmStop(um, "partial free")
           /\ um_busy' = IF whole
                         THEN [um_busy EXCEPT ![c] = [task |-> t, start |-> p, cur |-> NoBlock]]
                         ELSE um_busy
    /\ UNCHANGED <<um_on, um_dead, um_taint>>

Destroyed(c) == RegionAt(um, um_busy[c].task, um_busy[c].start)

\* physdata_destroy, first half: raw_kfree gives the frames back.
UmGiveBack(c) ==
    /\ Running(um) /\ um_busy[c] # NoMunmap /\ um_busy[c].cur = NoBlock
    /\ \E b \in Destroyed(c).phys :
         /\ um' = [um EXCEPT !.free = @ \cup BlockFrames(b)]
         /\ um_busy' = [um_busy EXCEPT ![c].cur = b]
    /\ UNCHANGED <<um_on, um_dead, um_taint, um_calls>>

\* physdata_destroy, second half: mmu_unmap takes the user mapping away.
UmUnmapUserFirstPage(c) ==
    LET t == um_busy[c].task
        b == um_busy[c].cur
        r == Destroyed(c)
    IN  /\ Running(um) /\ um_busy[c] # NoMunmap /\ b # NoBlock
        /\ um' = [SetRegion(um, t, r, [r EXCEPT !.phys = @ \ {b}]) EXCEPT !.map[t][b.ua] = Unmapped]
        /\ um_busy' = [um_busy EXCEPT ![c].cur = NoBlock]
        /\ UNCHANGED <<um_on, um_dead, um_taint, um_calls>>
UmUnmapUser(c) ==
    LET t == um_busy[c].task
        b == um_busy[c].cur
        r == Destroyed(c)
    IN  /\ Running(um) /\ um_busy[c] # NoMunmap /\ b # NoBlock
        /\ um' = [SetRegion(um, t, r, [r EXCEPT !.phys = @ \ {b}]) EXCEPT
                    !.map[t] = [q \in 0..(UmPages - 1) |-> IF q \in BlockPages(b) THEN Unmapped ELSE @[q]]]
        /\ um_busy' = [um_busy EXCEPT ![c].cur = NoBlock]
        /\ UNCHANGED <<um_on, um_dead, um_taint, um_calls>>

\* region_destroy, end: the region leaves the tree and the lock is released.
UmRegionGone(c) ==
    /\ Running(um) /\ um_busy[c] # NoMunmap /\ Destroyed(c).phys = {}
    /\ um' = [um EXCEPT !.regions[um_busy[c].task] = @ \ {Destroyed(c)}]
    /\ um_busy' = [um_busy EXCEPT ![c] = NoMunmap]
    /\ UNCHANGED <<um_on, um_dead, um_taint, um_calls>>

----------------------------------------------------------------------------
(* User code.                                                              *)

\* terminate_task: the thread leaves its CPU, the others of the task follow
\* when their CPU reschedules.  Nothing gives the memory of the task back.
Terminate(c, t) == um_dead' = um_dead \cup {t} /\ um_on' = [um_on EXCEPT ![c] = "none"]
UmOtherThreadStops(c) ==
    /\ Running(um) /\ um_on[c] \in um_dead /\ um_busy[c] = NoMunmap
    /\ um_on' = [um_on EXCEPT ![c] = "none"]
    /\ UNCHANGED <<um, um_busy, um_dead, um_taint, um_calls>>

\* What the handlers of a data abort and of a synchronous exception do with the
\* thread: "return" runs the instruction again.
page_fault_handler(dfsc) ==
    CASE dfsc \in {"address size", "permission"} -> "terminate"
      [] dfsc = "translation" -> "commit"
      [] dfsc \in {"access flag", "external abort", "parity", "alignment",
                  "tag check", "granule protection", "tlb conflict",
                  "unsupported atomic", "implementation defined"} -> "panic"
      [] OTHER -> "return"
exception_handler_sync(e) ==
    CASE e.ec = "unknown" -> "panic"
      [] e.ec = "svc" -> "call"
      [] e.ec = "instruction abort" -> "terminate"
      [] e.ec = "data abort" -> page_fault_handler(e.dfsc)
      [] OTHER -> "return"

\* None of the outcomes here takes the memory_lock: they also happen while
\* another thread of the task is inside munmap.
UmException(c, t, e) ==
    /\ Running(um) /\ um_on[c] = t /\ t # "none" /\ um_busy[c] = NoMunmap /\ Called
    /\ CASE exception_handler_sync(e) = "terminate" -> Terminate(c, t) /\ UNCHANGED um
         [] exception_handler_sync(e) = "panic" -> um' = UmStop(um, "exception") /\ UNCHANGED <<um_on, um_dead>>
         [] exception_handler_sync(e) = "return" -> UNCHANGED <<um, um_on, um_dead>>
    /\ UNCHANGED <<um_busy, um_taint>>

\* What the page tables of the task have for a page.
MapOf(t, p) == IF p < UmPages THEN um.map[t][p] ELSE Unmapped

\* The address in FAR_EL1: the first word of the access that has no mapping.
Faulting(t, a, size) == {i \in 0..(size - 1) : MapOf(t, ((a + i) % (2 * UmSpace)) \div 2) = Unmapped}
FaultAddress(t, a, size) == (a + Min(Faulting(t, a, size))) % (2 * UmSpace)

\* page_fault_handler, translation faults: whatever the flags are, a reserved
\* page is committed and the instruction runs again.
translation_fault(c, t, a, size) ==
    /\ Enters(c, t) /\ Called /\ Faulting(t, a, size) # {}
    /\ LET P == WordPages(FaultAddress(t, a, size), size)
       IN  /\ um' = Checked(um, t, P, {}, {}, TRUE)
           /\ IF CheckPass(um, t, P, {}, {}, TRUE) = "ok" THEN UNCHANGED <<um_dead, um_on>>
                                                          ELSE Terminate(c, t)
    /\ um_taint' = um_taint \ Taken
    /\ UNCHANGED um_busy

\* Permission faults, the pages of the kernel included, and instruction aborts:
\* a fetch from a page that is reserved but not committed ends the task too.
UmForbidden(c, t, p, kind) ==
    /\ \/ MapOf(t, p) # Unmapped /\ kind \notin MapOf(t, p).flags
       \/ p >= UmPages
       \/ kind = "X" /\ MapOf(t, p) = Unmapped
    /\ UmException(c, t, IF kind = "X" THEN [ec |-> "instruction abort", dfsc |-> ""]
                                       ELSE [ec |-> "data abort", dfsc |-> "permission"])

\* A store by user code that the page tables allow.
Owned(t, f) == \E r \in um.regions[t] : \E b \in r.phys :
                 f \in BlockFrames(b) /\ \A c \in UmCpus : um_busy[c].task = t => b # um_busy[c].cur
UmStore(c, t, a) ==
    LET page == MapOf(t, a \div 2)
    IN  /\ Running(um) /\ um_on[c] = t /\ t # "none" /\ um_busy[c] = NoMunmap
        /\ page # Unmapped /\ "W" \in page.flags
        /\ um' = [um EXCEPT !.mem[page.frame][1 + (a % 2)] = t]
        /\ um_taint' = IF Owned(t, page.frame) THEN um_taint ELSE um_taint \cup {page.frame}
        /\ UNCHANGED <<um_on, um_busy, um_dead, um_calls>>

UmNext ==
    \/ UmLoad
    \/ \E c \in UmCpus :
         \/ UmGiveBack(c) \/ UmUnmapUser(c) \/ UmRegionGone(c) \/ UmOtherThreadStops(c)
         \/ \E t \in UmTasks :
              \/ \E call \in UmMmaps : syscall64_mmap(c, t, call)
              \/ \E call \in UmMunmaps : syscall64_munmap(c, t, call.page, call.pages)
              \/ \E a \in UmAddrs, d \in UmCpus : syscall64_spawn(c, t, a \div 2, d)
              \/ \E a \in UmAddrs, kind \in {"R", "W", "X"} : UmForbidden(c, t, a \div 2, kind)
              \/ \E a \in UmAddrs : UmStore(c, t, a)
              \/ \E e \in UmExceptions : UmException(c, t, e)
              \/ \E a \in UmAddrs, size \in UmSizes :
                   \/ syscall64_read(c, t, a, size)
                   \/ syscall64_write(c, t, a, size)
                   \/ translation_fault(c, t, a, size)

----------------------------------------------------------------------------
Settled(t) == Running(um) /\ MemoryLockFree(t)

\* A page that a region says is committed has exactly one frame: one physical
\* block covers it, and the task's page table maps it to that block's frame
\* with the region's flags.  No other page is mapped.  So the kernel, which
\* copies through the blocks, and the task, which goes through the page table,
\* see the same memory.
UmOneFrame ==
    \A t \in UmTasks : Settled(t) =>
        /\ \A r \in um.regions[t] :
             /\ UNION {BlockPages(b) : b \in r.phys} = r.committed
             /\ \A p \in r.committed :
                  /\ Cardinality({b \in r.phys : p \in BlockPages(b)}) = 1
                  /\ um.map[t][p] = [frame |-> FrameOf(um, t, p), flags |-> r.flags]
        /\ \A p \in 0..(UmPages - 1) :
             um.map[t][p] # Unmapped => \E r \in um.regions[t] : p \in r.committed

\* A frame the page table of a task reaches is a frame of one of its own
\* blocks and nobody else's, unless its munmap is between giving that block's
\* frames back and unmapping them.
UmMappedIsOwned ==
    \A t \in UmTasks : \A p \in 0..(UmPages - 1) :
        LET f == um.map[t][p].frame
            leaving == \E c \in UmCpus : um_busy[c].task = t /\ p \in BlockPages(um_busy[c].cur)
        IN  Running(um) /\ um.map[t][p] # Unmapped /\ ~leaving
            => /\ Owned(t, f) /\ f \notin um.free
               /\ \A u \in UmTasks \ {t} : ~Owned(u, f)

\* A task never finds in its memory what another owner left there: a page of
\* its own holds zeroes, its file or what it wrote.  The exception are frames
\* that a thread of another task wrote while its munmap had already given them
\* back and not yet unmapped them.
UmNoForeignData ==
    \A t \in UmTasks : Running(um) => \A r \in um.regions[t] : \A b \in r.phys :
        \A f \in BlockFrames(b) \ um_taint :
            Owned(t, f) => \A i \in {1, 2} : um.mem[f][i] \in {"zero", t}

\* UmOneFrame holds until one commit covers a page that is committed already:
\* apart from what uregions_check_access does to such a range (785), every page
\* of user memory keeps the one frame it was given.
UmOneFrameUntilMixed == "mixed" \notin um.seen => UmOneFrame

=============================================================================
