---------------------------- MODULE KernelMemory ----------------------------
(***************************************************************************)
(* The kernel's memory allocators together: raw_kmalloc and raw_kfree, the *)
(* allocator of virtual addresses (vmalloc) with the containers of its     *)
(* list nodes, the reserve of pages it takes those containers from, the    *)
(* page allocator below and the kernel's translations.  They call each     *)
(* other in a circle: freeing the last node of a container frees a page    *)
(* with raw_kfree, and an allocation that needs a container or a table     *)
(* takes a page of the reserve, which raw_kmalloc then refills with        *)
(* raw_kmalloc.  All of it runs under one recursive lock with interrupts   *)
(* masked, so that a call is one step.                                     *)
(*                                                                         *)
(* The state is one record, km:                                            *)
(*   pages    the page allocator                                           *)
(*   fva      the free address ranges [start, size, node] of either list   *)
(*   rva      the ranges in use, with [tag, fixed, mdt] in addition        *)
(*   cont     the containers [page, used] of "fva", "rva" and "mdt" nodes  *)
(*   reserve  the page in every slot of the reserve, or NoPage             *)
(*   mapped   the kernel's translation of every virtual page               *)
(*   tables   the spans of the mapping that have a last-level table        *)
(*   panic    the PANIC or ASSERT that stopped the kernel, or "no"         *)
(* Addresses count pages; below N, the number of pages of the board, a     *)
(* virtual page is the physical one of the same number ("kmap"), above it  *)
(* they are "dyn".                                                         *)
(***************************************************************************)
EXTENDS Integers, PageAllocator, EarlyMemory

CONSTANTS
  KmBoards,       \* the memory maps (mem_regions.c and the linker's sections)
  KmDynPages,     \* size of the dynamic address range
  KmNodes,        \* nodes per container, by kind
  KmReserve,      \* RESERVE_MALLOC_SIZE
  KmStack,        \* pages of the kernel's stack
  KmSpan,         \* pages that one last-level table maps
  KmKmapSizes, KmDynSizes,   \* what clients ask for, in pages
  KmOps           \* bound on the calls of clients

NoPage == -1
ListOf(k, va) == IF va < k.pages.n THEN "kmap" ELSE "dyn"
Stopped(k) == k.panic # "no" \/ k.pages.panic # "no"
(* What the code does next with the state k, unless k has stopped it.      *)
Then(k, Step(_)) == CHOOSE r \in {IF Stopped(q) THEN q ELSE Step(q) : q \in {k}} : TRUE

---------------------------------------------------------------------------
(* The reserve (reserve_malloc.c): the page of the first slot that has     *)
(* one; its tag is changed in both allocators, by its address.             *)
FullSlots(k) == {s \in DOMAIN k.reserve : k.reserve[s] # NoPage}
ReservePage(k) == k.reserve[Min(FullSlots(k))]
RvaAt(k, l, va) == {i \in DOMAIN k.rva[l] : k.rva[l][i].start = va}
reserve_malloc(k, tag) ==
  IF FullSlots(k) = {} THEN [k EXCEPT !.panic = "reserve_malloc"]
  ELSE IF RvaAt(k, "kmap", ReservePage(k)) = {} THEN [k EXCEPT !.panic = "find_rva"]
  ELSE [k EXCEPT !.reserve[Min(FullSlots(k))] = NoPage,
                 !.rva["kmap"][Min(RvaAt(k, "kmap", ReservePage(k)))].tag = tag,
                 !.pages = page_allocator_update_tag(@, ReservePage(k), tag)]

---------------------------------------------------------------------------
(* Containers (containers.c, mdt.c).  vmaloc_node_new and node_new take    *)
(* the first free node of the first container with one, or of a new        *)
(* container at the end of the list; a node is [page, i].                  *)
FreeSlots(c, kind) == (0..(KmNodes[kind] - 1)) \ c.used
WithRoom(k, kind) == {j \in DOMAIN k.cont[kind] : FreeSlots(k.cont[kind][j], kind) # {}}
WithContainer(k, kind) ==
  IF WithRoom(k, kind) # {} THEN k
  ELSE Then(reserve_malloc(k, kind), LAMBDA q :
         [q EXCEPT !.cont[kind] = Append(@, [page |-> ReservePage(k), used |-> {}])])
TakenNode(k, kind) ==
  LET c == k.cont[kind][Min(WithRoom(k, kind))]
  IN [page |-> c.page, i |-> Min(FreeSlots(c, kind))]
TakeNode(k, kind) ==
  [k EXCEPT !.cont[kind][Min(WithRoom(k, kind))].used = @ \cup {TakenNode(k, kind).i}]

(* mmu_map and mmu_unmap of the kernel's mapping: a table for every span   *)
(* that has none yet, from the reserve (mm_mmu_default_allocator).         *)
RECURSIVE WithTables(_, _)
WithTables(k, spans) ==
  IF spans \subseteq k.tables THEN k
  ELSE Then(reserve_malloc(k, "table"), LAMBDA q :
         WithTables([q EXCEPT !.tables = @ \cup {Min(spans \ q.tables)}], spans))
SetMapping(k, to) ==
  Then(WithTables(k, {p \div KmSpan : p \in DOMAIN to}), LAMBDA q : [q EXCEPT !.mapped = to @@ @])

---------------------------------------------------------------------------
(* vmalloc.c *)
Insert(s, x) == SelectSeq(s, LAMBDA y : y.start < x.start) \o <<x>>
                  \o SelectSeq(s, LAMBDA y : y.start >= x.start)
NewFva(k, l, va, n) ==
  Then(WithContainer(k, "fva"), LAMBDA q :
    [TakeNode(q, "fva") EXCEPT
       !.fva[l] = Insert(@, [start |-> va, size |-> n, node |-> TakenNode(q, "fva")])])

RECURSIVE FreeNode(_, _, _), FreeNodes(_, _, _), PushFva(_, _, _, _), raw_kfree(_, _)

(* push_fva: join with the range before, the range after, or both; else a  *)
(* node of its own.                                                        *)
PushFvaNotBoth(k, l, va, n) ==
  LET f == k.fva[l]
      P == {i \in DOMAIN f : f[i].start + f[i].size = va}
      N == {i \in DOMAIN f : f[i].start = va + n}
  IN CASE P # {} -> [k EXCEPT !.fva[l][Min(P)].size = @ + n]
       [] P = {} /\ N # {} -> [k EXCEPT !.fva[l][Min(N)].start = va, !.fva[l][Min(N)].size = @ + n]
       [] OTHER -> NewFva(k, l, va, n)
PushFva(k, l, va, n) ==
  LET f == k.fva[l]
      P == {i \in DOMAIN f : f[i].start + f[i].size = va}
      N == {i \in DOMAIN f : f[i].start = va + n}
  IN CASE P # {} /\ N # {} ->
            FreeNode([k EXCEPT !.fva[l] = RemoveAt([f EXCEPT ![Min(P)].size = @ + n + f[Min(N)].size], Min(N))],
                     "fva", f[Min(N)].node)
       [] P # {} /\ N = {} -> [k EXCEPT !.fva[l][Min(P)].size = @ + n]
       [] P = {} /\ N # {} -> [k EXCEPT !.fva[l][Min(N)].start = va, !.fva[l][Min(N)].size = @ + n]
       [] OTHER -> NewFva(k, l, va, n)

(* free_fva_node, free_rva_node and one round of vmalloc_pa_mdt_free: an   *)
(* empty container other than the first is unlinked and freed.             *)
FreeNode(k, kind, node) ==
  LET j == CHOOSE i \in DOMAIN k.cont[kind] : k.cont[kind][i].page = node.page
      used == k.cont[kind][j].used \ {node.i}
  IN IF j = 1 \/ used # {} THEN [k EXCEPT !.cont[kind][j].used = used]
     ELSE raw_kfree([k EXCEPT !.cont[kind] = RemoveAt(@, j)], node.page)
FreeNodes(k, kind, nodes) ==
  IF nodes = <<>> THEN k
  ELSE Then(FreeNode(k, kind, Head(nodes)), LAMBDA q : FreeNodes(q, kind, Tail(nodes)))

(* pop_rva and vfree: the range leaves its list, then its nodes are freed, *)
(* then its addresses are free again.                                      *)
PopRva(k, l, i) ==
  LET r == k.rva[l][i] IN
  IF r.fixed THEN [k EXCEPT !.panic = "permanent"]
  ELSE Then(FreeNodes([k EXCEPT !.rva[l] = RemoveAt(@, i)], "mdt", [j \in DOMAIN r.mdt |-> r.mdt[j].node]),
            LAMBDA q : FreeNode(q, "rva", r.node))
vfree(k, l, i) ==
  Then(PopRva(k, l, i), LAMBDA q : PushFva(q, l, k.rva[l][i].start, k.rva[l][i].size))

(* raw_kfree: the page of a kmap range is freed after its addresses, those *)
(* of a dynamic range before; the translations go last.                    *)
FreePages(k, pas) == [k EXCEPT !.pages = FoldLeft(page_free, @, pas)]
raw_kfree(k, va) ==
  LET l == ListOf(k, va)
      i == Min(RvaAt(k, l, va))
      r == k.rva[l][i]
      freed == IF l = "kmap" THEN Then(vfree(k, l, i), LAMBDA q : FreePages(q, <<va>>))
               ELSE Then(FreePages(k, [j \in DOMAIN r.mdt |-> r.mdt[j].pa]), LAMBDA q : vfree(q, l, i))
  IN IF RvaAt(k, l, va) = {} THEN [k EXCEPT !.panic = "find_rva"]
     ELSE Then(freed, LAMBDA q : SetMapping(q, [p \in va..(va + r.size - 1) |-> NoPage]))

(* pop_fva: the range that holds the address (kmap), or the first that is  *)
(* large enough; a large request prefers a range that could also hold it   *)
(* aligned to KmSpan pages, but takes the start of the range all the same. *)
Holds(f, va, n) == f.start <= va /\ va + n <= f.start + f.size
AlignUp(a, n) == ((a + n - 1) \div n) * n
FitsAligned(f, n) ==
  LET a == AlignUp(f.start, IF n >= KmSpan THEN KmSpan ELSE 1)
  IN a < f.start + f.size /\ a + n <= f.start + f.size
Fits(k, l, pa, n) ==
  {i \in DOMAIN k.fva[l] : IF l = "kmap" THEN Holds(k.fva[l][i], pa, n) ELSE k.fva[l][i].size >= n}
PopIndex(k, l, pa, n) ==
  LET A == {i \in Fits(k, l, pa, n) : l = "kmap" \/ FitsAligned(k.fva[l][i], n)}
  IN Min(IF A # {} THEN A ELSE Fits(k, l, pa, n))
PopVa(k, l, pa, n) == IF l = "kmap" THEN pa ELSE k.fva[l][PopIndex(k, l, pa, n)].start

(* reserve_from_fva_node: all of the range, its start, its end or a piece  *)
(* of the middle, which splits the range.                                  *)
ReserveFromFva(k, l, i, va, n) ==
  LET f == k.fva[l][i] end == f.start + f.size
  IN CASE f.start = va /\ f.size = n -> FreeNode([k EXCEPT !.fva[l] = RemoveAt(@, i)], "fva", f.node)
       [] f.start = va /\ f.size # n -> [k EXCEPT !.fva[l][i].start = va + n, !.fva[l][i].size = @ - n]
       [] f.start # va /\ va + n = end -> [k EXCEPT !.fva[l][i].size = va - f.start]
       [] OTHER -> NewFva([k EXCEPT !.fva[l][i].size = va - f.start], l, va + n, end - (va + n))

PushRva(k, l, va, n, tag, fixed) ==
  Then(WithContainer(k, "rva"), LAMBDA q :
    [TakeNode(q, "rva") EXCEPT !.rva[l] =
       Insert(@, [start |-> va, size |-> n, tag |-> tag, fixed |-> fixed, mdt |-> <<>>,
                  node |-> TakenNode(q, "rva")])])
vmalloc(k, l, pa, n, tag, fixed) ==
  IF Fits(k, l, pa, n) = {} THEN [k EXCEPT !.panic = "pop_fva"]
  ELSE LET va == PopVa(k, l, pa, n) IN
       Then(ReserveFromFva(k, l, PopIndex(k, l, pa, n), va, n),
            LAMBDA q : PushRva(q, l, va, n, tag, fixed))

(* vmalloc_pa_mdt_push: the blocks of a dynamic range, by address.         *)
vmalloc_push_pa(k, start, o, pa, va) ==
  LET Before(m) == m.va <= va
      After(m) == m.va > va
      i == Min(RvaAt(k, "dyn", start))
  IN Then(WithContainer(k, "mdt"), LAMBDA q :
       [TakeNode(q, "mdt") EXCEPT !.rva["dyn"][i].mdt =
          SelectSeq(@, Before) \o <<[order |-> o, pa |-> pa, va |-> va, node |-> TakenNode(q, "mdt")]>>
            \o SelectSeq(@, After)])

---------------------------------------------------------------------------
(* raw_kmalloc.c, with reserve_malloc_fill.  Requests stay smaller than    *)
(* KmSpan: what happens to a table that a larger mapping replaces is the   *)
(* subject of MmuTables.                                                   *)
TakePages(k, o, tag, fixed) == [k EXCEPT !.pages = page_malloc(@, o, tag, fixed)]
raw_kmalloc_kmap(k, n, tag, fixed) ==
  LET pa == FirstBlock(k.pages, Log2Floor(n))
  IN Then(TakePages(k, Log2Floor(n), tag, fixed), LAMBDA q :
       Then(vmalloc(q, "kmap", pa, n, tag, fixed), LAMBDA r :
         SetMapping(r, [p \in pa..(pa + n - 1) |-> p])))

RECURSIVE DynamicBlocks(_, _, _, _, _)
DynamicBlocks(k, start, va, rem, tag) ==
  IF rem = 0 THEN k
  ELSE LET o == Log2Floor(rem)
           pa == FirstBlock(k.pages, o)
           recorded == Then(TakePages(k, o, tag, FALSE), LAMBDA q : vmalloc_push_pa(q, start, o, pa, va))
       IN Then(Then(recorded, LAMBDA q : SetMapping(q, [p \in va..(va + 2^o - 1) |-> pa + (p - va)])),
               LAMBDA q : DynamicBlocks(q, start, va + 2^o, rem - 2^o, tag))
raw_kmalloc_dynamic(k, n, tag) ==
  LET start == PopVa(k, "dyn", 0, n)
  IN Then(vmalloc(k, "dyn", 0, n, tag, FALSE), LAMBDA q : DynamicBlocks(q, start, start, n, tag))

(* reserve_malloc_fill: a pass over the slots gives every empty one a new  *)
(* page; that allocation may itself take a page of the reserve, and so     *)
(* passes follow each other until no slot is empty.                        *)
FillSlotPermanent(k, s) ==
  IF k.reserve[s] # NoPage THEN k
  ELSE LET pa == FirstBlock(k.pages, 0)
       IN Then(raw_kmalloc_kmap(k, 1, "reserve", TRUE), LAMBDA q : [q EXCEPT !.reserve[s] = pa])
FillSlot(k, s) ==
  IF k.reserve[s] # NoPage THEN k
  ELSE LET pa == FirstBlock(k.pages, 0)
       IN Then(raw_kmalloc_kmap(k, 1, "reserve", FALSE), LAMBDA q : [q EXCEPT !.reserve[s] = pa])
RawKmalloc(k, n, tag, kmap, fixed) ==
  IF kmap THEN raw_kmalloc_kmap(k, n, tag, fixed) ELSE raw_kmalloc_dynamic(k, n, tag)

---------------------------------------------------------------------------
(* mm_early_init: the early allocations in their order, then the page      *)
(* allocator and the address allocator are told what is in use.            *)
VARIABLES
  km_phase,     \* "off", "early", "memregs", "up", or "fill": in reserve_malloc_fill
  km_regions,   \* the early memory map
  km, km_calls,
  km_slot       \* the slot the filling is at
kmVars == <<km_phase, km_regions, km, km_calls, km_slot>>

EarlyAllocations ==
  <<[pages |-> 1, tag |-> "unmapped_lo", fixed |-> TRUE], [pages |-> 1, tag |-> "table", fixed |-> FALSE],
    [pages |-> 1, tag |-> "table", fixed |-> FALSE], [pages |-> 3, tag |-> "page_allocator", fixed |-> TRUE],
    [pages |-> 1, tag |-> "fva", fixed |-> TRUE], [pages |-> 1, tag |-> "rva", fixed |-> TRUE],
    [pages |-> 1, tag |-> "mdt", fixed |-> TRUE]>>
    \o [s \in 1..KmReserve |-> [pages |-> 1, tag |-> "reserve", fixed |-> FALSE]]
    \o <<[pages |-> 1, tag |-> "memregs", fixed |-> FALSE]>>

EarlyPages(tag) == {r.addr : r \in {km_regions[i] : i \in {j \in DOMAIN km_regions : km_regions[j].tag = tag}}}
vmalloc_init(n, stray) ==
  [pages |-> page_allocator_init(n, stray),
   fva |-> [kmap |-> <<[start |-> 0, size |-> n, node |-> [page |-> Min(EarlyPages("fva")), i |-> 0]]>>,
            dyn |-> <<[start |-> n, size |-> KmDynPages, node |-> [page |-> Min(EarlyPages("fva")), i |-> 1]]>>],
   rva |-> [kmap |-> <<>>, dyn |-> <<>>],
   cont |-> [fva |-> <<[page |-> Min(EarlyPages("fva")), used |-> {0, 1}]>>,
             rva |-> <<[page |-> Min(EarlyPages("rva")), used |-> {}]>>,
             mdt |-> <<[page |-> Min(EarlyPages("mdt")), used |-> {}]>>],
   reserve |-> [s \in 1..KmReserve |-> SetToSortSeq(EarlyPages("reserve"), <)[s]],
   mapped |-> [p \in 0..(n + KmDynPages - 1) |-> IF p < n THEN p ELSE NoPage],
   tables |-> {}, panic |-> "no"]
(* One round of vmalloc_update_memregs.                                    *)
vmalloc_update_memregs(k, r) ==
  IF r.free THEN k ELSE vmalloc(k, "kmap", r.addr, r.pages, r.tag, r.fixed)

KmInit == km_phase = "off" /\ km_regions = <<>> /\ km = <<>> /\ km_calls = 0 /\ km_slot = 1
KmStart ==
  /\ km_phase = "off"
  /\ \E b \in KmBoards : km_regions' = early_kalloc_init(b)
  /\ km_phase' = "early"
  /\ UNCHANGED <<km, km_calls, km_slot>>
KmEarlyKalloc ==
  /\ km_phase = "early" /\ km_calls < Len(EarlyAllocations)
  /\ LET a == EarlyAllocations[km_calls + 1]
     IN km_regions' = early_kalloc(km_regions, a.pages, a.tag, a.fixed)
  /\ km_calls' = km_calls + 1
  /\ UNCHANGED <<km_phase, km, km_slot>>
KmPageAllocator ==
  /\ km_phase = "early" /\ km_calls = Len(EarlyAllocations)
  /\ LET n == mm_info_page_count(km_regions)
     IN \E stray \in StrayNodes(n) :
          km' = [vmalloc_init(n, stray) EXCEPT !.pages = page_allocator_update_memregs(@, km_regions)]
  /\ km_phase' = "memregs" /\ km_calls' = 0
  /\ UNCHANGED <<km_regions, km_slot>>
KmAddressAllocator ==
  /\ km_phase = "memregs" /\ km_calls < Len(km_regions) /\ ~Stopped(km)
  /\ km' = vmalloc_update_memregs(km, km_regions[km_calls + 1])
  /\ km_calls' = km_calls + 1
  /\ UNCHANGED <<km_phase, km_regions, km_slot>>

(* raw_kmalloc up to reserve_malloc_fill.  It holds the lock until the     *)
(* reserve is full: the phase is "fill" and no other call begins.          *)
Allocate(n, tag, kmap, fixed) ==
  /\ km' = RawKmalloc(km, n, tag, kmap, fixed)
  /\ km_phase' = "fill" /\ km_slot' = 1
  /\ UNCHANGED km_regions
KmStackAlloc ==
  /\ km_phase = "memregs" /\ km_calls = Len(km_regions) /\ ~Stopped(km)
  /\ Allocate(KmStack, "stack", TRUE, TRUE)
  /\ km_calls' = 0
KmAlloc ==
  /\ km_phase = "up" /\ km_calls < KmOps /\ ~Stopped(km)
  /\ \E kmap \in BOOLEAN : \E n \in IF kmap THEN KmKmapSizes ELSE KmDynSizes :
       Allocate(n, "client", kmap, FALSE)
  /\ km_calls' = km_calls + 1
KmFillSlot ==
  /\ km_phase = "fill" /\ FullSlots(km) # 1..KmReserve /\ ~Stopped(km)
  /\ km' = FillSlot(km, km_slot)
  /\ km_slot' = (km_slot % KmReserve) + 1
  /\ UNCHANGED <<km_phase, km_regions, km_calls>>
KmFilled ==
  /\ km_phase = "fill" /\ FullSlots(km) = 1..KmReserve /\ ~Stopped(km)
  /\ km_phase' = "up"
  /\ UNCHANGED <<km_regions, km, km_calls, km_slot>>
KmFree ==
  /\ km_phase = "up" /\ km_calls < KmOps /\ ~Stopped(km)
  /\ \E l \in {"kmap", "dyn"} : \E i \in DOMAIN km.rva[l] :
       km.rva[l][i].tag = "client" /\ km' = raw_kfree(km, km.rva[l][i].start)
  /\ km_calls' = km_calls + 1
  /\ UNCHANGED <<km_phase, km_regions, km_slot>>
KmNext ==
  \/ KmStart \/ KmEarlyKalloc \/ KmPageAllocator \/ KmAddressAllocator \/ KmStackAlloc
  \/ KmAlloc \/ KmFillSlot \/ KmFilled \/ KmFree

---------------------------------------------------------------------------
KmRuns == km_phase \in {"up", "fill"} /\ ~Stopped(km)
Ranges(k, l) == ToSet(k.fva[l]) \cup ToSet(k.rva[l])
Pages(r) == r.start..(r.start + r.size - 1)

(* Of every address exactly one of the lists of vmalloc knows: the free    *)
(* and the reserved ranges are sorted, disjoint and cover both address     *)
(* ranges, and two free ranges never touch (push_fva joined them).         *)
KmAddressesPartitioned ==
  KmRuns => \A l \in {"kmap", "dyn"} :
    LET vas == IF l = "kmap" THEN 0..(km.pages.n - 1) ELSE km.pages.n..(km.pages.n + KmDynPages - 1)
        f == km.fva[l] r == km.rva[l]
    IN /\ \A i \in 1..(Len(f) - 1) : f[i].start + f[i].size < f[i + 1].start
       /\ \A i \in 1..(Len(r) - 1) : r[i].start + r[i].size <= r[i + 1].start
       /\ UNION {Pages(x) : x \in Ranges(km, l)} = vas
       /\ MapThenSumSet(LAMBDA x : x.size, Ranges(km, l)) = Cardinality(vas)

(* The two allocators agree: the pages in use are the ones of the reserved *)
(* ranges, each once.                                                      *)
UsedBlocks(k) ==
  UNION {IF ~r.fixed \/ r.tag = "stack" THEN {<<r.start, Log2Floor(r.size)>>} ELSE {} : r \in ToSet(k.rva["kmap"])}
    \cup UNION {{<<m.pa, m.order>> : m \in ToSet(r.mdt)} : r \in ToSet(k.rva["dyn"])}
KmPagesMatchRanges ==
  KmRuns =>
    LET blocks == UsedBlocks(km)
        early == UNION {Pages(r) : r \in {x \in ToSet(km.rva["kmap"]) : x.fixed /\ x.tag # "stack"}}
        free == UNION {Block(b[1], b[2]) : b \in FreeBlocks(km.pages)}
    IN /\ MapThenSumSet(LAMBDA b : 2^b[2], blocks) + Cardinality(early) + Cardinality(free) = km.pages.n
       /\ UNION {Block(b[1], b[2]) : b \in blocks} \cup early \cup free = 0..(km.pages.n - 1)
       /\ BuddiesJoined(km.pages)

(* Every page of a reserved range is mapped where its range says: to the   *)
(* page of its own number (kmap), or to the blocks that vmalloc_push_pa    *)
(* recorded for it, which cover the range (dynamic).                       *)
KmRangesAreMapped ==
  KmRuns =>
    /\ \A r \in ToSet(km.rva["kmap"]) : \A p \in Pages(r) : km.mapped[p] = p
    /\ \A r \in ToSet(km.rva["dyn"]) :
         /\ UNION {m.va..(m.va + 2^m.order - 1) : m \in ToSet(r.mdt)} = Pages(r)
         /\ \A m \in ToSet(r.mdt) : \A d \in 0..(2^m.order - 1) : km.mapped[m.va + d] = m.pa + d

(* The nodes of the lists are the nodes the containers count as used, and  *)
(* only the first container of a kind may be empty.                        *)
NodesOf(k, kind) ==
  CASE kind = "fva" -> {f.node : f \in ToSet(k.fva["kmap"]) \cup ToSet(k.fva["dyn"])}
    [] kind = "rva" -> {r.node : r \in ToSet(k.rva["kmap"]) \cup ToSet(k.rva["dyn"])}
    [] kind = "mdt" -> UNION {{m.node : m \in ToSet(r.mdt)} : r \in ToSet(k.rva["dyn"])}
KmNodesAreCounted ==
  KmRuns => \A kind \in {"fva", "rva", "mdt"} :
    /\ NodesOf(km, kind) =
         UNION {{[page |-> c.page, i |-> i] : i \in c.used} : c \in ToSet(km.cont[kind])}
    /\ \A j \in 2..Len(km.cont[kind]) : km.cont[kind][j].used # {}

(* A page of the reserve is tagged as such in both allocators, and is in   *)
(* one slot only, although filling the reserve uses the reserve.           *)
KmReserveTagged ==
  KmRuns => \A s \in 1..KmReserve : km.reserve[s] # NoPage =>
    /\ km.pages.tag[km.reserve[s]] = "reserve"
    /\ \E r \in ToSet(km.rva["kmap"]) : r.start = km.reserve[s] /\ r.tag = "reserve"
    /\ \A t \in 1..KmReserve \ {s} : km.reserve[t] # km.reserve[s]

(* vmalloc, the containers of its nodes, the page allocator, the reserve   *)
(* and the translations record the same memory, and agree on it after      *)
(* every call, although the calls nest and change the lists they work on   *)
(* (raw_kmalloc.c, vmalloc.c, reserve_malloc.c).                           *)
KmConsistent ==
  /\ KmAddressesPartitioned /\ KmPagesMatchRanges /\ KmRangesAreMapped
  /\ KmNodesAreCounted /\ KmReserveTagged

(* Out of pages is the one reason for the allocators to stop the kernel,   *)
(* besides the node that try_merge looks for past the table of the pages.  *)
KmStopsOnlyOutOfPages ==
  km_phase \in {"memregs", "up", "fill"} =>
    /\ km.panic = "no"
    /\ km.pages.panic \in {"no", "page_malloc"} \cup (IF km.pages.stray THEN {"get_node"} ELSE {})

(* reserve_malloc_fill ends with a full reserve, or the kernel has run out *)
(* of pages: "it can actually get a new idx from the reserve, thats why    *)
(* the for loop is inside a while" (reserve_malloc.c:114).                 *)
KmFillEnds == km_phase = "fill" ~> (km_phase = "up" \/ (km_phase = "fill" /\ Stopped(km)))
=============================================================================
