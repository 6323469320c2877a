--------------------------- MODULE PageAllocator ---------------------------
(***************************************************************************)
(* The buddy allocator of physical pages                                   *)
(* (src/src/kernel/mm/malloc/page_allocator/page_allocator.c).  Its state  *)
(* is a record p:                                                          *)
(*   n, max        N and MAX_ORDER                                         *)
(*   order, free   the node of every page: order and free bit of the block *)
(*                 that the page begins                                    *)
(*   lists         the free list of every order, its head first            *)
(*   tag, fixed    page_data.tag, and the pages with page_data.permanent   *)
(*   stray         what node N, past the table, reads as: TRUE for a free  *)
(*                 block of the order try_merge looks for                  *)
(*   panic         the PANIC that stopped the kernel, or "no"              *)
(* The operations are functions from p to p, so that the allocators above  *)
(* can use them inside one of their own steps.                             *)
(***************************************************************************)
EXTENDS Naturals, FiniteSetsExt, SequencesExt

CONSTANTS
  PgCounts,          \* the numbers of pages the allocator is run with
  PgMaxOrderAsked,   \* the orders that callers of the allocator ask for
  PgOps              \* bound on the calls

Log2Floor(n) == CHOOSE o \in 0..n : 2^o <= n /\ n < 2^(o + 1)
BuddyOf(i, o) == IF (i \div 2^o) % 2 = 0 THEN i + 2^o ELSE i - 2^o
ParentAtOrder(i, o) == i - (i % 2^o)

PushToList(p, i) ==
  [p EXCEPT !.lists[p.order[i]] = <<i>> \o @, !.free[i] = TRUE]
RemoveFromList(p, i) ==
  [p EXCEPT !.lists[p.order[i]] = SelectSeq(@, LAMBDA j : j # i), !.free[i] = FALSE]

(* is_inner_idx: the page lies in a larger free block.                     *)
IsInnerIdx(p, i) ==
  \E o \in (p.order[i] + 1)..p.max : ParentAtOrder(i, o) \in ToSet(p.lists[o])

RECURSIVE PushBuddies(_, _, _, _)
PushBuddies(p, i, o, target) ==
  IF o = target THEN p
  ELSE LET b == BuddyOf(i, o - 1)
       IN PushBuddies(PushToList([p EXCEPT !.order[b] = o - 1], b), i, o - 1, target)
SplitToOrderAndPop(p, i, target) ==
  PushBuddies([RemoveFromList(p, i) EXCEPT !.order[i] = target], i, p.order[i], target)

RECURSIVE TryMergeSameOrder(_, _)
TryMergeSameOrder(p, i) ==
  LET o == p.order[i] b == BuddyOf(i, o) IN
  IF o = p.max \/ b >= p.n \/ ~p.free[b] THEN p
  ELSE LET left == IF i < b THEN i ELSE b
           q == RemoveFromList(RemoveFromList(p, i), b)
       IN TryMergeSameOrder(PushToList([q EXCEPT !.order[left] = o + 1], left), left)

(* try_merge: join the block with its buddy while that is free and whole.  *)
(* The node of a buddy past the last page is memory that nothing has       *)
(* written: it ends the loop, unless it reads as a free block, which sends *)
(* remove_from_list to whatever its links are (a debug build stops at the  *)
(* DEBUG_ASSERT of get_node in any case).                                  *)
RECURSIVE TryMerge(_, _)
TryMerge(p, i) ==
  LET o == p.order[i] b == BuddyOf(i, o) IN
  IF o = p.max THEN p
  ELSE IF b >= p.n THEN IF p.stray THEN [p EXCEPT !.panic = "get_node"] ELSE p
  ELSE IF ~p.free[b] \/ p.order[b] # o THEN p
  ELSE LET left == IF i < b THEN i ELSE b
           q == RemoveFromList(RemoveFromList(p, i), b)
       IN TryMerge(PushToList([q EXCEPT !.order[left] = o + 1], left), left)

(* The page that page_malloc returns: the head of the list of its order or *)
(* of the next larger order that has one.                                  *)
HasBlock(p, o) == \E k \in o..p.max : p.lists[k] # <<>>
FirstBlock(p, o) == Head(p.lists[Min({k \in o..p.max : p.lists[k] # <<>>})])
page_malloc(p, o, tag, fixed) ==
  IF ~HasBlock(p, o) THEN [p EXCEPT !.panic = "page_malloc"]
  ELSE LET i == FirstBlock(p, o)
           q == IF p.order[i] = o THEN RemoveFromList(p, i) ELSE SplitToOrderAndPop(p, i, o)
       IN [q EXCEPT !.tag[i] = tag, !.fixed = IF fixed THEN @ \cup {i} ELSE @ \ {i}]

page_free(p, i) ==
  IF i \in p.fixed \/ p.free[i] \/ IsInnerIdx(p, i) THEN [p EXCEPT !.panic = "page_free"]
  ELSE TryMerge(PushToList(p, i), i)

page_allocator_update_tag(p, i, tag) ==
  IF IsInnerIdx(p, i) THEN [p EXCEPT !.panic = "update_tag"] ELSE [p EXCEPT !.tag[i] = tag]

(* reserve: cut the block of order o at page i out of the free block that  *)
(* holds it.                                                               *)
RECURSIVE CutOut(_, _, _, _, _)
CutOut(p, cur, k, i, o) ==
  IF k = o THEN [p EXCEPT !.order[cur] = o]
  ELSE LET right == cur + 2^(k - 1)
           rest == IF i < right THEN right ELSE cur
           keep == IF i < right THEN cur ELSE right
       IN CutOut(PushToList([p EXCEPT !.order[rest] = k - 1], rest), keep, k - 1, i, o)
ReserveBlock(p, i, o) ==
  LET K == {k \in o..p.max : LET b == ParentAtOrder(i, k) IN p.free[b] /\ p.order[b] = k}
  IN IF K = {} THEN [p EXCEPT !.panic = "double reservation"]
     ELSE LET b == ParentAtOrder(i, Min(K))
          IN CutOut(RemoveFromList(p, b), b, Min(K), i, o)

(* page_allocator_init: the largest blocks that fit, from page 0 up.       *)
RECURSIVE PushBlocks(_, _)
PushBlocks(p, i) ==
  IF i = p.n THEN p
  ELSE LET o == Log2Floor(p.n - i)
       IN PushBlocks(PushToList([p EXCEPT !.order[i] = o], i), i + 2^o)
page_allocator_init(n, stray) ==
  PushBlocks([n |-> n, max |-> Log2Floor(n), stray |-> stray,
              order |-> [i \in 0..(n - 1) |-> 0], free |-> [i \in 0..(n - 1) |-> FALSE],
              lists |-> [o \in 0..Log2Floor(n) |-> <<>>], tag |-> [i \in 0..(n - 1) |-> "none"],
              fixed |-> {}, panic |-> "no"], 0)
(* The readings of node N.  When n is a power of two nobody asks for it.   *)
StrayNodes(n) == IF n = 2^Log2Floor(n) THEN {FALSE} ELSE BOOLEAN

(* page_allocator_update_memregs: the regions that are in use, in aligned  *)
(* blocks of a power of two; a region is [addr, pages, free, tag, fixed].  *)
RECURSIVE ReserveRegion(_, _, _, _)
ReserveRegion(p, r, j, remaining) ==
  IF remaining = 0 \/ p.panic # "no" THEN p
  ELSE LET o == Max({k \in 0..Log2Floor(remaining) : j % 2^k = 0})
           q == ReserveBlock(p, j, o)
       IN ReserveRegion([q EXCEPT !.tag[j] = r.tag, !.fixed = IF r.fixed THEN @ \cup {j} ELSE @],
                        r, j + 2^o, remaining - 2^o)
page_allocator_update_memregs(p, regions) ==
  FoldLeft(LAMBDA q, r : IF r.free THEN q ELSE ReserveRegion(q, r, r.addr, r.pages), p, regions)

---------------------------------------------------------------------------
(* What the allocator keeps true of p, given the blocks <<i, o>> in use.   *)
Block(i, o) == i..(i + 2^o - 1)
FreeBlocks(p) == {<<i, p.order[i]>> : i \in {j \in DOMAIN p.free : p.free[j]}}

(* Free blocks and blocks in use are aligned and divide the pages between  *)
(* them; a free bit means exactly that the block is on the list of its     *)
(* order, once.                                                            *)
PagesPartitioned(p, used) ==
  LET all == FreeBlocks(p) \cup used IN
  /\ FreeBlocks(p) \cap used = {}
  /\ \A b \in all : b[1] % 2^b[2] = 0
  /\ MapThenSumSet(LAMBDA b : 2^b[2], all) = p.n
  /\ UNION {Block(b[1], b[2]) : b \in all} = 0..(p.n - 1)
  /\ \A o \in 0..p.max :
       /\ ToSet(p.lists[o]) = {i \in DOMAIN p.free : p.free[i] /\ p.order[i] = o}
       /\ IsInjective(p.lists[o])

(* No free block has a free buddy of its own order: what was split is      *)
(* joined again as soon as both halves are free, in whatever order.        *)
BuddiesJoined(p) ==
  \A b \in FreeBlocks(p) :
    b[2] < p.max => <<BuddyOf(b[1], b[2]), b[2]>> \notin FreeBlocks(p)

---------------------------------------------------------------------------
VARIABLES pg, pg_used, pg_calls
pgVars == <<pg, pg_used, pg_calls>>

PgInit ==
  /\ \E n \in PgCounts : \E stray \in StrayNodes(n) : pg = page_allocator_init(n, stray)
  /\ pg_used = {} /\ pg_calls = 0
PgMalloc ==
  /\ pg_calls < PgOps /\ pg.panic = "no"
  /\ \E o \in 0..PgMaxOrderAsked :
       /\ HasBlock(pg, o)
       /\ pg' = page_malloc(pg, o, "client", FALSE)
       /\ pg_used' = pg_used \cup {<<FirstBlock(pg, o), o>>}
  /\ pg_calls' = pg_calls + 1
PgFree ==
  /\ pg_calls < PgOps /\ pg.panic = "no"
  /\ \E b \in pg_used : pg' = page_free(pg, b[1]) /\ pg_used' = pg_used \ {b}
  /\ pg_calls' = pg_calls + 1
PgNext == PgMalloc \/ PgFree
PgSpec == PgInit /\ [][PgNext]_pgVars

(* page_malloc and page_free hand out every page to one caller at a time   *)
(* and lose none, whatever the order of the calls; free buddies are joined *)
(* at once, and a block in use can always be given back.  This holds for   *)
(* memories that are no power of two as well, until try_merge takes what   *)
(* lies past the table for a node.                                         *)
PgPartitioned ==
  /\ pg.panic \in {"no", "get_node"}
  /\ pg.panic = "no" => PagesPartitioned(pg, pg_used) /\ BuddiesJoined(pg)

(* try_merge takes nothing for a node that is not in the table, as         *)
(* get_node asserts (DEBUG_ASSERT(i < N), page_allocator.c:121).           *)
PgNodesInTable == pg.panic # "get_node"
=============================================================================
