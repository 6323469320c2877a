----------------------------- MODULE MmuTables -----------------------------
(***************************************************************************)
(* The translation tables of src/src/arm/mmu/mmu.c: mmu_map, mmu_unmap and *)
(* mmu_walk_page on a tree of tables with MmuEntries descriptors each.     *)
(* Addresses are page numbers.  Level 0 is the root, MmuMaxLevel holds the *)
(* page descriptors, and a block may stand at every level from 1 on.       *)
(* A mapping of the low range is modelled: va must lie in the lower half.  *)
(***************************************************************************)
EXTENDS Naturals, FiniteSetsExt

CONSTANTS
  MmuEntries,     \* tbl_entries(g)
  MmuMaxLevel,    \* max_level(g)
  MmuVas, MmuSizes,   \* the virtual page numbers and page counts that callers use
  MmuTargets,     \* the [pa, cfg] that callers map to
  MmuOps          \* bound on the number of calls

VARIABLES
  mmu_tbl0,       \* the root table (m->tbl_)
  mmu_tables,     \* tables taken from the allocator and not given back
  mmu_panic,      \* the ASSERT that stopped the kernel, or "no"
  mmu_calls,
  page_map        \* the translations that the callers asked for

mmuVars == <<mmu_tbl0, mmu_tables, mmu_panic, mmu_calls, page_map>>

MmuCover(l) == MmuEntries ^ (MmuMaxLevel - l)
MmuVaPages == MmuEntries ^ (MmuMaxLevel + 1)
MmuLowPages == 0..(MmuVaPages \div 2 - 1)
TableIndex(va, l) == (va \div MmuCover(l)) % MmuEntries

(* is_in_range for a low mapping: the first and the last page of the range *)
(* have their sign bit clear; an empty range is not in range.              *)
IsInRange(va, n) == n # 0 /\ va < MmuVaPages \div 2 /\ va + n - 1 < MmuVaPages \div 2

(* get_target_lvl: the first level from 1 on whose blocks fit the rest.    *)
TargetLevel(va, pa, n) ==
  CHOOSE l \in 1..MmuMaxLevel :
    LET fits(k) == n >= MmuCover(k) /\ va % MmuCover(k) = 0 /\ pa % MmuCover(k) = 0
    IN fits(l) /\ \A k \in 1..(l - 1) : ~fits(k)

---------------------------------------------------------------------------
(* Descriptors.  bit is the type bit: 0 for a block, 1 for a table and for *)
(* a page, so that the level decides what a descriptor with the bit is.    *)
NullPd == [valid |-> FALSE, bit |-> 0]
NullTbl == [i \in 0..(MmuEntries - 1) |-> NullPd]
BdBuild(cfg, pa, l) ==
  [valid |-> TRUE, bit |-> IF l = MmuMaxLevel THEN 1 ELSE 0, pa |-> pa, cfg |-> cfg]
TdBuild(tbl) == [valid |-> TRUE, bit |-> 1, tbl |-> tbl]

(* dc_get_type; "assert" is the failed ASSERT of the last level.           *)
DcType(dc, l) ==
  IF l = MmuMaxLevel THEN (IF dc.bit = 1 THEN "page" ELSE "assert")
  ELSE IF dc.bit = 0 THEN "block" ELSE "table"

SplitBlockSamePage(dc, l) ==
  [i \in 0..(MmuEntries - 1) |-> BdBuild(dc.cfg, dc.pa, l + 1)]

(* split_block: the table of the next level that maps what the block did.  *)
SplitBlock(dc, l) ==
  [i \in 0..(MmuEntries - 1) |-> BdBuild(dc.cfg, dc.pa + i * MmuCover(l + 1), l + 1)]

(* The table below a descriptor, made on the way down where there is none. *)
NextTable(dc, l) ==
  IF ~dc.valid THEN NullTbl
  ELSE IF DcType(dc, l) = "block" THEN SplitBlock(dc, l) ELSE dc.tbl

(* The first level above target at which the way down ends, or target.     *)
RECURSIVE DescentEnd(_, _, _, _)
DescentEnd(tbl, l, target, va) ==
  LET dc == tbl[TableIndex(va, l)] IN
  IF l = target \/ ~dc.valid THEN l
  ELSE DescentEnd(NextTable(dc, l), l + 1, target, va)

RECURSIVE EntryAt(_, _, _, _)
EntryAt(tbl, l, target, va) ==
  LET dc == tbl[TableIndex(va, l)] IN
  IF l = target THEN dc ELSE EntryAt(NextTable(dc, l), l + 1, target, va)

(* The tables with the target's entry replaced, and all splits done.       *)
RECURSIVE SetEntry(_, _, _, _, _)
SetEntry(tbl, l, target, va, new) ==
  LET i == TableIndex(va, l) IN
  [tbl EXCEPT ![i] = IF l = target THEN new
     ELSE TdBuild(SetEntry(NextTable(tbl[i], l), l + 1, target, va, new))]

(* The tables that a descent to target allocates.                          *)
RECURSIVE NewTables(_, _, _, _)
NewTables(tbl, l, target, va) ==
  IF l = target THEN 0
  ELSE LET dc == tbl[TableIndex(va, l)] IN
       (IF dc.valid /\ DcType(dc, l) = "table" THEN 0 ELSE 1)
         + NewTables(NextTable(dc, l), l + 1, target, va)

(* free_tbl(tbl, l).  The entries are those of level l + 1 but are read    *)
(* with l, and tbl_from_td then reads them with l + 1: a valid page looks  *)
(* like a table to the one and fails the ASSERT of the other.              *)
RECURSIVE FreeTblFails(_, _)
FreeTblFails(tbl, l) ==
  \E i \in DOMAIN tbl :
    /\ tbl[i].valid /\ DcType(tbl[i], l) = "table"
    /\ \/ DcType(tbl[i], l + 1) # "table"
       \/ FreeTblFails(tbl[i].tbl, l + 1)

RECURSIVE TablesIn(_)
TablesIn(tbl) ==
  1 + MapThenSumSet(LAMBDA i : TablesIn(tbl[i].tbl),
                    {i \in DOMAIN tbl : tbl[i].valid /\ "tbl" \in DOMAIN tbl[i]})

---------------------------------------------------------------------------

(* One round of the loop of mmu_map or mmu_unmap on m = [tbl, tables,      *)
(* panic]: replace one entry, free the table it held.                      *)
ReplaceEntry(m, target, va, new) ==
  LET old == EntryAt(m.tbl, 0, target, va)
      wasTable == old.valid /\ DcType(old, target) = "table" IN
  [tbl |-> SetEntry(m.tbl, 0, target, va, new),
   tables |-> m.tables + NewTables(m.tbl, 0, target, va)
                - (IF wasTable THEN TablesIn(old.tbl) ELSE 0),
   panic |-> IF wasTable /\ FreeTblFails(old.tbl, target) THEN "free_tbl" ELSE "no"]

RECURSIVE MapLoop(_, _, _, _, _)
MapLoop(m, va, pa, n, cfg) ==
  IF n = 0 \/ m.panic # "no" THEN m
  ELSE LET l == TargetLevel(va, pa, n)
           c == MmuCover(l)
       IN MapLoop(ReplaceEntry(m, l, va, BdBuild(cfg, pa, l)), va + c, pa + c, n - c, cfg)

(* mmu_unmap skips what an invalid descriptor covers.  An entry that is    *)
(* found is cleared; dc_get_type is asked before dc_get_valid, and fails   *)
(* its ASSERT on an invalid page descriptor.                               *)
RECURSIVE UnmapLoop(_, _, _)
UnmapLoop(m, va, n) ==
  IF n = 0 \/ m.panic # "no" THEN m
  ELSE LET target == TargetLevel(va, 0, n)
           l == DescentEnd(m.tbl, 0, target, va)
           skip == IF n < MmuCover(l) THEN n ELSE MmuCover(l)
           c == MmuCover(target)
       IN IF l # target THEN UnmapLoop(m, va + skip, n - skip)
          ELSE IF DcType(EntryAt(m.tbl, 0, l, va), l) = "assert"
          THEN [m EXCEPT !.panic = "dc_get_type"]
          ELSE UnmapLoop(ReplaceEntry(m, l, va, NullPd), va + c, n - c)

Mmu == [tbl |-> mmu_tbl0, tables |-> mmu_tables, panic |-> mmu_panic]
MmuSet(m) ==
  /\ mmu_tbl0' = m.tbl /\ mmu_tables' = m.tables /\ mmu_panic' = m.panic
  /\ mmu_calls' = mmu_calls + 1

mmu_map(va, pa, n, cfg) ==
  IsInRange(va, n) /\ MmuSet(MapLoop(Mmu, va, pa, n, cfg))
mmu_unmap(va, n) == MmuSet(UnmapLoop(Mmu, va, n))

(* mmu_walk_page: the translation of one page.                             *)
MmuUnmapped == [pa |-> 0, cfg |-> "unmapped"]
RECURSIVE WalkFrom(_, _, _)
WalkFrom(tbl, l, va) ==
  LET dc == tbl[TableIndex(va, l)] IN
  IF ~dc.valid THEN MmuUnmapped
  ELSE IF DcType(dc, l) = "table" THEN WalkFrom(dc.tbl, l + 1, va)
  ELSE [pa |-> dc.pa + (va % MmuCover(l)), cfg |-> dc.cfg]
mmu_walk_page(va) == WalkFrom(mmu_tbl0, 0, va)

MmuInit ==
  /\ mmu_tbl0 = NullTbl /\ mmu_tables = 1 /\ mmu_panic = "no" /\ mmu_calls = 0
  /\ page_map = [p \in MmuLowPages |-> MmuUnmapped]

(* page_map is what the callers were promised: each call rewrites its own  *)
(* range.  They unmap what they mapped, or (reloc.c) what never was.       *)
PromiseMap(va, pa, n, cfg) ==
  page_map' = [p \in MmuLowPages |->
    IF p \in va..(va + n - 1) THEN [pa |-> pa + (p - va), cfg |-> cfg] ELSE page_map[p]]
PromiseUnmap(va, n) ==
  page_map' = [p \in MmuLowPages |->
    IF p \in va..(va + n - 1) THEN MmuUnmapped ELSE page_map[p]]

MmuMap ==
  /\ mmu_calls < MmuOps /\ mmu_panic = "no"
  /\ \E va \in MmuVas, n \in MmuSizes, t \in MmuTargets :
       mmu_map(va, t.pa, n, t.cfg) /\ PromiseMap(va, t.pa, n, t.cfg)
MmuUnmap ==
  /\ mmu_calls < MmuOps /\ mmu_panic = "no"
  /\ \E va \in MmuVas, n \in MmuSizes :
       /\ IsInRange(va, n)
       /\ \/ \A p \in va..(va + n - 1) : page_map[p] # MmuUnmapped
          \/ \A p \in va..(va + n - 1) : page_map[p] = MmuUnmapped
       /\ mmu_unmap(va, n) /\ PromiseUnmap(va, n)
MmuNext == MmuMap \/ MmuUnmap

---------------------------------------------------------------------------
RECURSIVE WellFormedFrom(_, _)
WellFormedFrom(tbl, l) ==
  \A i \in DOMAIN tbl : tbl[i].valid =>
    CASE DcType(tbl[i], l) = "table" -> WellFormedFrom(tbl[i].tbl, l + 1)
      [] OTHER -> l > 0 /\ tbl[i].pa % MmuCover(l) = 0

(* The tables stay a tree that the hardware can walk: no block at level 0, *)
(* every block's address is aligned to what the block covers (the ASSERT   *)
(* of split_block), whatever was split, replaced or unmapped before.       *)
MmuTablesWellFormed == WellFormedFrom(mmu_tbl0, 0)

(* Every table that alloc_tbl took is in the tree or was given back:       *)
(* replacing a table by a block frees all of it, once.                     *)
MmuNoTableLost == mmu_tables = TablesIn(mmu_tbl0)

(* mmu_walk_page gives the map that the calls built: one call rewrites its *)
(* own range and keeps every other translation, whatever blocks it splits. *)
MmuWalkIsPageMap == \A p \in MmuLowPages : mmu_walk_page(p) = page_map[p]

(* Up to a failed ASSERT, the tables of mmu.c are a tree that the hardware *)
(* can walk, that loses no table and that translates as the calls asked.   *)
MmuTablesCorrect ==
  mmu_panic = "no" => MmuTablesWellFormed /\ MmuNoTableLost /\ MmuWalkIsPageMap
=============================================================================
