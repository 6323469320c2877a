---------------------------- MODULE EarlyMemory ----------------------------
(***************************************************************************)
(* The memory map of the boot (src/src/kernel/mm/init/mem_regions/         *)
(* early_kalloc.c): a list of regions [addr, pages, free, tag, fixed],     *)
(* in pages, from which early_kalloc takes the first fit and which the     *)
(* page allocator and the address allocator are started from.  A board is  *)
(* [regions, reserved, sections]: the REGIONS of mem_regions.c that are    *)
(* MMIO or DDR, the reserved ones, and the sections of the kernel image.   *)
(* fixed is memreg.permanent; device_memory is not kept.                   *)
(***************************************************************************)
EXTENDS Naturals, SequencesExt

RegionEnd(r) == r.addr + r.pages
(* mm_info_page_count: up to the end of the last region.                   *)
mm_info_page_count(regions) ==
  CHOOSE n \in {RegionEnd(r) : r \in ToSet(regions)} : \A r \in ToSet(regions) : RegionEnd(r) <= n
Splice(regions, i, new) ==
  SubSeq(regions, 1, i - 1) \o new \o SubSeq(regions, i + 1, Len(regions))

(* reserve_memreg: the region that holds e becomes what is before e, e,    *)
(* and what is after it.  replaceAll also allows a region in use.          *)
ReserveMemreg(regions, e, replaceAll) ==
  LET I == {i \in DOMAIN regions : (replaceAll \/ regions[i].free)
              /\ regions[i].addr <= e.addr /\ RegionEnd(e) <= RegionEnd(regions[i])}
      i == CHOOSE k \in I : \A j \in I : k <= j
      c == regions[i]
      before == IF c.addr = e.addr THEN <<>> ELSE <<[c EXCEPT !.pages = e.addr - c.addr]>>
      after == IF RegionEnd(c) = RegionEnd(e) THEN <<>>
               ELSE <<[c EXCEPT !.addr = RegionEnd(e), !.pages = RegionEnd(c) - RegionEnd(e)]>>
  IN Splice(regions, i, before \o <<e>> \o after)

InUse(addr, pages, tag, fixed) ==
  [addr |-> addr, pages |-> pages, free |-> FALSE, tag |-> tag, fixed |-> fixed]

(* early_kalloc_init: the regions of the board, then the reserved ones,    *)
(* then the sections of the kernel.                                        *)
early_kalloc_init(board) ==
  LET base == [i \in DOMAIN board.regions |->
                 [addr |-> board.regions[i].addr, pages |-> board.regions[i].pages,
                  free |-> board.regions[i].ddr, tag |-> "region", fixed |-> TRUE]]
      reserve(rs, r) == ReserveMemreg(rs, InUse(r.addr, r.pages, "reserved", TRUE), TRUE)
      section(rs, r) == ReserveMemreg(rs, InUse(r.addr, r.pages, "section", TRUE), FALSE)
  IN FoldLeft(section, FoldLeft(reserve, base, board.reserved), board.sections)

(* early_kalloc: the start of the first free region that is large enough.  *)
EarlyFits(regions, pages) == {i \in DOMAIN regions : regions[i].free /\ regions[i].pages >= pages}
EarlyAddr(regions, pages) ==
  regions[CHOOSE i \in EarlyFits(regions, pages) :
            \A j \in EarlyFits(regions, pages) : i <= j].addr
early_kalloc(regions, pages, tag, fixed) ==
  ReserveMemreg(regions, InUse(EarlyAddr(regions, pages), pages, tag, fixed), FALSE)
=============================================================================
