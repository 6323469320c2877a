------------------------------ MODULE MmuCore ------------------------------
(***************************************************************************)
(* Which translation tables each CPU uses, from the first instruction of   *)
(* the boot CPU, which runs at physical addresses, through the move of the *)
(* kernel to its virtual addresses and the start of the other CPUs, to the *)
(* switches of the scheduler (arm/mmu/mmu_core.c, mm/mm_mmu, mm/reloc,     *)
(* mm/init/identity_mapping.c, smp/smp.c).                                 *)
(*                                                                         *)
(* Pointers keep the space they were made in: a physical address is        *)
(* usable while the MMU is off or the identity table is in TTBR0, a        *)
(* virtual one while the kernel's table is in TTBR1.  An access that the   *)
(* CPU cannot translate, and a failed ASSERT, set core.fault.              *)
(***************************************************************************)
EXTENDS Integers, Sequences, FiniteSetsExt

CONSTANTS CoreCpus,     \* CPUs, from 0, which boots the others
          CoreTasks,    \* the tasks kernel_entry makes
          CoreSwitches  \* bound on the switches of address space

VARIABLES core,         \* mappings, handles and registers: see CoreInit
          core_used     \* switches so far

coreVars == <<core, core_used>>

KERNEL_BASE == 100
Kernel == {"unmapped", "identity", "kernel"}
Mappings == Kernel \cup CoreTasks
\* The physical address of the first table of a mapping.
Root == CHOOSE f \in [Mappings -> 1..Cardinality(Mappings)] : \A m, n \in Mappings : m # n => f[m] # f[n]

Pa(m) == [m |-> m, va |-> FALSE]
Va(m) == [m |-> m, va |-> TRUE]
NullPtr == [m |-> "null", va |-> FALSE]
as_kva(p) == [p EXCEPT !.va = TRUE]
TblAsKva(a) == IF a >= KERNEL_BASE THEN a ELSE a + KERNEL_BASE

----------------------------------------------------------------------------
(* What a CPU can translate.                                               *)
Reaches(w, c, va) ==
    LET r == w.reg[c]
    IN  IF r.el = 2 \/ ~r.on THEN ~va
        ELSE r.ttbr[IF va THEN "hi" ELSE "lo"] = Root[IF va THEN "kernel" ELSE "identity"]
Access(w, c, va) == [w EXCEPT !.fault = @ \/ ~Reaches(w, c, va)]

mmu_mapping_new(rng, tbl, offset, va) ==
    [rng |-> rng, tbl |-> tbl, offset |-> offset, allocator |-> va,
     bits |-> 48, granularity |-> 4]
Ttbr(w, p) == w.map[p.m].tbl - w.map[p.m].offset

mmu_core_set_mapping(w, c, p) ==
    LET v == Access(w, c, p.va)
        rng == w.map[p.m].rng
    IN  IF w.handle[c].map[rng] = p THEN v
        ELSE [v EXCEPT !.handle[c].map[rng] = p,
                       !.reg[c].ttbr[rng] = IF w.reg[c].on THEN Ttbr(w, p) ELSE @]

----------------------------------------------------------------------------
(* mmu_core_set_d_cache and the other setters: refused when the MMU is on. *)
SetFlag(w, c, flag, v) ==
    IF w.reg[c].on THEN [w EXCEPT !.fault = TRUE]
    ELSE [w EXCEPT !.handle[c].flags[flag] = v]
TG0(kib) == CASE kib = 4 -> 0 [] kib = 16 -> 2 [] kib = 64 -> 1
TG1(kib) == CASE kib = 4 -> 2 [] kib = 16 -> 1 [] kib = 64 -> 3

NoFlags == [d_cache |-> FALSE, i_cache |-> FALSE, align_trap |-> FALSE, lo |-> FALSE, hi |-> FALSE,
            lo_bits |-> 0, hi_bits |-> 0, tg0 |-> 0, tg1 |-> 0]

mmu_core_handle_new(w, c, lo, hi) ==
    LET set == mmu_core_set_mapping(mmu_core_set_mapping(w, c, lo), c, hi)
        flags == [d_cache |-> TRUE, i_cache |-> TRUE, align_trap |-> FALSE,
                  lo |-> TRUE, hi |-> TRUE,
                  lo_bits |-> w.map[lo.m].bits, hi_bits |-> w.map[hi.m].bits,
                  tg0 |-> TG0(w.map[lo.m].granularity), tg1 |-> TG1(w.map[hi.m].granularity)]
    IN  IF w.map[lo.m].rng # "lo" \/ w.map[hi.m].rng # "hi" THEN [w EXCEPT !.fault = TRUE]
        ELSE [FoldSet(LAMBDA f, v : SetFlag(v, c, f, flags[f]), set, DOMAIN flags)
                EXCEPT !.handle[c].aff = c]

mmu_core_activate(w, c) ==
    LET h == w.handle[c]
        v == Access(w, c, h.map["lo"].va)
    IN  IF \/ h.aff # c \/ ~h.flags.lo \/ w.reg[c].on
           \/ h.flags.lo_bits \notin 39..48 \/ h.flags.hi_bits \notin 39..48
        THEN [w EXCEPT !.fault = TRUE]
        ELSE [v EXCEPT !.reg[c].on = TRUE, !.reg[c].flags = h.flags,
                       !.reg[c].ttbr = [lo |-> Ttbr(w, h.map["lo"]),
                                        hi |-> IF h.flags.hi THEN Ttbr(w, h.map["hi"]) ELSE @["hi"]]]

----------------------------------------------------------------------------
(* The boot CPU.                                                           *)
mm_mmu_early_init(w) ==
    [w EXCEPT !.map["unmapped"] = mmu_mapping_new("lo", Root["unmapped"] + KERNEL_BASE, KERNEL_BASE, FALSE)]
early_identity_mapping(w) ==
    [w EXCEPT !.map["identity"] = mmu_mapping_new("lo", Root["identity"], 0, FALSE),
              !.map["kernel"] = mmu_mapping_new("hi", Root["kernel"], 0, FALSE)]

\* early_reloc_cfg_end: the allocators and the offset, through the kernel's
\* own pointers; then the tables, through the pointers of the handle.
SetOffsets(w) ==
    [Access(w, 0, TRUE) EXCEPT
       !.map = [m \in Mappings |-> IF m \in {"identity", "kernel"}
                                   THEN [@[m] EXCEPT !.allocator = TRUE, !.offset = KERNEL_BASE] ELSE @[m]]]

RelocateTables(w) ==
    LET lo == w.handle[0].map["lo"]
        hi == w.handle[0].map["hi"]
    IN  [Access(Access(w, 0, lo.va), 0, hi.va) EXCEPT !.map[lo.m].tbl = TblAsKva(@),
                                                      !.map[hi.m].tbl = TblAsKva(@)]
\* mmu_unmap of the free heap: it reads the tables and may allocate one.
UnmapHeap(w) == Access(Access(w, 0, w.map["kernel"].tbl >= KERNEL_BASE), 0, w.map["kernel"].allocator)

\* A bug: the identity mapping is left before the tables are relocated.
BootStepsUnmapFirst == <<"early_init", "identity", "handle", "activate", "jump", "stack",
                         "offsets", "unmapped", "tables", "lo", "hi", "heap">>
BootSteps == <<"early_init", "identity", "handle", "activate", "jump", "stack",
               "offsets", "tables", "lo", "hi", "unmapped", "heap">>

Boot(w, s) ==
    CASE s = "early_init" -> mm_mmu_early_init(w)
      [] s = "identity" -> early_identity_mapping(w)
      [] s = "handle" -> mmu_core_handle_new(w, 0, Pa("identity"), Pa("kernel"))
      [] s = "activate" -> mmu_core_activate(w, 0)
      [] s = "jump" -> [w EXCEPT !.reg[0].pc = TRUE]
      [] s = "stack" -> [w EXCEPT !.reg[0].sp = TRUE]
      [] s = "offsets" -> SetOffsets(w)
      [] s = "tables" -> RelocateTables(w)
      [] s = "lo" -> mmu_core_set_mapping(w, 0, as_kva(w.handle[0].map["lo"]))
      [] s = "hi" -> mmu_core_set_mapping(w, 0, as_kva(w.handle[0].map["hi"]))
      [] s = "unmapped" -> mmu_core_set_mapping(w, 0, Va("unmapped"))
      [] s = "heap" -> UnmapHeap(w)

CoreBoot ==
    /\ ~core.fault /\ core.at[0] <= Len(BootSteps)
    /\ core' = [Boot(core, BootSteps[core.at[0]]) EXCEPT !.at[0] = @ + 1]
    /\ UNCHANGED core_used
Booted == core.at[0] > Len(BootSteps)

----------------------------------------------------------------------------
(* The other CPUs start in EL2, which does not translate; after            *)
(* setup_secondary_core_el2 they return to a virtual address in EL1.       *)
setup_secondary_core_el2(c) ==
    /\ ~core.fault /\ Booted /\ c # 0
    /\ \/ core.at[c] = 1 /\ core' = [mmu_core_handle_new(core, c, Pa("unmapped"), Pa("kernel")) EXCEPT !.at[c] = 2]
       \/ core.at[c] = 2 /\ core' = [mmu_core_activate(core, c) EXCEPT !.at[c] = 3]
       \/ core.at[c] = 3 /\ core' = [core EXCEPT !.at[c] = 4, !.reg[c].el = 1, !.reg[c].pc = TRUE, !.reg[c].sp = TRUE]
    /\ UNCHANGED core_used
CoreRuns(c) == Booted /\ (c # 0 => core.at[c] = 4)
SmpInit == \A c \in CoreCpus : CoreRuns(c)

\* task_new, by the boot CPU once all have started: mm_mmu_mapping_new.
CoreTaskNew(t) ==
    /\ ~core.fault /\ SmpInit /\ core.map[t].rng = "none"
    /\ core' = [core EXCEPT !.map[t] = mmu_mapping_new("lo", Root[t] + KERNEL_BASE, KERNEL_BASE, TRUE)]
    /\ UNCHANGED core_used

set_thread_mapping(c, m) ==
    /\ ~core.fault /\ CoreRuns(c) /\ core.map[m].rng = "lo"
    /\ core_used < CoreSwitches /\ core_used' = core_used + 1
    /\ core' = mmu_core_set_mapping(core, c, Va(m))

CoreInit ==
    /\ core = [map |-> [m \in Mappings |-> mmu_mapping_new("none", 0, 0, FALSE)],
               handle |-> [c \in CoreCpus |-> [map |-> [lo |-> NullPtr, hi |-> NullPtr], aff |-> 0,
                                               flags |-> NoFlags]],
               reg |-> [c \in CoreCpus |-> [on |-> FALSE, ttbr |-> [lo |-> 0, hi |-> 0], flags |-> NoFlags,
                                            el |-> IF c = 0 THEN 1 ELSE 2, pc |-> FALSE, sp |-> FALSE]],
               at |-> [c \in CoreCpus |-> 1], fault |-> FALSE]
    /\ core_used = 0

CoreNext ==
    \/ CoreBoot
    \/ \E t \in CoreTasks : CoreTaskNew(t)
    \/ \E c \in CoreCpus : \/ setup_secondary_core_el2(c)
                           \/ \E m \in CoreTasks \cup {"unmapped"} : set_thread_mapping(c, m)

----------------------------------------------------------------------------
\* No CPU ever uses an address it cannot translate: neither its next
\* instruction and its stack, nor a mapping, a table or a handle it follows a
\* pointer to, before, during and after the move to virtual addresses.
CoreReachable ==
    /\ ~core.fault
    /\ \A c \in CoreCpus : Reaches(core, c, core.reg[c].pc) /\ Reaches(core, c, core.reg[c].sp)
=============================================================================
