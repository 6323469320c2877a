------------------------------ MODULE CpuLock ------------------------------
(***************************************************************************)
(* The CPU-recursive lock of include/lib/lock.h, one shared memory access  *)
(* per step.  Each CPU runs a "main" context and, on top of it, the "irq"  *)
(* context of an interrupt handler; both may call cpulock_acquire,         *)
(* cpulock_trylock and cpulock_release on the same lock.  While the        *)
(* handler runs, the interrupted context does not.                         *)
(*                                                                         *)
(* IrqMasked is the calling discipline: TRUE when the bodies of the lock   *)
(* functions run with interrupts masked (irqlocked() cpulocked(..),        *)
(* cpulocked_irqsave(..), exception entry), FALSE for a bare cpulocked(..) *)
(* with interrupts enabled.  Between acquire and release interrupts may be *)
(* enabled either way, as after scheduler_ectx_store.                      *)
(***************************************************************************)
EXTENDS Integers

CONSTANTS CPUS,       \* CPU ids
          IrqMasked,  \* do acquire and release run with interrupts masked
          MaxDepth,   \* bound on the nested acquisitions of one context
          UintMod     \* number of values of an atomic_uint (2^32 in the code)

ASSUME CpuLockAssumption ==
    /\ CPUS \subseteq Nat
    /\ IrqMasked \in BOOLEAN
    /\ MaxDepth \in Nat \ {0}
    /\ UintMod \in Nat
    /\ UintMod > 2 * MaxDepth

Levels == {"main", "irq"}

FreeFlag == -1

VARIABLES flag,    \* lock->flag: FreeFlag or the id of the owner
          count,   \* lock->count
          pc,      \* pc[c][l]: next access of context l of CPU c in a lock function
          hold,    \* hold[c][l]: acquisitions it has completed and not released
          inIrq    \* inIrq[c]: CPU c is executing its interrupt handler

vars == <<flag, count, pc, hold, inIrq>>

PCs == {"out", "cas", "add", "trycas", "set", "test", "store"}

TypeOK == /\ flag \in CPUS \cup {FreeFlag}
          /\ count \in 0 .. (UintMod - 1)
          /\ pc \in [CPUS -> [Levels -> PCs]]
          /\ hold \in [CPUS -> [Levels -> 0 .. MaxDepth]]
          /\ inIrq \in [CPUS -> BOOLEAN]

(* CPULOCK_INIT, with every CPU outside the lock functions. *)
Init == /\ flag = FreeFlag
        /\ count = 0
        /\ pc = [c \in CPUS |-> [l \in Levels |-> "out"]]
        /\ hold = [c \in CPUS |-> [l \in Levels |-> 0]]
        /\ inIrq = [c \in CPUS |-> FALSE]

(* Context l is the one CPU c executes. *)
Runs(c, l) == IF inIrq[c] THEN l = "irq" ELSE l = "main"

Goto(c, l, to) == pc' = [pc EXCEPT ![c][l] = to]

---------------------------------------------------------------------------
(* Variants with a plausible coding error, to show that the properties can *)
(* fail: a CAS that does not compare, a release that does not test count.  *)

AcquireCasNoCompare(c, l) ==
    /\ Runs(c, l) /\ pc[c][l] = "cas"
    /\ flag' = c
    /\ Goto(c, l, "add")
    /\ UNCHANGED <<count, hold, inIrq>>

ReleaseTestNoTest(c, l) ==
    /\ Runs(c, l) /\ pc[c][l] = "test"
    /\ Goto(c, l, "store")
    /\ UNCHANGED <<flag, count, hold, inIrq>>

---------------------------------------------------------------------------
(* cpulock_acquire *)

AcquireLoad(c, l) ==
    /\ Runs(c, l) /\ pc[c][l] = "out" /\ hold[c][l] < MaxDepth
    /\ Goto(c, l, IF flag = c THEN "add" ELSE "cas")
    /\ UNCHANGED <<flag, count, hold, inIrq>>

(* The CAS of the do-while; while the flag is not -1 the context spins. *)
AcquireCas(c, l) ==
    /\ Runs(c, l) /\ pc[c][l] = "cas"
    /\ flag = FreeFlag
    /\ flag' = c
    /\ Goto(c, l, "add")
    /\ UNCHANGED <<count, hold, inIrq>>

(* atomic_fetch_add, on the recursive and on the first path. *)
AcquireAdd(c, l) ==
    /\ Runs(c, l) /\ pc[c][l] = "add"
    /\ count' = (count + 1) % UintMod
    /\ hold' = [hold EXCEPT ![c][l] = @ + 1]
    /\ Goto(c, l, "out")
    /\ UNCHANGED <<flag, inIrq>>

---------------------------------------------------------------------------
(* cpulock_trylock *)

TryLoad(c, l) ==
    /\ Runs(c, l) /\ pc[c][l] = "out" /\ hold[c][l] < MaxDepth
    /\ Goto(c, l, IF flag = c THEN "add" ELSE "trycas")
    /\ UNCHANGED <<flag, count, hold, inIrq>>

TryCas(c, l) ==
    /\ Runs(c, l) /\ pc[c][l] = "trycas"
    /\ IF flag = FreeFlag
       THEN flag' = c /\ Goto(c, l, "set")
       ELSE flag' = flag /\ Goto(c, l, "out")
    /\ UNCHANGED <<count, hold, inIrq>>

TrySet(c, l) ==
    /\ Runs(c, l) /\ pc[c][l] = "set"
    /\ count' = 1
    /\ hold' = [hold EXCEPT ![c][l] = @ + 1]
    /\ Goto(c, l, "out")
    /\ UNCHANGED <<flag, inIrq>>

---------------------------------------------------------------------------
(* cpulock_release *)

ReleaseSub(c, l) ==
    /\ Runs(c, l) /\ pc[c][l] = "out" /\ hold[c][l] > 0
    /\ count' = (count - 1) % UintMod
    /\ hold' = [hold EXCEPT ![c][l] = @ - 1]
    /\ Goto(c, l, "test")
    /\ UNCHANGED <<flag, inIrq>>

(* The count is read again after the subtraction. *)
ReleaseTest(c, l) ==
    /\ Runs(c, l) /\ pc[c][l] = "test"
    /\ Goto(c, l, IF count = 0 THEN "store" ELSE "out")
    /\ UNCHANGED <<flag, count, hold, inIrq>>

ReleaseStore(c, l) ==
    /\ Runs(c, l) /\ pc[c][l] = "store"
    /\ flag' = FreeFlag
    /\ Goto(c, l, "out")
    /\ UNCHANGED <<count, hold, inIrq>>

---------------------------------------------------------------------------
(* Interrupts of the same CPU: taken unless the main context is inside a   *)
(* lock function that masks them; the handler gives back what it took.     *)

IrqEnter(c) ==
    /\ ~inIrq[c]
    /\ IrqMasked => pc[c]["main"] = "out"
    /\ inIrq' = [inIrq EXCEPT ![c] = TRUE]
    /\ UNCHANGED <<flag, count, pc, hold>>

IrqExit(c) ==
    /\ inIrq[c]
    /\ pc[c]["irq"] = "out" /\ hold[c]["irq"] = 0
    /\ inIrq' = [inIrq EXCEPT ![c] = FALSE]
    /\ UNCHANGED <<flag, count, pc, hold>>

---------------------------------------------------------------------------
Acquire(c, l) == AcquireLoad(c, l) \/ AcquireCas(c, l) \/ AcquireAdd(c, l)
Try(c, l)     == TryLoad(c, l) \/ TryCas(c, l) \/ TrySet(c, l)
Release(c, l) == ReleaseSub(c, l) \/ ReleaseTest(c, l) \/ ReleaseStore(c, l)

Next == \/ \E c \in CPUS, l \in Levels : Acquire(c, l) \/ Try(c, l) \/ Release(c, l)
        \/ \E c \in CPUS : IrqEnter(c) \/ IrqExit(c)

Spec == Init /\ [][Next]_vars

---------------------------------------------------------------------------
(* Properties *)

Held(c) == hold[c]["main"] + hold[c]["irq"]

(* Mutual exclusion between CPUs: two CPUs never both hold the lock, for   *)
(* any nesting of acquire, trylock and release in the main context and in  *)
(* interrupt handlers of each CPU.                                         *)
MutualExclusion == \A c, d \in CPUS : Held(c) > 0 /\ Held(d) > 0 => c = d

(* cpulock_is_owner is right and the lock word agrees with its holders:    *)
(* a holder's id is in the flag, the count is the number of acquisitions   *)
(* not yet released, and a free lock has count 0 (so trylock may overwrite *)
(* it with 1).                                                             *)
LockWordExact ==
    /\ \A c \in CPUS : Held(c) > 0 => flag = c
    /\ \A c \in CPUS : flag = c => count = Held(c)
    /\ flag = FreeFlag => count = 0

(* The inductive invariant behind the safety properties.  The owner's id   *)
(* is in the flag from the CAS until the final store; a context between    *)
(* its CAS and its count update owns a lock with count 0; a handler never  *)
(* runs while the main context of its CPU is inside a lock function, and   *)
(* holds nothing when it is not running.                                   *)
IInv ==
    /\ TypeOK
    /\ LockWordExact
    /\ \A c \in CPUS, l \in Levels :
         /\ pc[c][l] \in {"add", "set", "test", "store"} => flag = c
         /\ pc[c][l] \in {"set", "store"} => count = 0
         /\ pc[c][l] \in {"add", "cas", "trycas", "set"} => hold[c][l] < MaxDepth
    /\ \A c \in CPUS :
         /\ inIrq[c] => pc[c]["main"] = "out"
         /\ ~inIrq[c] => pc[c]["irq"] = "out" /\ hold[c]["irq"] = 0

(* Refinement of the abstract recursive lock.                              *)
Owner == IF \E c \in CPUS : Held(c) > 0
         THEN CHOOSE c \in CPUS : Held(c) > 0
         ELSE FreeFlag
Depth == IF Owner = FreeFlag THEN 0 ELSE Held(Owner)

Abs == INSTANCE RecursiveLock WITH NoCpu <- FreeFlag, owner <- Owner, depth <- Depth

(* Every behaviour of the lock word is a behaviour of a recursive lock.    *)
RefinesRecursiveLock == Abs!RSpec
=============================================================================
